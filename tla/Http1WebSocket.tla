---------------------------- MODULE Http1WebSocket ----------------------------
(***************************************************************************)
(* The two RFC 6455 executors over HTTP/1.1, go-http1-websocket-executor   *)
(* (cleartext) and go-http1-websocket-tls-executor, each against a peer:   *)
(* the target of its own package or an implementation under test, which    *)
(* may answer anything, early, late, twice or not at all. Both executors   *)
(* run the same steps; what they expect and accept differs by kind. Time   *)
(* passes in ticks of 2.5 s, and only while the executor waits.            *)
(***************************************************************************)
EXTENDS Integers, Sequences

CONSTANTS MaxRounds,   \* bound: operations of one phase
          MaxQueued    \* bound: messages of a foreign peer not yet read

ASSUME WebSocketAssumption == MaxRounds \in Nat \ {0} /\ MaxQueued \in Nat \ {0}

Ticks(seconds) == (2 * seconds + 4) \div 5

operationTimeout == Ticks(5)     \* operationTimeoutMilliseconds = 5000
phaseLength == [warmup |-> Ticks(1), measured |-> Ticks(5)]

(* SetDeadline of handleConnection, once per connection. *)
connectionDeadlineShort == Ticks(10)
connectionDeadline == Ticks(30)

Expect(operation, request, response, data) ==
  [operation |-> operation, request |-> request, response |-> response, data |-> data,
   subprotocol |-> FALSE, deflate |-> FALSE]

cleartextExpectations ==
  [upgrade |-> Expect("establish", "none", "none", "none"),
   text    |-> Expect("text-echo", "text", "text", "text"),
   binary  |-> Expect("binary-echo", "binary", "binary", "binary"),
   control |-> Expect("control-frames", "ping", "pong", "control"),
   close   |-> Expect("close", "none", "none", "none")]

tlsExpectations ==
  [upgrade     |-> Expect("establish", "none", "none", "none"),
   text        |-> Expect("text-echo", "text", "text", "text"),
   binary      |-> Expect("binary-echo", "binary", "binary", "binary"),
   control     |-> Expect("control-frames", "ping", "pong", "control"),
   close       |-> Expect("close", "none", "none", "none"),
   subprotocol |-> [Expect("text-echo", "text", "text", "text") EXCEPT !.subprotocol = TRUE],
   deflate     |-> [Expect("binary-echo", "binary", "binary", "binary") EXCEPT !.deflate = TRUE]]

Tables == [cleartext |-> cleartextExpectations, tls |-> tlsExpectations]

NoExit == -1
Counts == {"completed", "failed", "timedOut", "opened"}
Identities == {"exact", "substituted", "unsupported", "unknown", "bad target"}

VARIABLES env,        \* what the environment and the flags ask for
          peer,       \* "packaged" or "foreign"
          pc,         \* what the executor does or waits for
          period,     \* "preflight", "warmup" or "measured"
          tally,      \* phaseSummary
          result,     \* what result.json holds
          exitCode,
          toServer, toClient,   \* bytes under way, in order
          server,     \* the peer's end: "none", "backlog", "opening", "frames", "closed", "reset"
          tlsProof,   \* TLS 1.3, ALPN, full session and certificate are the expected ones
          opLeft, phaseLeft, serverLeft,   \* ticks to the three deadlines
          frames, exact,   \* history: frames the peer sent in the period; all of them right
          late        \* history: a deadline of the executor has passed

wsVars == << env, peer, pc, period, tally, result, exitCode, toServer, toClient, server,
             tlsProof, opLeft, phaseLeft, serverLeft, frames, exact, late >>

expectation == Tables[env.kind][env.scenario]

(* The phases of a message scenario keep one connection, the others open    *)
(* one per operation.                                                       *)
reusable == expectation.operation \in {"text-echo", "binary-echo", "control-frames"}

-----------------------------------------------------------------------------
(* Frames. A payload is its content and whether DEFLATE was applied to it.  *)

Frame(opcode, data, deflated) ==
  [type |-> "frame", opcode |-> opcode, data |-> data, deflated |-> deflated,
   rsv |-> IF deflated THEN "rsv1" ELSE "none", fin |-> TRUE, masked |-> FALSE, long |-> FALSE]

Response(right, subprotocol, extension) ==
  [type |-> "response", right |-> right, subprotocol |-> subprotocol, extension |-> extension]

Request == [type |-> "request", subprotocol |-> expectation.subprotocol,
            extension |-> expectation.deflate]

writeClientFrame(opcode, data, deflated) ==
  [Frame(opcode, data, deflated) EXCEPT !.masked = TRUE]

Control == {"close", "ping", "pong"}

(* readFrame: the direction decides on the mask, the length is limited, and *)
(* control frames are short and whole.                                      *)
readFrame(f, requireMask) ==
  /\ f.masked = requireMask /\ ~f.long
  /\ f.opcode \in Control => f.fin

closeEcho(f) ==
  /\ readFrame(f, FALSE)
  /\ f.fin /\ f.rsv = "none" /\ f.opcode = "close" /\ f.data = "1000"

(* What an answer must be, in each executor: performOnOpenConnection. *)
cleartextEcho(f) ==
  /\ readFrame(f, FALSE)
  /\ f.fin /\ f.rsv = "none" /\ f.opcode = expectation.response
  /\ f.data = expectation.data /\ ~f.deflated

tlsEcho(f) ==
  /\ readFrame(f, FALSE)
  /\ f.rsv = IF expectation.deflate THEN "rsv1" ELSE "none"
  /\ f.deflated = expectation.deflate
  /\ f.data = expectation.data /\ f.fin /\ f.opcode = expectation.response

Echo(f) == IF env.kind = "tls" THEN tlsEcho(f) ELSE cleartextEcho(f)

(* What the opening handshake's response must be. *)
cleartextHandshake(r) == r.right /\ ~r.subprotocol /\ ~r.extension

validateHandshakeProof(r) ==
  /\ r.right /\ tlsProof
  /\ r.subprotocol = expectation.subprotocol
  /\ r.extension = expectation.deflate

Handshake(r) == IF env.kind = "tls" THEN validateHandshakeProof(r) ELSE cleartextHandshake(r)

-----------------------------------------------------------------------------
(* The packaged targets: what they answer, or a refusal, after which they   *)
(* close the connection.                                                    *)

Refused == [type |-> "refused"]

cleartextUpgrade(q) ==
  IF q.subprotocol \/ q.extension THEN Response(FALSE, FALSE, FALSE)
  ELSE Response(TRUE, FALSE, FALSE)

tlsUpgrade(q) ==
  IF q.subprotocol /\ q.extension THEN Response(FALSE, FALSE, FALSE)
  ELSE Response(TRUE, q.subprotocol, q.extension)

Answers == [text |-> "text", binary |-> "binary", ping |-> "pong", close |-> "close"]
Accepts == [text |-> "text", binary |-> "binary", ping |-> "control", close |-> "1000"]

cleartextAnswer(f) ==
  IF /\ readFrame(f, TRUE) /\ f.fin /\ f.rsv = "none" /\ f.opcode \in DOMAIN Answers
     /\ f.data = Accepts[f.opcode] /\ ~f.deflated
  THEN Frame(Answers[f.opcode], f.data, FALSE) ELSE Refused

(* The negotiated profile, which is what the request offered, decides which *)
(* frames belong to the connection.                                         *)
tlsAnswer(f) ==
  LET compressed == f.opcode = "binary" /\ expectation.deflate
      belongs == CASE f.opcode = "text" -> ~expectation.deflate
                   [] f.opcode = "binary" -> ~expectation.subprotocol
                   [] f.opcode = "ping" -> ~expectation.subprotocol /\ ~expectation.deflate
                   [] f.opcode = "close" -> TRUE
                   [] OTHER -> FALSE
  IN IF /\ readFrame(f, TRUE) /\ f.fin /\ belongs
        /\ f.rsv = IF compressed THEN "rsv1" ELSE "none"
        /\ f.deflated = compressed /\ f.data = Accepts[f.opcode]
     THEN Frame(Answers[f.opcode], f.data, compressed) ELSE Refused

-----------------------------------------------------------------------------
noTally == [c \in Counts |-> 0]

WsInit ==
  /\ env \in UNION {[kind : {k}, scenario : DOMAIN Tables[k], identity : Identities,
                     validationOnly : BOOLEAN, profile : BOOLEAN,
                     timeout : {operationTimeout, Ticks(35)}] : k \in DOMAIN Tables}
  /\ peer \in {"packaged", "foreign"}
  /\ peer = "foreign" => env.timeout = operationTimeout
  /\ env.identity # "exact" => env.profile
  /\ pc = "gate" /\ period = "preflight" /\ tally = noTally
  /\ result = "none" /\ exitCode = NoExit
  /\ toServer = << >> /\ toClient = << >> /\ server = "none" /\ tlsProof = TRUE
  /\ opLeft = 0 /\ phaseLeft = 0 /\ serverLeft = 0
  /\ frames = 0 /\ exact = TRUE /\ late = FALSE

connection == << toServer, toClient, server, tlsProof, opLeft, serverLeft >>
history == << frames, exact, late >>

Exit(code) == pc' = "exit" /\ exitCode' = code

(* conn.Close: nothing of a connection outlives it on the executor's side.  *)
Hangup ==
  /\ toServer' = << >> /\ toClient' = << >> /\ server' = "none" /\ tlsProof' = TRUE
  /\ opLeft' = 0 /\ serverLeft' = 0

(* openWebSocket is called: the dialer's context has the timeout. *)
Dial ==
  /\ pc' = "dial" /\ opLeft' = env.timeout /\ server' = "backlog" /\ tlsProof' = TRUE
  /\ toServer' = << >> /\ toClient' = << >> /\ serverLeft' = 0

(* main up to the validity gate: checkIdentityOrExit and normalizeTarget. *)
Gate ==
  /\ pc = "gate"
  /\ CASE env.identity = "exact" -> Dial /\ UNCHANGED << result, exitCode >>
       [] env.identity = "unsupported" ->
            Exit(3) /\ result' = "unsupported" /\ UNCHANGED connection
       [] OTHER -> Exit(2) /\ UNCHANGED << result, connection >>
  /\ UNCHANGED << env, peer, period, tally, phaseLeft, history >>

(* runPhase begins. A reusable phase dials first and starts its clock then. *)
StartPhase(p) ==
  /\ period' = p /\ tally' = noTally /\ phaseLeft' = phaseLength[p]
  /\ frames' = 0 /\ exact' = TRUE
  /\ IF reusable THEN Dial ELSE pc' = "loop" /\ Hangup

(* An error ends the operation: the preflight fails the gate, a phase       *)
(* counts it and stops. A reusable phase counts any opening error as failed.*)
Fail(timedOut) ==
  /\ Hangup
  /\ late' = (late \/ timedOut)
  /\ IF period = "preflight"
     THEN Exit(1) /\ result' = "validation failed" /\ UNCHANGED tally
     ELSE LET class == IF timedOut /\ ~(reusable /\ pc \in {"dial", "upgrade"})
                       THEN "timedOut" ELSE "failed"
          IN /\ tally' = [tally EXCEPT ![class] = @ + 1]
             /\ pc' = "phaseDone" /\ UNCHANGED << result, exitCode >>
  /\ UNCHANGED << env, peer, period, phaseLeft, frames, exact >>

(* The closing handshake reached the end of the transport. *)
OperationDone ==
  /\ UNCHANGED << env, peer, late >>
  /\ CASE period = "preflight" /\ env.validationOnly ->
            /\ Exit(0) /\ result' = "validation passed"
            /\ Hangup /\ UNCHANGED << period, tally, phaseLeft, frames, exact >>
       [] period = "preflight" /\ ~env.validationOnly ->
            /\ result' = "validation passed"
            /\ IF env.profile /\ env.timeout = operationTimeout
               THEN StartPhase("warmup") /\ UNCHANGED exitCode
               ELSE Exit(2) /\ Hangup
                    /\ UNCHANGED << period, tally, phaseLeft, frames, exact >>
       [] period # "preflight" ->
            /\ tally' = IF reusable THEN tally
                        ELSE [tally EXCEPT !["completed"] = @ + 1, !["opened"] = @ + 1]
            /\ pc' = IF reusable THEN "phaseDone" ELSE "loop"
            /\ Hangup /\ UNCHANGED << period, result, exitCode, phaseLeft, frames, exact >>

Send(next, f) == pc' = next /\ toServer' = Append(toServer, f)
SendRequest ==
  Send("echo", writeClientFrame(expectation.request, expectation.data, expectation.deflate))
SendClose == Send("closing", writeClientFrame("close", "1000", FALSE))

Waits == {"dial", "upgrade", "echo", "closing", "eof"}

(* The dialer returns. A cleartext connection may still wait in the         *)
(* target's backlog; a TLS connection has finished its handshake with it.   *)
OpenWebSocket ==
  /\ pc = "dial" /\ opLeft > 0 /\ server \in {"backlog", "opening"}
  /\ env.kind = "tls" => server = "opening"
  /\ Send("upgrade", Request) /\ opLeft' = env.timeout
  /\ UNCHANGED << env, peer, period, tally, result, exitCode, toClient, server, tlsProof,
                  phaseLeft, serverLeft, history >>

(* The response is read and validated. performOperation goes on with its    *)
(* message or the closing handshake, a reusable phase with its loop.        *)
ReadResponse ==
  /\ pc = "upgrade" /\ opLeft > 0 /\ toClient # << >>
  /\ LET r == Head(toClient)
     IN IF r.type = "response" /\ Handshake(r)
        THEN /\ toClient' = Tail(toClient)
             /\ IF period # "preflight" /\ reusable
                THEN /\ pc' = "loop" /\ phaseLeft' = phaseLength[period]
                     /\ tally' = [tally EXCEPT !["opened"] = @ + 1] /\ UNCHANGED toServer
                ELSE /\ IF reusable THEN SendRequest ELSE SendClose
                     /\ UNCHANGED << tally, phaseLeft >>
             /\ UNCHANGED << env, peer, period, result, exitCode, server, tlsProof, opLeft,
                             serverLeft, history >>
        ELSE Fail(FALSE)

(* The loop of runPhase and runReusablePhase: the clock is read, then the   *)
(* next operation begins, with a new deadline, or the phase ends.           *)
Loop ==
  /\ pc = "loop"
  /\ LET more == phaseLeft > 0 /\ tally["completed"] < MaxRounds
     IN CASE more /\ reusable ->
               SendRequest /\ opLeft' = env.timeout
               /\ UNCHANGED << toClient, server, tlsProof, serverLeft >>
          [] more /\ ~reusable -> Dial
          [] ~more /\ reusable ->
               SendClose /\ UNCHANGED << toClient, server, tlsProof, serverLeft, opLeft >>
          [] ~more /\ ~reusable -> pc' = "phaseDone" /\ UNCHANGED connection
  /\ UNCHANGED << env, peer, period, tally, result, exitCode, phaseLeft, history >>

PerformOnOpenConnection ==
  /\ pc = "echo" /\ opLeft > 0 /\ toClient # << >>
  /\ LET f == Head(toClient)
     IN IF f.type = "frame" /\ Echo(f)
        THEN /\ toClient' = Tail(toClient)
             /\ IF period = "preflight" THEN SendClose /\ UNCHANGED tally
                ELSE /\ pc' = "loop" /\ tally' = [tally EXCEPT !["completed"] = @ + 1]
                     /\ UNCHANGED toServer
             /\ UNCHANGED << env, peer, period, result, exitCode, server, tlsProof, opLeft,
                             phaseLeft, serverLeft, history >>
        ELSE Fail(FALSE)

(* closeCleanly: the close frame is echoed, then the transport ends. *)
CloseCleanlyReadsOn ==
  /\ pc = "closing" /\ opLeft > 0 /\ toClient # << >>
  /\ IF Head(toClient).type = "frame" /\ closeEcho(Head(toClient))
     THEN OperationDone ELSE Fail(FALSE)

CloseCleanly ==
  /\ pc \in {"closing", "eof"} /\ opLeft > 0
  /\ \/ /\ pc = "closing" /\ toClient # << >>
        /\ LET f == Head(toClient)
           IN IF f.type = "frame" /\ closeEcho(f)
              THEN /\ pc' = "eof" /\ toClient' = Tail(toClient)
                   /\ UNCHANGED << env, peer, period, tally, result, exitCode, toServer,
                                   server, tlsProof, opLeft, phaseLeft, serverLeft, history >>
              ELSE Fail(FALSE)
     \/ pc = "eof" /\ toClient # << >> /\ Fail(FALSE)
     \/ pc = "eof" /\ toClient = << >> /\ server = "closed" /\ OperationDone
     \/ pc = "eof" /\ toClient = << >> /\ server = "reset" /\ Fail(FALSE)

(* The connection is refused or ends where an answer is due. *)
ConnectionLost ==
  /\ pc \in Waits \ {"eof"} /\ opLeft > 0 /\ toClient = << >>
  /\ server \in {"closed", "reset"}
  /\ Fail(FALSE)

DialDeadlineOnly == pc = "dial" /\ opLeft = 0 /\ Fail(TRUE)

DeadlineExceeded == pc \in Waits /\ opLeft = 0 /\ Fail(TRUE)

(* main after a phase: a failure or an empty phase fails closed; the last   *)
(* phase is normalized and written.                                         *)
PhaseDone ==
  /\ pc = "phaseDone"
  /\ IF tally["failed"] # 0 \/ tally["timedOut"] # 0 \/ tally["completed"] = 0
     THEN Exit(1) /\ UNCHANGED << period, tally, result, connection, phaseLeft, frames, exact >>
     ELSE IF period = "warmup" THEN StartPhase("measured") /\ UNCHANGED << result, exitCode >>
     ELSE Exit(0) /\ result' = "passed"
          /\ UNCHANGED << period, tally, connection, phaseLeft, frames, exact >>
  /\ UNCHANGED << env, peer, late >>

-----------------------------------------------------------------------------
executor == << env, peer, pc, period, tally, result, exitCode, opLeft, phaseLeft >>

(* The peer accepts; the packaged targets set their one deadline. A foreign *)
(* peer's TLS handshake may prove something else than what is expected.     *)
Accept ==
  /\ server = "backlog" /\ server' = "opening"
  /\ serverLeft' = IF peer = "packaged" THEN connectionDeadline ELSE 0
  /\ tlsProof' \in IF peer = "foreign" /\ env.kind = "tls" THEN BOOLEAN ELSE {TRUE}
  /\ UNCHANGED << executor, toServer, toClient, history >>

(* handleConnection answers what it reads, in order; a close frame and any  *)
(* refusal end it.                                                          *)
HandleConnection ==
  /\ peer = "packaged" /\ server \in {"opening", "frames"} /\ toServer # << >>
  /\ serverLeft > 0
  /\ LET m == Head(toServer)
         tls == env.kind = "tls"
         answer == IF server = "opening"
                   THEN IF tls THEN tlsUpgrade(m) ELSE cleartextUpgrade(m)
                   ELSE IF tls THEN tlsAnswer(m) ELSE cleartextAnswer(m)
         ends == \/ answer = Refused
                 \/ answer.type = "response" /\ ~answer.right
                 \/ m.type = "frame" /\ m.opcode = "close"
     IN /\ server' = IF ends THEN "closed" ELSE "frames"
        /\ toClient' = IF answer = Refused THEN toClient ELSE Append(toClient, answer)
        /\ frames' = IF answer.type = "frame" THEN frames + 1 ELSE frames
  /\ toServer' = Tail(toServer)
  /\ UNCHANGED << executor, tlsProof, serverLeft, exact, late >>

(* The one deadline of the connection passes: the read fails, Close. *)
TargetDeadline ==
  /\ peer = "packaged" /\ server \in {"opening", "frames"} /\ serverLeft = 0
  /\ server' = "closed"
  /\ UNCHANGED << executor, toServer, toClient, tlsProof, serverLeft, history >>

Defects(f) ==
  {[f EXCEPT !.opcode = "other"], [f EXCEPT !.data = "other"], [f EXCEPT !.rsv = "other"],
   [f EXCEPT !.fin = FALSE], [f EXCEPT !.masked = TRUE], [f EXCEPT !.long = TRUE]}

RightFrames == {Frame("close", "1000", FALSE)} \cup
  IF reusable THEN {Frame(expectation.response, expectation.data, expectation.deflate)} ELSE {}

(* A foreign peer sends what it likes, when it likes. *)
ForeignSends ==
  /\ peer = "foreign" /\ server \in {"opening", "frames"}
  /\ Len(toClient) < MaxQueued /\ frames <= MaxRounds + 2
  /\ \/ \E right, s, e \in BOOLEAN :
          /\ server = "opening" /\ toClient' = Append(toClient, Response(right, s, e))
          /\ server' = "frames" /\ UNCHANGED << frames, exact >>
     \/ \E f \in RightFrames \cup UNION {Defects(g) : g \in RightFrames} :
          /\ toClient' = Append(toClient, f)
          /\ frames' = frames + 1 /\ exact' = (exact /\ f \in RightFrames)
          /\ UNCHANGED server
  /\ UNCHANGED << executor, toServer, tlsProof, serverLeft, late >>

(* It ends the connection, with its data delivered or with a reset. *)
ForeignEnds ==
  /\ peer = "foreign" /\ server \in {"backlog", "opening", "frames"}
  /\ \/ server' = "closed" /\ UNCHANGED toClient
     \/ server' = "reset" /\ toClient' = << >>
  /\ UNCHANGED << executor, toServer, tlsProof, serverLeft, history >>

Less(n) == IF n > 0 THEN n - 1 ELSE 0

Tick ==
  /\ pc \in Waits /\ opLeft > 0
  /\ opLeft' = opLeft - 1 /\ phaseLeft' = Less(phaseLeft) /\ serverLeft' = Less(serverLeft)
  /\ UNCHANGED << env, peer, pc, period, tally, result, exitCode, toServer, toClient, server,
                  tlsProof, history >>

ExecutorStep ==
  \/ Gate \/ OpenWebSocket \/ ReadResponse \/ Loop \/ PerformOnOpenConnection
  \/ CloseCleanly \/ ConnectionLost \/ DeadlineExceeded \/ PhaseDone

PeerStep ==
  Accept \/ HandleConnection \/ TargetDeadline \/ ForeignSends \/ ForeignEnds

WsNext == ExecutorStep \/ PeerStep \/ Tick

(* The executor's process runs and time passes; nothing is assumed of peers.*)
WsSpec == WsInit /\ [][WsNext]_wsVars /\ WF_wsVars(ExecutorStep \/ Tick)

-----------------------------------------------------------------------------
accepted ==
  \/ period = "preflight" /\ exitCode = 0
  \/ pc = "phaseDone" /\ tally["failed"] = 0 /\ tally["timedOut"] = 0 /\ tally["completed"] > 0

(* A phase that is accepted saw exactly one right frame for every frame the *)
(* executor sent, over all its connections, and every connection ended with *)
(* its closing handshake and the end of the transport: a duplicated, an     *)
(* unsolicited or a defective frame never goes unnoticed, because the reads *)
(* of the closing handshake meet it (performOnOpenConnection, closeCleanly).*)
AcceptedIsOneToOne ==
  accepted =>
    /\ exact /\ toClient = << >>
    /\ frames = (IF period = "preflight" THEN 1 ELSE tally["completed"])
                + (IF reusable THEN 1 ELSE 0)
    /\ period # "preflight" => tally["opened"] = IF reusable THEN 1 ELSE tally["completed"]

(* Against the packaged target every scenario of both executors passes,     *)
(* unless one of the executor's own deadlines passed. In particular the one *)
(* deadline the target sets per connection (30 s) is never what ends a      *)
(* connection, also not one that a whole phase reuses; only a preflight     *)
(* with a longer operation timeout, which the load refuses, can meet it.    *)
PackagedPairPasses ==
  peer = "packaged" /\ exitCode = 1 /\ env.timeout = operationTimeout => late

(* Whatever the peer does or leaves undone, the executor ends. *)
WebSocketExecutorEnds == <>(pc = "exit")
=============================================================================
