--------------------------- MODULE WebSocketProofs --------------------------
(***************************************************************************)
(* Proofs about the WebSocket executors that run one connection at a time: *)
(* over HTTP/1.1, with and without TLS (Http1WebSocket), and the single    *)
(* operations of the HTTP/2 executor (H2WebSocketOperation). The two share *)
(* no state and no lemma.                                                  *)
(***************************************************************************)
EXTENDS Http1WebSocket, H2WebSocketOperation, TLAPS

-----------------------------------------------------------------------------
(***************************************************************************)
(* Proofs for Http1WebSocket, for every number of rounds, both kinds of    *)
(* executor, every scenario, and whatever a server under test sends.       *)
(*                                                                         *)
(* That acceptance is one to one rests on two counts: Taken is the number  *)
(* of frames that the executor has read for the operations it has counted, *)
(* and Accounted says that a frame which is wrong or in excess is still    *)
(* under way, where the reads of the closing handshake must meet it. That  *)
(* the packaged pair passes needs both sides of the connection (Exchange)  *)
(* and their clocks (InTime).                                              *)
(***************************************************************************)

(* The frames and the response that both sides expect in this scenario. *)
RightResponse == Response(TRUE, expectation.subprotocol, expectation.deflate)
RightEcho == Frame(expectation.response, expectation.data, expectation.deflate)
RightClose == Frame("close", "1000", FALSE)
RequestFrame == writeClientFrame(expectation.request, expectation.data, expectation.deflate)
CloseFrame == writeClientFrame("close", "1000", FALSE)

(* What a server may send: responses of any kind, right frames, and right   *)
(* frames with one defect.                                                  *)
Responses == {Response(ok, s, e) : ok, s, e \in BOOLEAN}
SentFrames == RightFrames \cup UNION {Defects(g) : g \in RightFrames}
Sent == SentFrames \cup Responses

(* The phases that main runs after its preflight. *)
Phases == {"warmup", "measured"}

(* The variables keep their types. *)
WsTypes ==
  /\ env.kind \in {"cleartext", "tls"} /\ env.scenario \in DOMAIN Tables[env.kind]
  /\ env.timeout \in Nat
  /\ peer \in {"packaged", "foreign"}
  /\ pc \in {"gate", "exit", "loop", "phaseDone"} \cup Waits
  /\ period \in {"preflight"} \cup Phases
  /\ tally \in [Counts -> Nat] /\ toClient \in Seq(Sent)
  /\ server \in {"none", "backlog", "opening", "frames", "closed", "reset"}
  /\ opLeft \in Nat /\ phaseLeft \in Nat /\ serverLeft \in Nat /\ frames \in Nat
  /\ exact \in BOOLEAN

(* Where the executor stands in its run. *)
Place ==
  /\ pc # "exit" => exitCode = NoExit
  /\ pc = "gate" => period = "preflight" /\ frames = 0 /\ exact
  /\ pc = "loop" => period \in Phases
  /\ pc = "phaseDone" => period \in Phases
  /\ pc = "echo" => reusable
  /\ period \in Phases => phaseLeft <= 2
  /\ pc \in {"gate", "phaseDone", "exit"} \/ (pc = "loop" /\ ~reusable) =>
       server = "none" /\ toClient = << >>

(* A phase counts nothing but what it completed, until an error ends it. *)
Tallied ==
  /\ pc \notin {"phaseDone", "exit"} => tally["failed"] = 0 /\ tally["timedOut"] = 0
  /\ pc = "loop" /\ tally["completed"] = 0 => phaseLeft > 0
  /\ period \in Phases /\ reusable =>
       /\ pc \in {"dial", "upgrade"} => tally["completed"] = 0 /\ tally["opened"] = 0
       /\ pc \in {"loop", "echo", "closing", "eof"} => tally["opened"] = 1
       /\ pc \in {"closing", "eof"} => tally["completed"] > 0
  /\ period \in Phases /\ ~reusable => tally["opened"] = tally["completed"]
  /\ pc = "phaseDone" /\ tally["failed"] = 0 /\ tally["timedOut"] = 0 => tally["completed"] > 0

(* The frames that the executor has read and found right. *)
Taken == (IF period = "preflight" THEN IF reusable /\ pc \in {"closing", "eof"} THEN 1 ELSE 0
          ELSE tally["completed"])
         + (IF pc = "eof" THEN 1 ELSE 0)

(* A connection is open, or about to be. *)
InCall == pc \in {"loop"} \cup Waits

(* A defective frame waits to be read; only frames wait; the response waits *)
(* among them.                                                              *)
WrongWaits == \E i \in 1..Len(toClient) : toClient[i] \in SentFrames \ RightFrames

(* Only frames are on their way, or one response among them. *)
FramesWait == \A i \in 1..Len(toClient) : toClient[i] \in SentFrames
ResponseWaits ==
  \E k \in 1..Len(toClient) :
    \A i \in 1..Len(toClient) : IF i = k THEN toClient[i] \in Responses
                                ELSE toClient[i] \in SentFrames

(* Every frame of the period was taken or waits to be read, a wrong one     *)
(* waits; the response is the only other thing that can wait.               *)
Accounted ==
  InCall /\ server # "reset" =>
    /\ exact \/ WrongWaits
    /\ \/ FramesWait /\ frames = Taken + Len(toClient)
       \/ /\ pc \in {"dial", "upgrade"} /\ server \notin {"backlog", "opening", "none"}
          /\ ResponseWaits /\ frames + 1 = Taken + Len(toClient)
    /\ pc \notin {"dial", "upgrade"} => server \notin {"backlog", "opening"}
    /\ server = "backlog" => toClient = << >>

-----------------------------------------------------------------------------
(* What is under way between the executor and the packaged target. *)
Exchange ==
  \/ /\ pc = "dial" /\ toServer = << >> /\ toClient = << >>
     /\ server \in {"backlog", "opening", "closed"}
  \/ /\ pc = "upgrade" /\ toServer = << Request >> /\ toClient = << >>
     /\ server \in {"backlog", "opening", "closed"}
  \/ /\ pc = "upgrade" /\ toServer = << >> /\ toClient = << RightResponse >>
     /\ server \in {"frames", "closed"}
  \/ /\ pc = "loop" /\ toServer = << >> /\ toClient = << >>
     /\ server \in IF reusable THEN {"frames", "closed"} ELSE {"none"}
  \/ /\ pc = "echo" /\ toServer = << RequestFrame >> /\ toClient = << >>
     /\ server \in {"frames", "closed"}
  \/ /\ pc = "echo" /\ toServer = << >> /\ toClient = << RightEcho >>
     /\ server \in {"frames", "closed"}
  \/ /\ pc = "closing" /\ toServer = << CloseFrame >> /\ toClient = << >>
     /\ server \in {"frames", "closed"}
  \/ /\ pc = "closing" /\ toServer = << >> /\ toClient = << RightClose >> /\ server = "closed"
  \/ /\ pc = "eof" /\ toServer = << >> /\ toClient = << >> /\ server = "closed"

(* Ticks the executor may still need of a connection, of the target's one   *)
(* deadline.                                                                *)
Needs ==
  /\ pc = "dial" => serverLeft >= opLeft + 6
  /\ pc = "upgrade" => serverLeft >= opLeft + 4
  /\ pc \in {"loop", "echo"} /\ period \in Phases /\ phaseLeft > 0 =>
       serverLeft >= phaseLeft + 2
  /\ serverLeft >= opLeft

(* The server has closed a connection that the executor still uses. *)
ClosedEarly == server = "closed" /\ pc # "eof" /\ ~(pc = "closing" /\ toServer = << >>)

(* With the operation timeout of a load the target's deadline never comes   *)
(* before the executor's.                                                   *)
InTime ==
  /\ server \in {"opening", "frames"} => Needs
  /\ ClosedEarly => pc \in Waits /\ opLeft = 0
  /\ opLeft <= 2
  /\ pc = "loop" /\ reusable => opLeft > 0

(* The packaged target's side of a connection is where the executor         *)
(* expects it.                                                              *)
PackagedWs ==
  peer = "packaged" /\ InCall => tlsProof /\ Exchange

(* With the operation timeout of the load the target's connection deadline  *)
(* is always further away than the executor's own, so that a phase counts   *)
(* a failure only when an operation was late.                               *)
PackagedTime ==
  peer = "packaged" /\ env.timeout = operationTimeout =>
    /\ InCall => InTime
    /\ ~late /\ pc = "phaseDone" => tally["failed"] = 0 /\ tally["timedOut"] = 0

(* The inductive invariant. *)
WsInv ==
  /\ WsTypes /\ Place /\ Tallied /\ Accounted /\ PackagedWs /\ PackagedTime
  /\ AcceptedIsOneToOne /\ PackagedPairPasses

-----------------------------------------------------------------------------
(* The times of the model, in its ticks. *)
LEMMA WsTimes ==
  /\ operationTimeout = 2 /\ connectionDeadline = 12
  /\ phaseLength["warmup"] = 1 /\ phaseLength["measured"] = 2
BY SMT DEF operationTimeout, connectionDeadline, phaseLength, Ticks

(* An executor that runs has no exit code yet. *)
LEMMA WsNumbers ==
  /\ NoExit # 0 /\ NoExit # 1 /\ MaxRounds \in Nat /\ MaxRounds > 0
BY WebSocketAssumption, SMT DEF NoExit

(* What expectationForScenario says of the supported scenarios. *)
LEMMA Expectations ==
  ASSUME WsTypes
  PROVE  /\ expectation.subprotocol \in BOOLEAN /\ expectation.deflate \in BOOLEAN
         /\ env.kind = "cleartext" => ~expectation.subprotocol /\ ~expectation.deflate
         /\ ~(expectation.subprotocol /\ expectation.deflate)
         /\ reusable =>
              \/ /\ expectation.request = "text" /\ expectation.response = "text"
                 /\ expectation.data = "text" /\ ~expectation.deflate
              \/ /\ expectation.request = "binary" /\ expectation.response = "binary"
                 /\ expectation.data = "binary" /\ ~expectation.subprotocol
              \/ /\ expectation.request = "ping" /\ expectation.response = "pong"
                 /\ expectation.data = "control" /\ ~expectation.deflate
                 /\ ~expectation.subprotocol
<1> DEFINE Fits(e) ==
      /\ e.subprotocol \in BOOLEAN /\ e.deflate \in BOOLEAN
      /\ ~(e.subprotocol /\ e.deflate)
      /\ e.operation \in {"text-echo", "binary-echo", "control-frames"} =>
              \/ /\ e.request = "text" /\ e.response = "text"
                 /\ e.data = "text" /\ ~e.deflate
              \/ /\ e.request = "binary" /\ e.response = "binary"
                 /\ e.data = "binary" /\ ~e.subprotocol
              \/ /\ e.request = "ping" /\ e.response = "pong"
                 /\ e.data = "control" /\ ~e.deflate /\ ~e.subprotocol
           Plain(e) == Fits(e) /\ ~e.subprotocol /\ ~e.deflate
           Upgraded == Expect("establish", "none", "none", "none")
           Texted == Expect("text-echo", "text", "text", "text")
           Binaried == Expect("binary-echo", "binary", "binary", "binary")
           Controlled == Expect("control-frames", "ping", "pong", "control")
           Closed == Expect("close", "none", "none", "none")
<1>1. Plain(Upgraded) /\ Plain(Closed)  BY Zenon DEF Expect
<1>2. Plain(Texted)  BY Zenon DEF Expect
<1>3. Plain(Binaried)  BY Zenon DEF Expect
<1>4. Plain(Controlled)  BY Zenon DEF Expect
<1>5. Fits([Texted EXCEPT !.subprotocol = TRUE])  BY SMT DEF Expect
<1>6. Fits([Binaried EXCEPT !.deflate = TRUE])  BY SMT DEF Expect
<1> HIDE DEF Fits, Upgraded, Texted, Binaried, Controlled, Closed
<1>7. CASE env.kind = "cleartext"
  <2>1. env.scenario \in DOMAIN cleartextExpectations
        /\ expectation = cleartextExpectations[env.scenario]
    <3>1. Tables["cleartext"] = cleartextExpectations  BY SMT DEF Tables
    <3> QED BY <1>7, <3>1, Zenon DEF WsTypes, expectation
  <2>2. expectation \in {Upgraded, Texted, Binaried, Controlled, Closed}
    <3> USE DEF Upgraded, Texted, Binaried, Controlled, Closed
    <3>1. env.scenario \in {"upgrade", "text", "binary", "control", "close"}
      BY <2>1, SMT DEF cleartextExpectations
    <3>2. /\ cleartextExpectations["upgrade"] = Upgraded
          /\ cleartextExpectations["text"] = Texted
          /\ cleartextExpectations["binary"] = Binaried
          /\ cleartextExpectations["control"] = Controlled
          /\ cleartextExpectations["close"] = Closed
      BY SMT DEF cleartextExpectations
    <3> QED BY <2>1, <3>1, <3>2, Zenon
  <2>3. Plain(expectation)  BY <2>2, <1>1, <1>2, <1>3, <1>4, Zenon
  <2> QED BY <2>3, Zenon DEF Fits, reusable
<1>8. CASE env.kind = "tls"
  <2>1. env.scenario \in DOMAIN tlsExpectations /\ expectation = tlsExpectations[env.scenario]
    <3>1. Tables["tls"] = tlsExpectations  BY SMT DEF Tables
    <3> QED BY <1>8, <3>1, Zenon DEF WsTypes, expectation
  <2>2. expectation \in {Upgraded, Texted, Binaried, Controlled, Closed,
                         [Texted EXCEPT !.subprotocol = TRUE],
                         [Binaried EXCEPT !.deflate = TRUE]}
    <3> USE DEF Upgraded, Texted, Binaried, Controlled, Closed
    <3>1. env.scenario \in {"upgrade", "text", "binary", "control", "close", "subprotocol",
                            "deflate"}
      BY <2>1, SMT DEF tlsExpectations
    <3>2. /\ tlsExpectations["upgrade"] = Upgraded
          /\ tlsExpectations["text"] = Texted
          /\ tlsExpectations["binary"] = Binaried
          /\ tlsExpectations["control"] = Controlled
          /\ tlsExpectations["close"] = Closed
          /\ tlsExpectations["subprotocol"] = [Texted EXCEPT !.subprotocol = TRUE]
          /\ tlsExpectations["deflate"] = [Binaried EXCEPT !.deflate = TRUE]
      BY SMT DEF tlsExpectations
    <3> QED BY <2>1, <3>1, <3>2, Zenon
  <2>3. Fits(expectation)  BY <2>2, <1>1, <1>2, <1>3, <1>4, <1>5, <1>6, Zenon
  <2>4. env.kind # "cleartext"  BY <1>8, Zenon
  <2> QED BY <2>3, <2>4, Zenon DEF Fits, reusable
<1> QED BY <1>7, <1>8, Zenon DEF WsTypes

(* A defect shows in one of the fields that the executor checks. *)
LEMMA DefectFacts ==
  ASSUME NEW o, NEW d, NEW z, NEW f \in Defects(Frame(o, d, z))
  PROVE  /\ f.type = "frame"
         /\ \/ f.opcode = "other" \/ f.data = "other" \/ f.rsv = "other"
            \/ f.fin = FALSE \/ f.masked = TRUE \/ f.long = TRUE
<1> DEFINE g == Frame(o, d, z)
           Noticed(e) == /\ e.type = "frame"
                         /\ \/ e.opcode = "other" \/ e.data = "other" \/ e.rsv = "other"
                            \/ e.fin = FALSE \/ e.masked = TRUE \/ e.long = TRUE
<1>1. Noticed([g EXCEPT !.opcode = "other"]) /\ Noticed([g EXCEPT !.data = "other"])
  BY SMT DEF Frame
<1>2. Noticed([g EXCEPT !.rsv = "other"]) /\ Noticed([g EXCEPT !.fin = FALSE])
  BY SMT DEF Frame
<1>3. Noticed([g EXCEPT !.masked = TRUE]) /\ Noticed([g EXCEPT !.long = TRUE])
  BY SMT DEF Frame
<1> HIDE DEF Noticed
<1>4. Noticed(f)  BY <1>1, <1>2, <1>3, Zenon DEF Defects
<1> QED BY <1>4, Zenon DEF Noticed

(* The right frames are frames. *)
LEMMA RightIsFrame ==
  ASSUME NEW g \in RightFrames
  PROVE  \E o, d, z : g = Frame(o, d, z)
BY Zenon DEF RightFrames

(* The type field tells responses from frames. *)
LEMMA SentKinds ==
  /\ \A f \in SentFrames : f.type = "frame"
  /\ \A r \in Responses : r.type = "response"
  /\ RightFrames \subseteq SentFrames
<1>1. ASSUME NEW f \in SentFrames PROVE f.type = "frame"
  <2>1. CASE f \in RightFrames
    <3>1. PICK o, d, z : f = Frame(o, d, z)  BY <2>1, RightIsFrame, Zenon
    <3> QED BY <3>1, Zenon DEF Frame
  <2>2. CASE f \in UNION {Defects(g) : g \in RightFrames}
    <3>1. PICK g \in RightFrames : f \in Defects(g)  BY <2>2, Zenon
    <3>2. PICK o, d, z : g = Frame(o, d, z)  BY RightIsFrame, Zenon
    <3> QED BY <3>1, <3>2, DefectFacts, Zenon
  <2> QED BY <2>1, <2>2, Zenon DEF SentFrames
<1>2. ASSUME NEW r \in Responses PROVE r.type = "response"
  <2>1. PICK ok, s, e \in BOOLEAN : r = Response(ok, s, e)  BY SMT DEF Responses
  <2> QED BY <2>1, Zenon DEF Response
<1>3. RightFrames \subseteq SentFrames  BY Zenon DEF SentFrames
<1> QED BY <1>1, <1>2, <1>3, Zenon

(* A frame with a defect is never taken for an answer. *)
LEMMA WrongIsNoticed ==
  ASSUME WsTypes, NEW f \in SentFrames, (reusable /\ Echo(f)) \/ closeEcho(f)
  PROVE  f \in RightFrames
<1>1. SUFFICES ASSUME f \notin RightFrames PROVE FALSE  OBVIOUS
<1>2. PICK g \in RightFrames : f \in Defects(g)  BY <1>1, Zenon DEF SentFrames
<1>3. PICK o, d, z : g = Frame(o, d, z)  BY RightIsFrame, Zenon
<1>4. \/ f.opcode = "other" \/ f.data = "other" \/ f.rsv = "other"
      \/ f.fin = FALSE \/ f.masked = TRUE \/ f.long = TRUE
  BY <1>2, <1>3, DefectFacts, Zenon
<1>5. CASE closeEcho(f)  BY <1>4, <1>5, Zenon DEF closeEcho, readFrame
<1>6. CASE reusable /\ Echo(f)
  <2>1. expectation.response # "other" /\ expectation.data # "other"
    BY <1>6, Expectations, Zenon
  <2>2. CASE env.kind = "tls"  BY <1>4, <1>6, <2>1, <2>2, Zenon DEF Echo, tlsEcho, readFrame
  <2>3. CASE env.kind # "tls"
    BY <1>4, <1>6, <2>1, <2>3, Zenon DEF Echo, cleartextEcho, readFrame
  <2> QED BY <2>2, <2>3, Zenon
<1> QED BY <1>5, <1>6, Zenon

(* What the packaged target answers to a request and to a frame, in the     *)
(* two kinds of executor.                                                   *)
UpgradeAnswer(m) == IF env.kind = "tls" THEN tlsUpgrade(m) ELSE cleartextUpgrade(m)
FrameAnswer(m) == IF env.kind = "tls" THEN tlsAnswer(m) ELSE cleartextAnswer(m)

(* What the packaged target answers is what the executor expects. *)
LEMMA RightAnswers ==
  ASSUME WsTypes
  PROVE  /\ UpgradeAnswer(Request) = RightResponse
         /\ FrameAnswer(CloseFrame) = RightClose
         /\ reusable => FrameAnswer(RequestFrame) = RightEcho
<1>e. /\ expectation.subprotocol \in BOOLEAN /\ expectation.deflate \in BOOLEAN
      /\ env.kind = "cleartext" => ~expectation.subprotocol /\ ~expectation.deflate
      /\ ~(expectation.subprotocol /\ expectation.deflate)
      /\ env.kind # "tls" => env.kind = "cleartext"
  BY Expectations, Zenon DEF WsTypes
<1>1. UpgradeAnswer(Request) = RightResponse
  <2>1. Request.subprotocol = expectation.subprotocol /\ Request.extension = expectation.deflate
    BY Zenon DEF Request
  <2>2. CASE env.kind = "tls"
    BY <1>e, <2>1, <2>2, Zenon DEF UpgradeAnswer, tlsUpgrade, RightResponse
  <2>3. CASE env.kind # "tls"
    <3>1. ~Request.subprotocol /\ ~Request.extension /\ expectation.subprotocol = FALSE
          /\ expectation.deflate = FALSE
      BY <1>e, <2>1, <2>3, Zenon
    <3> QED BY <2>3, <3>1, Zenon DEF UpgradeAnswer, cleartextUpgrade, RightResponse
  <2> QED BY <2>2, <2>3, Zenon
<1>a. /\ Answers["text"] = "text" /\ Answers["binary"] = "binary" /\ Answers["ping"] = "pong"
      /\ Answers["close"] = "close" /\ DOMAIN Answers = {"text", "binary", "ping", "close"}
      /\ Accepts["text"] = "text" /\ Accepts["binary"] = "binary"
      /\ Accepts["ping"] = "control" /\ Accepts["close"] = "1000"
  BY SMT DEF Answers, Accepts
<1>2. FrameAnswer(CloseFrame) = RightClose
  <2>1. /\ CloseFrame.opcode = "close" /\ CloseFrame.data = "1000" /\ CloseFrame.deflated = FALSE
        /\ CloseFrame.rsv = "none" /\ CloseFrame.fin = TRUE /\ CloseFrame.masked = TRUE
        /\ CloseFrame.long = FALSE
    BY SMT DEF CloseFrame, writeClientFrame, Frame
  <2>2. readFrame(CloseFrame, TRUE)  BY <2>1, Zenon DEF readFrame
  <2>3. CASE env.kind = "tls"
    BY <1>a, <2>1, <2>2, <2>3, Zenon DEF FrameAnswer, tlsAnswer, RightClose
  <2>4. CASE env.kind # "tls"
    BY <1>a, <2>1, <2>2, <2>4, Zenon DEF FrameAnswer, cleartextAnswer, RightClose
  <2> QED BY <2>3, <2>4, Zenon
<1>3. ASSUME reusable PROVE FrameAnswer(RequestFrame) = RightEcho
  <2>1. /\ RequestFrame.opcode = expectation.request /\ RequestFrame.data = expectation.data
        /\ RequestFrame.deflated = expectation.deflate
        /\ RequestFrame.rsv = (IF expectation.deflate THEN "rsv1" ELSE "none")
        /\ RequestFrame.fin = TRUE /\ RequestFrame.masked = TRUE /\ RequestFrame.long = FALSE
    BY SMT DEF RequestFrame, writeClientFrame, Frame
  <2>2. readFrame(RequestFrame, TRUE)  BY <2>1, Zenon DEF readFrame
  <2>3. \/ /\ expectation.request = "text" /\ expectation.response = "text"
           /\ expectation.data = "text" /\ ~expectation.deflate
        \/ /\ expectation.request = "binary" /\ expectation.response = "binary"
           /\ expectation.data = "binary" /\ ~expectation.subprotocol
        \/ /\ expectation.request = "ping" /\ expectation.response = "pong"
           /\ expectation.data = "control" /\ ~expectation.deflate
           /\ ~expectation.subprotocol
    BY <1>3, Expectations, Zenon
  <2>4. /\ Answers[expectation.request] = expectation.response
        /\ Accepts[expectation.request] = expectation.data
        /\ expectation.request \in DOMAIN Answers
    BY <2>3, <1>a, Zenon
  <2>5. CASE env.kind = "tls"
    <3>1. tlsAnswer(RequestFrame) = RightEcho
      <4>1. CASE expectation.deflate
        <5>1. expectation.request = "binary" /\ expectation.deflate = TRUE
          BY <4>1, <2>3, <1>e, Zenon
        <5>2. (RequestFrame.opcode = "binary" /\ expectation.deflate) = TRUE
          BY <5>1, <2>1, Zenon
        <5> QED BY <2>1, <2>2, <2>3, <2>4, <5>1, <5>2, Zenon DEF tlsAnswer, RightEcho
      <4>2. CASE ~expectation.deflate
        <5>1. expectation.deflate = FALSE  BY <4>2, <1>e, Zenon
        <5>2. (RequestFrame.opcode = "binary" /\ expectation.deflate) = FALSE
          BY <5>1, Zenon
        <5> QED BY <2>1, <2>2, <2>3, <2>4, <5>1, <5>2, Zenon DEF tlsAnswer, RightEcho
      <4> QED BY <4>1, <4>2, Zenon
    <3> QED BY <3>1, <2>5, Zenon DEF FrameAnswer
  <2>6. CASE env.kind # "tls"
    <3>1. expectation.deflate = FALSE  BY <1>e, <2>6, Zenon
    <3> QED BY <2>1, <2>2, <2>4, <2>6, <3>1, Zenon DEF FrameAnswer, cleartextAnswer, RightEcho
  <2> QED BY <2>5, <2>6, Zenon
<1> QED BY <1>1, <1>2, <1>3, Zenon

(* What is expected depends on the environment alone. *)
LEMMA SameLoad ==
  ASSUME env' = env
  PROVE  /\ expectation' = expectation /\ reusable' = reusable
         /\ RightFrames' = RightFrames /\ SentFrames' = SentFrames /\ Sent' = Sent
         /\ RightResponse' = RightResponse /\ RightEcho' = RightEcho
         /\ Request' = Request /\ RequestFrame' = RequestFrame
<1>1. expectation' = expectation  BY Zenon DEF expectation
<1>2. reusable' = reusable  BY <1>1, Zenon DEF reusable
<1>3. RightFrames' = RightFrames  BY <1>1, <1>2, Zenon DEF RightFrames
<1>4. SentFrames' = SentFrames  BY <1>3, Zenon DEF SentFrames
<1>5. Sent' = Sent  BY <1>4, Zenon DEF Sent
<1>6. RightResponse' = RightResponse /\ RightEcho' = RightEcho
  BY <1>1, Zenon DEF RightResponse, RightEcho
<1>7. Request' = Request /\ RequestFrame' = RequestFrame
  BY <1>1, Zenon DEF Request, RequestFrame
<1> QED BY <1>1, <1>2, <1>3, <1>4, <1>5, <1>6, <1>7, Zenon

(* One count of a phase summary goes up by one. *)
LEMMA TallyBump ==
  ASSUME tally \in [Counts -> Nat], NEW c \in Counts, tally' = [tally EXCEPT ![c] = @ + 1]
  PROVE  /\ tally' \in [Counts -> Nat] /\ tally'[c] = tally[c] + 1 /\ tally'[c] > 0
         /\ \A d \in Counts : d # c => tally'[d] = tally[d]
BY SMT

(* The summary a phase begins with. *)
LEMMA NoTally ==
  /\ noTally \in [Counts -> Nat] /\ \A c \in Counts : noTally[c] = 0
BY SMT DEF noTally

(* The names of the counts. *)
LEMMA CountNames ==
  {"completed", "failed", "timedOut", "opened"} \subseteq Counts
BY Zenon DEF Counts

(* With nothing under way there is neither a response nor a wrong frame. *)
LEMMA NothingWaits ==
  ASSUME toClient = << >>
  PROVE  Len(toClient) = 0 /\ ~WrongWaits /\ FramesWait /\ ~ResponseWaits
<1>1. Len(toClient) = 0 /\ 1..Len(toClient) = {}  BY SMT
<1> QED BY <1>1, Zenon DEF WrongWaits, FramesWait, ResponseWaits

(* The executor takes the first message under way. *)
LEMMA Popped ==
  ASSUME WsTypes, env' = env, toClient # << >>, toClient' = Tail(toClient)
  PROVE  /\ toClient' \in Seq(Sent') /\ Len(toClient) = Len(toClient') + 1
         /\ Len(toClient') \in Nat /\ 1 \in 1..Len(toClient)
         /\ Head(toClient) = toClient[1]
         /\ \A i \in 1..Len(toClient') : i + 1 \in 1..Len(toClient) /\ i + 1 # 1
                                         /\ toClient'[i] = toClient[i + 1]
         /\ \A i \in 1..Len(toClient) : i # 1 =>
              \E j \in 1..Len(toClient') : toClient'[j] = toClient[i]
<1>1. toClient \in Seq(Sent)  BY Zenon DEF WsTypes
<1>2. Sent' = Sent  BY SameLoad, Zenon
<1> HIDE DEF Sent
<1>3. /\ toClient' \in Seq(Sent) /\ Len(toClient) = Len(toClient') + 1
      /\ Len(toClient') \in Nat /\ 1 \in 1..Len(toClient)
      /\ Head(toClient) = toClient[1]
      /\ \A i \in 1..Len(toClient') : i + 1 \in 1..Len(toClient) /\ i + 1 # 1
                                         /\ toClient'[i] = toClient[i + 1]
  BY <1>1, SMT
<1>4. ASSUME NEW i \in 1..Len(toClient), i # 1
      PROVE  \E j \in 1..Len(toClient') : toClient'[j] = toClient[i]
  <2>1. i - 1 \in 1..Len(toClient') /\ (i - 1) + 1 = i  BY <1>3, <1>4, SMT
  <2>2. toClient'[i - 1] = toClient[i]  BY <1>3, <2>1, Zenon
  <2> QED BY <2>1, <2>2, Zenon
<1> QED BY <1>2, <1>3, <1>4, Zenon

(* It takes the response: what remains are frames. *)
LEMMA TookResponse ==
  ASSUME WsTypes, env' = env, toClient # << >>, toClient' = Tail(toClient),
         Head(toClient).type = "response", FramesWait \/ ResponseWaits
  PROVE  /\ ~FramesWait /\ FramesWait' /\ toClient' \in Seq(Sent')
         /\ Len(toClient) = Len(toClient') + 1 /\ Len(toClient') \in Nat
         /\ WrongWaits => WrongWaits'
<1>1. toClient[1].type = "response" /\ 1 \in 1..Len(toClient)  BY Popped, Zenon
<1>2. toClient[1] \notin SentFrames
  <2>1. "response" # "frame"  OBVIOUS
  <2> QED BY <2>1, <1>1, SentKinds, Zenon
<1>3. ~FramesWait  BY <1>1, <1>2, Zenon DEF FramesWait
<1>4. \A i \in 1..Len(toClient) : i # 1 => toClient[i] \in SentFrames
  BY <1>1, <1>2, <1>3, Zenon DEF ResponseWaits
<1>5. FramesWait'
  <2>1. \A i \in 1..Len(toClient') : toClient'[i] \in SentFrames  BY <1>4, Popped, Zenon
  <2> QED BY <2>1, SameLoad, Zenon DEF FramesWait
<1>6. ASSUME WrongWaits PROVE WrongWaits'
  <2>1. PICK i \in 1..Len(toClient) : toClient[i] \in SentFrames \ RightFrames
    BY <1>6, Zenon DEF WrongWaits
  <2>2. i # 1  BY <2>1, <1>2, Zenon
  <2>3. PICK j \in 1..Len(toClient') : toClient'[j] = toClient[i]  BY <2>2, Popped, Zenon
  <2>4. toClient'[j] \in SentFrames \ RightFrames  BY <2>1, <2>3, Zenon
  <2> QED BY <2>4, SameLoad, Zenon DEF WrongWaits
<1> QED BY <1>3, <1>5, <1>6, Popped, Zenon

(* It takes a right frame: what remains are frames, wrong ones included. *)
LEMMA TookFrame ==
  ASSUME WsTypes, env' = env, toClient # << >>, toClient' = Tail(toClient), FramesWait,
         Head(toClient) \in RightFrames
  PROVE  /\ FramesWait' /\ toClient' \in Seq(Sent')
         /\ Len(toClient) = Len(toClient') + 1 /\ Len(toClient') \in Nat
         /\ WrongWaits => WrongWaits'
<1>1. FramesWait'
  <2>1. \A i \in 1..Len(toClient') : toClient'[i] \in SentFrames
    BY Popped, Zenon DEF FramesWait
  <2> QED BY <2>1, SameLoad, Zenon DEF FramesWait
<1>2. ASSUME WrongWaits PROVE WrongWaits'
  <2>1. PICK i \in 1..Len(toClient) : toClient[i] \in SentFrames \ RightFrames
    BY <1>2, Zenon DEF WrongWaits
  <2>2. i # 1  BY <2>1, Popped, Zenon
  <2>3. PICK j \in 1..Len(toClient') : toClient'[j] = toClient[i]  BY <2>2, Popped, Zenon
  <2>4. toClient'[j] \in SentFrames \ RightFrames  BY <2>1, <2>3, Zenon
  <2> QED BY <2>4, SameLoad, Zenon DEF WrongWaits
<1> QED BY <1>1, <1>2, Popped, Zenon

(* The server sends one more message. *)
LEMMA Appended ==
  ASSUME WsTypes, env' = env, NEW x \in Sent, toClient' = Append(toClient, x)
  PROVE  /\ toClient' \in Seq(Sent') /\ Len(toClient') = Len(toClient) + 1
         /\ Len(toClient) \in Nat
         /\ Len(toClient') \in 1..Len(toClient') /\ toClient'[Len(toClient')] = x
         /\ \A i \in 1..Len(toClient) : i \in 1..Len(toClient') /\ i # Len(toClient')
                                        /\ toClient'[i] = toClient[i]
         /\ \A i \in 1..Len(toClient') : i # Len(toClient') => i \in 1..Len(toClient)
<1>1. toClient \in Seq(Sent)  BY Zenon DEF WsTypes
<1>2. Sent' = Sent  BY SameLoad, Zenon
<1> HIDE DEF Sent
<1>3. /\ toClient' \in Seq(Sent) /\ Len(toClient') = Len(toClient) + 1
      /\ Len(toClient) \in Nat
      /\ Len(toClient') \in 1..Len(toClient') /\ toClient'[Len(toClient')] = x
  BY <1>1, SMT
<1>4. /\ \A i \in 1..Len(toClient) : i \in 1..Len(toClient') /\ i # Len(toClient')
                                     /\ toClient'[i] = toClient[i]
      /\ \A i \in 1..Len(toClient') : i # Len(toClient') => i \in 1..Len(toClient)
  BY <1>1, SMT
<1> QED BY <1>2, <1>3, <1>4, Zenon

(* A wrong frame under way stays under way while the server sends. *)
LEMMA WrongStays ==
  ASSUME WsTypes, env' = env, NEW x \in Sent, toClient' = Append(toClient, x), WrongWaits
  PROVE  WrongWaits'
<1>1. PICK i \in 1..Len(toClient) : toClient[i] \in SentFrames \ RightFrames
  BY Zenon DEF WrongWaits
<1>2. i \in 1..Len(toClient') /\ toClient'[i] \in SentFrames \ RightFrames
  BY <1>1, Appended, Zenon
<1> QED BY <1>2, SameLoad, Zenon DEF WrongWaits

(* The server sends a frame. *)
LEMMA AddedFrame ==
  ASSUME WsTypes, env' = env, NEW x \in SentFrames, toClient' = Append(toClient, x)
  PROVE  /\ FramesWait => FramesWait'
         /\ ResponseWaits => ResponseWaits'
         /\ WrongWaits \/ x \notin RightFrames => WrongWaits'
         /\ toClient' \in Seq(Sent') /\ Len(toClient') = Len(toClient) + 1
         /\ Len(toClient) \in Nat
<1>0. x \in Sent  BY Zenon DEF Sent
<1>1. ASSUME FramesWait PROVE FramesWait'
  <2>1. \A i \in 1..Len(toClient') : toClient'[i] \in SentFrames
    BY <1>0, <1>1, Appended, Zenon DEF FramesWait
  <2> QED BY <2>1, SameLoad, Zenon DEF FramesWait
<1>2. ASSUME ResponseWaits PROVE ResponseWaits'
  <2>1. PICK k \in 1..Len(toClient) :
          \A i \in 1..Len(toClient) : IF i = k THEN toClient[i] \in Responses
                                      ELSE toClient[i] \in SentFrames
    BY <1>2, Zenon DEF ResponseWaits
  <2>2. k \in 1..Len(toClient') /\ k # Len(toClient')  BY <1>0, Appended, Zenon
  <2>3. ASSUME NEW i \in 1..Len(toClient')
        PROVE  IF i = k THEN toClient'[i] \in Responses ELSE toClient'[i] \in SentFrames
    <3>1. CASE i = Len(toClient')  BY <3>1, <2>2, <1>0, Appended, Zenon
    <3>2. CASE i # Len(toClient')
      <4>1. i \in 1..Len(toClient) /\ toClient'[i] = toClient[i]  BY <3>2, <1>0, Appended, Zenon
      <4> QED BY <4>1, <2>1, Zenon
    <3> QED BY <3>1, <3>2, Zenon
  <2> QED BY <2>2, <2>3, SameLoad, Zenon DEF ResponseWaits
<1>3. ASSUME x \notin RightFrames PROVE WrongWaits'
  <2>1. toClient'[Len(toClient')] \in SentFrames \ RightFrames
        /\ Len(toClient') \in 1..Len(toClient')
    BY <1>0, <1>3, Appended, Zenon
  <2> QED BY <2>1, SameLoad, Zenon DEF WrongWaits
<1> QED BY <1>0, <1>1, <1>2, <1>3, WrongStays, Appended, Zenon

(* The server sends a response. *)
LEMMA AddedResponse ==
  ASSUME WsTypes, env' = env, NEW x \in Responses, toClient' = Append(toClient, x)
  PROVE  /\ FramesWait => ResponseWaits'
         /\ WrongWaits => WrongWaits'
         /\ toClient' \in Seq(Sent') /\ Len(toClient') = Len(toClient) + 1
         /\ Len(toClient) \in Nat
<1>0. x \in Sent  BY Zenon DEF Sent
<1>1. ASSUME FramesWait PROVE ResponseWaits'
  <2>1. \A i \in 1..Len(toClient') : IF i = Len(toClient') THEN toClient'[i] \in Responses
                                     ELSE toClient'[i] \in SentFrames
    BY <1>0, <1>1, Appended, Zenon DEF FramesWait
  <2>2. Len(toClient') \in 1..Len(toClient')  BY <1>0, Appended, Zenon
  <2> QED BY <2>1, <2>2, SameLoad, Zenon DEF ResponseWaits
<1> QED BY <1>0, <1>1, WrongStays, Appended, Zenon

(* Nothing is sent or taken. *)
LEMMA QueueKept ==
  ASSUME env' = env, toClient' = toClient
  PROVE  /\ FramesWait' = FramesWait /\ ResponseWaits' = ResponseWaits
         /\ WrongWaits' = WrongWaits
<1>1. SentFrames' = SentFrames /\ RightFrames' = RightFrames  BY SameLoad, Zenon
<1>2. FramesWait' = FramesWait  BY <1>1, Zenon DEF FramesWait
<1>3. WrongWaits' = WrongWaits  BY <1>1, Zenon DEF WrongWaits
<1>4. ResponseWaits' = ResponseWaits  BY <1>1, Zenon DEF ResponseWaits
<1> QED BY <1>2, <1>3, <1>4, Zenon

(* The invariant holds before the executor has checked its environment. *)
LEMMA WsInitInv == WsInit => WsInv
<1> SUFFICES ASSUME WsInit PROVE WsInv  OBVIOUS
<1>1. PICK k \in DOMAIN Tables :
        env \in [kind : {k}, scenario : DOMAIN Tables[k], identity : Identities,
                 validationOnly : BOOLEAN, profile : BOOLEAN,
                 timeout : {operationTimeout, Ticks(35)}]
  BY Zenon DEF WsInit
<1>2. env.kind = k /\ env.scenario \in DOMAIN Tables[k]
      /\ env.timeout \in {operationTimeout, Ticks(35)}
  BY <1>1, Zenon
<1>3. k \in {"cleartext", "tls"}  BY SMT DEF Tables
<1>4. operationTimeout \in Nat /\ Ticks(35) \in Nat /\ 0 \in Nat
  BY SMT DEF operationTimeout, Ticks
<1>5. << >> \in Seq(Sent)  BY SMT
<1>6. WsTypes
  <2>1. env.kind \in {"cleartext", "tls"} /\ env.scenario \in DOMAIN Tables[env.kind]
        /\ env.timeout \in Nat
    BY <1>2, <1>3, <1>4, Zenon
  <2> QED BY <1>4, <1>5, <2>1, NoTally, Zenon DEF WsInit, WsTypes
<1>7. Place /\ ~InCall  BY Zenon DEF WsInit, Place, Phases, InCall, Waits
<1>8. Tallied
  <2>1. tally["failed"] = 0 /\ tally["timedOut"] = 0  BY NoTally, CountNames, Zenon DEF WsInit
  <2> QED BY <2>1, Zenon DEF WsInit, Tallied, Phases
<1>9. Accounted /\ PackagedWs /\ PackagedTime
  BY <1>7, Zenon DEF WsInit, Accounted, PackagedWs, PackagedTime
<1>10. AcceptedIsOneToOne /\ PackagedPairPasses
  <2>1. exitCode # 0 /\ exitCode # 1 /\ pc # "phaseDone"  BY WsNumbers, Zenon DEF WsInit
  <2> QED BY <2>1, Zenon DEF AcceptedIsOneToOne, accepted, PackagedPairPasses
<1> QED BY <1>6, <1>7, <1>8, <1>9, <1>10, Zenon DEF WsInv

(* The executor ends: what is left to show is what its exit code says. *)
LEMMA Ended ==
  ASSUME WsInv, env' = env, peer' = peer, period' = period, tally' = tally,
         phaseLeft' = phaseLeft, frames' = frames, exact' = exact,
         pc' = "exit", server' = "none", toClient' = << >>,
         opLeft' = 0 \/ opLeft' = opLeft, serverLeft' = 0 \/ serverLeft' = serverLeft,
         AcceptedIsOneToOne', PackagedPairPasses'
  PROVE  WsInv'
<1>1. WsTypes'
  <2>1. << >> \in Seq(Sent')  BY SMT
  <2>2. 0 \in Nat  OBVIOUS
  <2> QED BY <2>1, <2>2, Zenon DEF WsInv, WsTypes, Waits, Phases
<1>2. Place' /\ ~InCall'  BY Zenon DEF WsInv, Place, InCall, Waits
<1>3. Tallied'
  <2>1. period \in Phases /\ ~reusable => tally["opened"] = tally["completed"]
    BY Zenon DEF WsInv, Tallied
  <2> QED BY <2>1, SameLoad, Zenon DEF Tallied
<1>4. Accounted' /\ PackagedWs' /\ PackagedTime'
  BY <1>2, Zenon DEF Accounted, PackagedWs, PackagedTime
<1> QED BY <1>1, <1>2, <1>3, <1>4, Zenon DEF WsInv

(* What is to show of a step after which the executor still runs. *)
LEMMA GoesOn ==
  ASSUME exitCode' = NoExit, pc' # "phaseDone"
  PROVE  AcceptedIsOneToOne' /\ PackagedPairPasses'
<1>1. exitCode' # 0 /\ exitCode' # 1  BY WsNumbers, Zenon
<1> QED BY <1>1, Zenon DEF AcceptedIsOneToOne, accepted, PackagedPairPasses

(* A failed or timed-out operation keeps the invariant, provided that the   *)
(* packaged target only fails one by a timeout.                             *)
LEMMA FailInv ==
  ASSUME WsInv, pc \in Waits, NEW timedOut \in BOOLEAN, Fail(timedOut),
         peer = "packaged" /\ env.timeout = operationTimeout => timedOut
  PROVE  WsInv'
<1>1. /\ env' = env /\ peer' = peer /\ period' = period /\ phaseLeft' = phaseLeft
      /\ frames' = frames /\ exact' = exact
      /\ server' = "none" /\ toClient' = << >> /\ opLeft' = 0 /\ serverLeft' = 0
      /\ late' = (late \/ timedOut)
  BY Zenon DEF Fail, Hangup
<1>2. CASE period = "preflight"
  <2>1. pc' = "exit" /\ exitCode' = 1 /\ tally' = tally  BY <1>2, Zenon DEF Fail, Exit
  <2>2. AcceptedIsOneToOne'
    <3>1. 1 # 0 /\ "exit" # "phaseDone"  BY SMT
    <3> QED BY <2>1, <3>1, Zenon DEF AcceptedIsOneToOne, accepted
  <2>3. PackagedPairPasses'  BY <1>1, Zenon DEF PackagedPairPasses
  <2> QED BY <1>1, <2>1, <2>2, <2>3, Ended, Zenon
<1>3. CASE period # "preflight"
  <2>1. pc' = "phaseDone" /\ exitCode' = exitCode
        /\ \E c \in {"failed", "timedOut"} : tally' = [tally EXCEPT ![c] = @ + 1]
    BY <1>3, Zenon DEF Fail
  <2>2. PICK c \in {"failed", "timedOut"} : tally' = [tally EXCEPT ![c] = @ + 1]  BY <2>1, Zenon
  <2>3. /\ tally' \in [Counts -> Nat] /\ tally'[c] > 0
        /\ tally'["opened"] = tally["opened"] /\ tally'["completed"] = tally["completed"]
    <3>1. c \in Counts /\ c # "opened" /\ c # "completed" /\ "opened" \in Counts
          /\ "completed" \in Counts
      BY Zenon DEF Counts
    <3>2. tally \in [Counts -> Nat]  BY Zenon DEF WsInv, WsTypes
    <3> QED BY <2>2, <3>1, <3>2, TallyBump, Zenon
  <2>4. ~(tally'["failed"] = 0 /\ tally'["timedOut"] = 0)
    <3>1. \A n : n > 0 => n # 0  BY SMT
    <3> QED BY <3>1, <2>3, Zenon
  <2>5. exitCode' = NoExit  BY <2>1, Zenon DEF WsInv, Place, Waits
  <2>6. WsTypes'
    <3>1. << >> \in Seq(Sent')  BY SMT
    <3>2. 0 \in Nat  OBVIOUS
    <3> QED BY <1>1, <2>1, <2>3, <3>1, <3>2, Zenon DEF WsInv, WsTypes
  <2>7. period \in Phases  BY <1>3, Zenon DEF WsInv, WsTypes
  <2>8. Place' /\ ~InCall'
    BY <1>1, <2>1, <2>5, <2>7, Zenon DEF WsInv, Place, InCall, Waits
  <2>9. Tallied'
    <3>1. period \in Phases /\ ~reusable => tally["opened"] = tally["completed"]
      BY Zenon DEF WsInv, Tallied
    <3> QED BY <1>1, <2>1, <2>3, <2>4, <3>1, SameLoad, Zenon DEF Tallied
  <2>10. Accounted' /\ PackagedWs'
    BY <2>8, Zenon DEF Accounted, PackagedWs
  <2>11. PackagedTime'  BY <1>1, <2>8, Zenon DEF PackagedTime
  <2>12. AcceptedIsOneToOne' /\ PackagedPairPasses'
    <3>1. exitCode' # 1  BY <2>5, WsNumbers, Zenon
    <3>2. ~accepted'  BY <1>1, <1>3, <2>4, Zenon DEF accepted
    <3> QED BY <3>1, <3>2, Zenon DEF AcceptedIsOneToOne, PackagedPairPasses
  <2> QED BY <2>6, <2>8, <2>9, <2>10, <2>11, <2>12, Zenon DEF WsInv
<1> QED BY <1>2, <1>3, Zenon

(* openWebSocket is called with nothing of the period unaccounted for. *)
LEMMA Dialed ==
  ASSUME WsInv, env' = env, peer' = peer, Dial, exitCode' = NoExit,
         period' \in {"preflight"} \cup Phases, tally' \in [Counts -> Nat],
         phaseLeft' \in Nat, period' \in Phases => phaseLeft' <= 2, exact' = TRUE,
         tally'["failed"] = 0, tally'["timedOut"] = 0,
         period' \in Phases =>
           IF reusable THEN tally'["completed"] = 0 /\ tally'["opened"] = 0
           ELSE tally'["opened"] = tally'["completed"],
         frames' = IF period' = "preflight" THEN 0 ELSE tally'["completed"]
  PROVE  WsInv'
<1>1. /\ pc' = "dial" /\ opLeft' = env.timeout /\ server' = "backlog" /\ tlsProof' = TRUE
      /\ toServer' = << >> /\ toClient' = << >> /\ serverLeft' = 0
  BY Zenon DEF Dial
<1>2. tally'["completed"] \in Nat  BY CountNames, Zenon
<1>3. WsTypes'
  <2>1. << >> \in Seq(Sent')  BY SMT
  <2>2. frames' \in Nat /\ 0 \in Nat  BY <1>2, SMT
  <2> QED BY <1>1, <2>1, <2>2, Zenon DEF WsInv, WsTypes, Waits
<1>4. Place'  BY <1>1, Zenon DEF Place
<1>5. Tallied'
  <2>1. reusable' = reusable  BY SameLoad, Zenon
  <2>2. period' \in Phases /\ reusable' => tally'["completed"] = 0 /\ tally'["opened"] = 0
    BY <2>1, Zenon
  <2>3. period' \in Phases /\ ~reusable' => tally'["opened"] = tally'["completed"]
    BY <2>1, Zenon
  <2> QED BY <1>1, <2>2, <2>3, Zenon DEF Tallied
<1>6. Accounted'
  <2>1. Taken' = frames'
    <3>1. Taken' = (IF period' = "preflight" THEN 0 ELSE tally'["completed"]) + 0
      BY <1>1, Zenon DEF Taken
    <3> QED BY <3>1, <1>2, SMT
  <2>2. Len(toClient') = 0 /\ FramesWait'
    <3>1. toClient' = << >> => Len(toClient') = 0 /\ 1..Len(toClient') = {}  BY SMT
    <3> QED BY <1>1, <3>1, Zenon DEF FramesWait
  <2>3. frames' = Taken' + Len(toClient')
    <3>1. frames' \in Nat  BY <1>3, Zenon DEF WsTypes
    <3> QED BY <2>1, <2>2, <3>1, SMT
  <2> QED BY <1>1, <2>2, <2>3, Zenon DEF Accounted
<1>7. PackagedWs'  BY <1>1, Zenon DEF PackagedWs, Exchange
<1>8. PackagedTime'
  <2>1. env.timeout = operationTimeout => opLeft' <= 2  BY <1>1, WsTimes, SMT
  <2> QED BY <1>1, <2>1, Zenon DEF PackagedTime, InTime, ClosedEarly
<1>9. AcceptedIsOneToOne' /\ PackagedPairPasses'  BY <1>1, GoesOn, Zenon
<1> QED BY <1>3, <1>4, <1>5, <1>6, <1>7, <1>8, <1>9, Zenon DEF WsInv

(* The start of a phase, with an empty summary, keeps the invariant. *)
LEMMA StartPhaseInv ==
  ASSUME WsInv, env' = env, peer' = peer, exitCode' = NoExit, NEW p \in Phases, StartPhase(p)
  PROVE  WsInv'
<1>1. period' = p /\ tally' = noTally /\ phaseLeft' = phaseLength[p] /\ frames' = 0
      /\ exact' = TRUE
  BY Zenon DEF StartPhase
<1>2. /\ tally' \in [Counts -> Nat] /\ tally'["failed"] = 0 /\ tally'["timedOut"] = 0
      /\ tally'["completed"] = 0 /\ tally'["opened"] = 0
  BY <1>1, NoTally, CountNames, Zenon
<1>3. phaseLeft' \in Nat /\ phaseLeft' > 0 /\ phaseLeft' <= 2
  <2>1. p = "warmup" \/ p = "measured"  BY Zenon DEF Phases
  <2> QED BY <1>1, <2>1, WsTimes, SMT
<1>4. CASE reusable
  <2>1. Dial  BY <1>4, Zenon DEF StartPhase
  <2> QED BY <1>1, <1>2, <1>3, <2>1, Dialed, Zenon
<1>5. CASE ~reusable
  <2>1. /\ pc' = "loop" /\ toServer' = << >> /\ toClient' = << >> /\ server' = "none"
        /\ tlsProof' = TRUE /\ opLeft' = 0 /\ serverLeft' = 0
    BY <1>5, Zenon DEF StartPhase, Hangup
  <2>2. ~reusable'  BY <1>5, SameLoad, Zenon
  <2>3. WsTypes'
    <3>1. << >> \in Seq(Sent')  BY SMT
    <3>2. 0 \in Nat  OBVIOUS
    <3> QED BY <1>1, <1>2, <1>3, <2>1, <3>1, <3>2, Zenon DEF WsInv, WsTypes, Phases
  <2>4. Place'  BY <1>1, <1>3, <2>1, Zenon DEF Place
  <2>5. Tallied'  BY <1>1, <1>2, <1>3, <2>1, <2>2, Zenon DEF Tallied
  <2>6. Accounted'
    <3>1. Taken' = 0
      <4>1. period' # "preflight" /\ pc' # "eof"  BY <1>1, <2>1, Zenon DEF Phases
      <4>2. Taken' = 0 + 0  BY <1>2, <4>1, Zenon DEF Taken
      <4> QED BY <4>2, SMT
    <3>2. Len(toClient') = 0 /\ FramesWait'
      <4>1. toClient' = << >> => Len(toClient') = 0 /\ 1..Len(toClient') = {}  BY SMT
      <4> QED BY <2>1, <4>1, Zenon DEF FramesWait
    <3>3. frames' = Taken' + Len(toClient')  BY <1>1, <3>1, <3>2, SMT
    <3> QED BY <1>1, <2>1, <3>2, <3>3, Zenon DEF Accounted
  <2>7. PackagedWs'  BY <2>1, <2>2, Zenon DEF PackagedWs, Exchange
  <2>8. PackagedTime'
    <3>1. opLeft' <= 2  BY <2>1, SMT
    <3> QED BY <1>3, <2>1, <2>2, <3>1, Zenon DEF PackagedTime, InTime, ClosedEarly
  <2>9. AcceptedIsOneToOne' /\ PackagedPairPasses'  BY <2>1, GoesOn, Zenon
  <2> QED BY <2>3, <2>4, <2>5, <2>6, <2>7, <2>8, <2>9, Zenon DEF WsInv
<1> QED BY <1>4, <1>5, Zenon

(* Sequences of one item. *)
LEMMA One ==
  ASSUME NEW x
  PROVE  Append(<< >>, x) = << x >> /\ Head(<< x >>) = x /\ Tail(<< x >>) = << >>
         /\ << x >> # << >>
BY SMT

(* The executor accepts each answer of the packaged target. *)
LEMMA RightIsAccepted ==
  ASSUME WsTypes, tlsProof
  PROVE  /\ RightResponse \in Responses /\ RightResponse.type = "response"
         /\ RightResponse.right = TRUE /\ Handshake(RightResponse)
         /\ RightClose \in RightFrames /\ RightClose.type = "frame" /\ closeEcho(RightClose)
         /\ reusable => RightEcho \in RightFrames /\ RightEcho.type = "frame" /\ Echo(RightEcho)
<1>e. /\ expectation.subprotocol \in BOOLEAN /\ expectation.deflate \in BOOLEAN
      /\ env.kind = "cleartext" => ~expectation.subprotocol /\ ~expectation.deflate
      /\ env.kind # "tls" => env.kind = "cleartext"
  BY Expectations, Zenon DEF WsTypes
<1>1. /\ RightResponse.type = "response" /\ RightResponse.right = TRUE
      /\ RightResponse.subprotocol = expectation.subprotocol
      /\ RightResponse.extension = expectation.deflate
  BY Zenon DEF RightResponse, Response
<1>2. Handshake(RightResponse)
  <2>1. CASE env.kind = "tls"
    BY <1>1, <2>1, Zenon DEF Handshake, validateHandshakeProof
  <2>2. CASE env.kind # "tls"
    BY <1>1, <1>e, <2>2, Zenon DEF Handshake, cleartextHandshake
  <2> QED BY <2>1, <2>2, Zenon
<1>3. RightResponse \in Responses
  <2>1. \A ok, s, e \in BOOLEAN : Response(ok, s, e) \in Responses  BY SMT DEF Responses
  <2>2. TRUE \in BOOLEAN  OBVIOUS
  <2> QED BY <1>e, <2>1, <2>2, Zenon DEF RightResponse
<1>4. RightClose \in RightFrames /\ RightClose.type = "frame" /\ closeEcho(RightClose)
  BY Zenon DEF RightClose, RightFrames, closeEcho, readFrame, Frame
<1>5. ASSUME reusable
      PROVE  RightEcho \in RightFrames /\ RightEcho.type = "frame" /\ Echo(RightEcho)
  <2>1. RightEcho \in RightFrames  BY <1>5, Zenon DEF RightEcho, RightFrames
  <2>2. /\ RightEcho.type = "frame" /\ RightEcho.opcode = expectation.response
        /\ RightEcho.data = expectation.data /\ RightEcho.deflated = expectation.deflate
        /\ RightEcho.rsv = (IF expectation.deflate THEN "rsv1" ELSE "none")
        /\ RightEcho.fin = TRUE /\ RightEcho.masked = FALSE /\ RightEcho.long = FALSE
    BY Zenon DEF RightEcho, Frame
  <2>3. readFrame(RightEcho, FALSE)  BY <2>2, Zenon DEF readFrame
  <2>4. CASE env.kind = "tls"  BY <2>1, <2>2, <2>3, <2>4, Zenon DEF Echo, tlsEcho
  <2>5. CASE env.kind # "tls"
    <3>1. ~expectation.deflate  BY <1>e, <2>5, Zenon
    <3> QED BY <2>1, <2>2, <2>3, <2>5, <3>1, Zenon DEF Echo, cleartextEcho
  <2> QED BY <2>4, <2>5, Zenon
<1> QED BY <1>1, <1>2, <1>3, <1>4, <1>5, Zenon

(* The number of frames taken is a number. *)
LEMMA TakenIsNat == WsTypes => Taken \in Nat
<1> SUFFICES ASSUME WsTypes PROVE Taken \in Nat  OBVIOUS
<1>1. tally["completed"] \in Nat  BY CountNames, Zenon DEF WsTypes
<1> QED BY <1>1, SMT DEF Taken

(* With nothing left to read, every frame of the period was right and read. *)
LEMMA AllTaken ==
  ASSUME WsInv, InCall, server # "reset", toClient = << >>
  PROVE  exact /\ frames = Taken
<1>1. exact /\ frames = Taken + Len(toClient) /\ Len(toClient) = 0
  BY NothingWaits, Zenon DEF WsInv, Accounted
<1>2. Taken \in Nat  BY TakenIsNat, Zenon DEF WsInv
<1> QED BY <1>1, <1>2, SMT

(* main's check of its environment keeps the invariant. *)
LEMMA GateInv == WsInv /\ Gate => WsInv'
<1> SUFFICES ASSUME WsInv, Gate PROVE WsInv'  OBVIOUS
<1>1. /\ pc = "gate" /\ env' = env /\ peer' = peer /\ period' = period /\ tally' = tally
      /\ phaseLeft' = phaseLeft /\ frames' = frames /\ exact' = exact /\ late' = late
  BY Zenon DEF Gate, history
<1>2. /\ period = "preflight" /\ frames = 0 /\ exact /\ exitCode = NoExit
      /\ server = "none" /\ toClient = << >>
  BY <1>1, Zenon DEF WsInv, Place
<1>3. CASE env.identity = "exact"
  <2>1. Dial /\ exitCode' = exitCode  BY <1>3, Zenon DEF Gate
  <2>2. tally["failed"] = 0 /\ tally["timedOut"] = 0  BY <1>1, Zenon DEF WsInv, Tallied
  <2>3. tally \in [Counts -> Nat] /\ phaseLeft \in Nat /\ exact = TRUE
    BY <1>2, Zenon DEF WsInv, WsTypes
  <2>4. "preflight" \notin Phases  BY Zenon DEF Phases
  <2> QED BY <1>1, <1>2, <2>1, <2>2, <2>3, <2>4, Dialed, Zenon
<1>4. CASE env.identity # "exact"
  <2>1. pc' = "exit" /\ (exitCode' = 2 \/ exitCode' = 3)
        /\ toClient' = toClient /\ server' = server /\ opLeft' = opLeft
        /\ serverLeft' = serverLeft
    BY <1>4, Zenon DEF Gate, Exit, connection
  <2>2. exitCode' # 0 /\ exitCode' # 1  BY <2>1, SMT
  <2>3. AcceptedIsOneToOne' /\ PackagedPairPasses'
    BY <2>1, <2>2, Zenon DEF AcceptedIsOneToOne, accepted, PackagedPairPasses
  <2> QED BY <1>1, <1>2, <2>1, <2>3, Ended, Zenon
<1> QED BY <1>3, <1>4, Zenon

(* openWebSocket dials and sends its request: the invariant is kept. *)
LEMMA OpenInv == WsInv /\ OpenWebSocket => WsInv'
<1> SUFFICES ASSUME WsInv, OpenWebSocket PROVE WsInv'  OBVIOUS
<1>1. /\ pc = "dial" /\ pc' = "upgrade" /\ server \in {"backlog", "opening"}
      /\ toServer' = Append(toServer, Request) /\ opLeft' = env.timeout
      /\ env' = env /\ peer' = peer /\ period' = period /\ tally' = tally
      /\ exitCode' = exitCode /\ toClient' = toClient /\ server' = server
      /\ tlsProof' = tlsProof /\ phaseLeft' = phaseLeft /\ serverLeft' = serverLeft
      /\ frames' = frames /\ exact' = exact /\ late' = late
  BY Zenon DEF OpenWebSocket, Send, history
<1>2. reusable' = reusable /\ Request' = Request /\ Sent' = Sent  BY <1>1, SameLoad, Zenon
<1>3. WsTypes'  BY <1>1, <1>2, Zenon DEF WsInv, WsTypes, Waits
<1>4. Place'  BY <1>1, Zenon DEF WsInv, Place
<1>5. Tallied'  BY <1>1, <1>2, Zenon DEF WsInv, Tallied
<1>6. Accounted'
  <2>1. Taken' = Taken  BY <1>1, <1>2, Zenon DEF Taken
  <2>2. InCall /\ server # "reset"  BY <1>1, Zenon DEF InCall, Waits
  <2> QED BY <1>1, <2>1, <2>2, QueueKept, Zenon DEF WsInv, Accounted
<1>7. PackagedWs'
  <2>1. SUFFICES ASSUME peer = "packaged" PROVE tlsProof' /\ Exchange'
    BY <1>1, Zenon DEF PackagedWs
  <2>2. tlsProof /\ toServer = << >> /\ toClient = << >>
    BY <1>1, <2>1, Zenon DEF WsInv, PackagedWs, InCall, Waits, Exchange
  <2>3. toServer' = << Request >>  BY <1>1, <2>2, One, Zenon
  <2> QED BY <1>1, <1>2, <2>2, <2>3, Zenon DEF Exchange
<1>8. PackagedTime'
  <2>1. SUFFICES ASSUME peer = "packaged", env.timeout = operationTimeout PROVE InTime'
    BY <1>1, Zenon DEF PackagedTime
  <2>2. InTime  BY <1>1, <2>1, Zenon DEF WsInv, PackagedTime, InCall, Waits
  <2>3. opLeft' = 2 /\ opLeft' <= 2  BY <1>1, <2>1, WsTimes, SMT
  <2>4. ASSUME server = "opening" PROVE serverLeft >= opLeft' + 4 /\ serverLeft >= opLeft'
    <3>1. serverLeft >= opLeft + 6  BY <1>1, <2>2, <2>4, Zenon DEF InTime, Needs
    <3>2. serverLeft \in Nat /\ opLeft \in Nat  BY Zenon DEF WsInv, WsTypes
    <3> QED BY <2>3, <3>1, <3>2, SMT
  <2>5. server' \in {"opening", "frames"} => Needs'  BY <1>1, <2>4, Zenon DEF Needs
  <2>6. ~ClosedEarly'  BY <1>1, Zenon DEF ClosedEarly
  <2> QED BY <1>1, <2>3, <2>5, <2>6, Zenon DEF InTime
<1>9. AcceptedIsOneToOne' /\ PackagedPairPasses'
  <2>1. exitCode' = NoExit /\ pc' # "phaseDone"  BY <1>1, Zenon DEF WsInv, Place
  <2> QED BY <2>1, GoesOn, Zenon
<1> QED BY <1>3, <1>4, <1>5, <1>6, <1>7, <1>8, <1>9, Zenon DEF WsInv

(* The handshake's response is read and checked: the invariant is kept. *)
LEMMA ReadResponseInv == WsInv /\ ReadResponse => WsInv'
<1> SUFFICES ASSUME WsInv, ReadResponse PROVE WsInv'  OBVIOUS
<1>1. pc = "upgrade" /\ opLeft > 0 /\ toClient # << >>  BY Zenon DEF ReadResponse
<1>2. InCall  BY <1>1, Zenon DEF InCall, Waits
<1>p. ASSUME peer = "packaged"
      PROVE  /\ tlsProof /\ toServer = << >> /\ toClient = << RightResponse >>
             /\ server \in {"frames", "closed"}
             /\ Head(toClient).type = "response" /\ Handshake(Head(toClient))
  <2>1. /\ tlsProof /\ toServer = << >> /\ toClient = << RightResponse >>
        /\ server \in {"frames", "closed"}
    BY <1>1, <1>2, <1>p, Zenon DEF WsInv, PackagedWs, Exchange
  <2>2. Head(toClient) = RightResponse  BY <2>1, One, Zenon
  <2> QED BY <2>1, <2>2, RightIsAccepted, Zenon DEF WsInv
<1>3. CASE ~(Head(toClient).type = "response" /\ Handshake(Head(toClient)))
  <2>1. Fail(FALSE)  BY <1>3, Zenon DEF ReadResponse
  <2> QED BY <1>1, <1>3, <1>p, <2>1, FailInv, Zenon DEF Waits
<1>4. CASE Head(toClient).type = "response" /\ Handshake(Head(toClient))
  <2>1. /\ env' = env /\ peer' = peer /\ period' = period /\ toClient' = Tail(toClient)
        /\ exitCode' = exitCode /\ server' = server /\ tlsProof' = tlsProof
        /\ opLeft' = opLeft /\ serverLeft' = serverLeft
        /\ frames' = frames /\ exact' = exact /\ late' = late
    BY <1>4, Zenon DEF ReadResponse, history
  <2>2. \/ /\ period # "preflight" /\ reusable /\ pc' = "loop"
           /\ phaseLeft' = phaseLength[period] /\ toServer' = toServer
           /\ tally' = [tally EXCEPT !["opened"] = @ + 1]
        \/ /\ period = "preflight" /\ reusable /\ pc' = "echo"
           /\ toServer' = Append(toServer, RequestFrame)
           /\ tally' = tally /\ phaseLeft' = phaseLeft
        \/ /\ ~reusable /\ pc' = "closing" /\ toServer' = Append(toServer, CloseFrame)
           /\ tally' = tally /\ phaseLeft' = phaseLeft
    BY <1>4, Zenon DEF ReadResponse, SendRequest, SendClose, Send, RequestFrame, CloseFrame
  <2>3. /\ reusable' = reusable /\ RequestFrame' = RequestFrame /\ RightEcho' = RightEcho
        /\ CloseFrame' = CloseFrame
    BY <2>1, SameLoad, Zenon DEF CloseFrame
  <2>q. /\ toClient \in Seq(Sent) /\ toClient' \in Seq(Sent')
    <3>1. toClient \in Seq(Sent)  BY Zenon DEF WsInv, WsTypes
    <3>2. WsTypes  BY Zenon DEF WsInv
    <3> QED BY <1>1, <2>1, <3>1, <3>2, Popped, Zenon
  <2>4. /\ tally' \in [Counts -> Nat] /\ tally'["completed"] = tally["completed"]
        /\ tally'["failed"] = 0 /\ tally'["timedOut"] = 0
        /\ pc' = "loop" => tally'["opened"] = tally["opened"] + 1
        /\ pc' # "loop" => tally'["opened"] = tally["opened"]
    <3>1. tally \in [Counts -> Nat] /\ tally["failed"] = 0 /\ tally["timedOut"] = 0
      BY <1>1, Zenon DEF WsInv, WsTypes, Tallied
    <3>2. CASE tally' = tally /\ pc' # "loop"  BY <3>1, <3>2, Zenon
    <3>3. CASE tally' = [tally EXCEPT !["opened"] = @ + 1] /\ pc' = "loop"
      <4>1. /\ "opened" \in Counts /\ "completed" \in Counts /\ "failed" \in Counts
            /\ "timedOut" \in Counts
        BY Zenon DEF Counts
      <4> QED BY <3>1, <3>3, <4>1, TallyBump, Zenon
    <3> QED BY <2>2, <3>2, <3>3, Zenon
  <2>5. phaseLeft' \in Nat /\ (pc' = "loop" => phaseLeft' > 0 /\ phaseLeft' <= 2)
    <3>1. CASE pc' = "loop"
      <4>1. period = "warmup" \/ period = "measured"
        BY <2>2, <3>1, Zenon DEF WsInv, WsTypes, Phases
      <4>2. phaseLeft' = phaseLength[period]  BY <2>2, <3>1, Zenon
      <4> QED BY <4>1, <4>2, WsTimes, SMT
    <3>2. CASE pc' # "loop"  BY <2>2, <3>2, Zenon DEF WsInv, WsTypes
    <3> QED BY <3>1, <3>2, Zenon
  <2>6. period' \in Phases \/ period' = "preflight"  BY <2>1, Zenon DEF WsInv, WsTypes
  <2>7. WsTypes'
    BY <2>1, <2>2, <2>q, <2>4, <2>5, Zenon DEF WsInv, WsTypes, Waits
  <2>8. Place'
    <3>1. exitCode' = NoExit  BY <1>1, <2>1, Zenon DEF WsInv, Place
    <3>2. period \in Phases => phaseLeft' <= 2  BY <2>2, <2>5, Zenon DEF WsInv, Place
    <3> QED BY <2>1, <2>2, <2>3, <2>6, <3>1, <3>2, Zenon DEF Place
  <2>9. Tallied'
    <3>1. /\ period \in Phases /\ reusable => tally["completed"] = 0 /\ tally["opened"] = 0
          /\ period \in Phases /\ ~reusable => tally["opened"] = tally["completed"]
      BY <1>1, Zenon DEF WsInv, Tallied
    <3>2. period \in Phases => period # "preflight"  BY Zenon DEF Phases
    <3>3. 0 + 1 = 1  BY SMT
    <3>4. CASE pc' = "loop"
      <4>1. period' \in Phases /\ reusable'  BY <2>1, <2>2, <2>3, <2>6, <3>4, Zenon
      <4>2. tally'["opened"] = 1  BY <4>1, <2>1, <2>3, <3>4, <2>4, <3>1, <3>3, Zenon
      <4> QED BY <3>4, <4>1, <4>2, <2>4, <2>5, Zenon DEF Tallied
    <3>5. CASE pc' # "loop"
      <4>1. pc' \in {"echo", "closing"} /\ (reusable => period = "preflight")
        BY <2>2, <3>5, Zenon
      <4> QED BY <3>5, <4>1, <2>1, <2>3, <2>4, <3>1, <3>2, Zenon DEF Tallied
    <3> QED BY <3>4, <3>5, Zenon
  <2>10. Accounted'
    <3>1. SUFFICES ASSUME server # "reset"
                   PROVE  /\ exact' \/ WrongWaits'
                          /\ FramesWait' /\ frames' = Taken' + Len(toClient')
                          /\ server' \notin {"backlog", "opening"}
      BY <2>1, Zenon DEF Accounted
    <3>2. exact \/ WrongWaits  BY <1>2, <3>1, Zenon DEF WsInv, Accounted
    <3>3. \/ FramesWait
          \/ ResponseWaits /\ server \notin {"backlog", "opening", "none"}
             /\ frames + 1 = Taken + Len(toClient)
      BY <1>2, <3>1, Zenon DEF WsInv, Accounted
    <3>4. WsTypes /\ (FramesWait \/ ResponseWaits)  BY <3>3, Zenon DEF WsInv
    <3>5. /\ ~FramesWait /\ FramesWait' /\ Len(toClient) = Len(toClient') + 1
          /\ Len(toClient') \in Nat /\ (WrongWaits => WrongWaits')
      BY <1>1, <1>4, <2>1, <3>4, TookResponse, Zenon
    <3>6. Taken' = Taken
      <4>1. pc # "eof" /\ pc' # "eof" /\ pc \notin {"closing", "eof"}  BY <1>1, <2>2, Zenon
      <4>2. reusable /\ period = "preflight" => pc' \notin {"closing", "eof"}
        BY <2>2, Zenon
      <4> QED BY <2>1, <2>3, <2>4, <4>1, <4>2, Zenon DEF Taken
    <3>7. frames' = Taken' + Len(toClient')
      <4>1. frames \in Nat /\ Taken \in Nat  BY <3>4, TakenIsNat, Zenon DEF WsTypes
      <4>2. frames + 1 = Taken + (Len(toClient') + 1)  BY <3>3, <3>5, Zenon
      <4>3. frames = Taken + Len(toClient')  BY <4>1, <4>2, <3>5, SMT
      <4> QED BY <4>3, <2>1, <3>6, Zenon
    <3> QED BY <2>1, <3>2, <3>3, <3>5, <3>7, Zenon
  <2>11. PackagedWs'
    <3>1. SUFFICES ASSUME peer = "packaged" PROVE tlsProof' /\ Exchange'
      BY <2>1, Zenon DEF PackagedWs
    <3>2. /\ tlsProof /\ toServer = << >> /\ toClient' = << >>
          /\ server' \in {"frames", "closed"}
      BY <1>p, <2>1, <3>1, One, Zenon
    <3>3. \/ reusable /\ pc' = "loop" /\ toServer' = << >>
          \/ pc' = "echo" /\ toServer' = << RequestFrame >>
          \/ pc' = "closing" /\ toServer' = << CloseFrame >>
      BY <2>2, <3>2, One, Zenon
    <3> QED BY <2>1, <2>3, <3>2, <3>3, Zenon DEF Exchange
  <2>12. PackagedTime'
    <3>1. SUFFICES ASSUME peer = "packaged", env.timeout = operationTimeout PROVE InTime'
      BY <2>1, <2>2, Zenon DEF PackagedTime
    <3>2. InTime  BY <1>2, <3>1, Zenon DEF WsInv, PackagedTime
    <3>3. server # "closed"
      <4>1. opLeft # 0  BY <1>1, SMT
      <4> QED BY <1>1, <3>2, <4>1, Zenon DEF InTime, ClosedEarly
    <3>4. serverLeft >= opLeft + 4
      BY <1>1, <1>p, <3>1, <3>2, <3>3, Zenon DEF InTime, Needs
    <3>5. serverLeft \in Nat /\ opLeft \in Nat  BY Zenon DEF WsInv, WsTypes
    <3>6. serverLeft >= opLeft  BY <3>4, <3>5, SMT
    <3>7. ASSUME pc' = "loop" PROVE serverLeft >= phaseLeft' + 2
      <4>1. \A a, b, c \in Nat : a >= b + 4 /\ c <= 2 => a >= c + 2  BY SMT
      <4> QED BY <2>5, <3>4, <3>5, <3>7, <4>1, Zenon
    <3>8. pc' # "dial" /\ pc' # "upgrade" /\ (pc' = "echo" => period' \notin Phases)
      BY <2>1, <2>2, Zenon DEF Phases
    <3>9. Needs'  BY <2>1, <3>6, <3>7, <3>8, Zenon DEF Needs
    <3>10. ~ClosedEarly'  BY <2>1, <3>3, Zenon DEF ClosedEarly
    <3>11. opLeft' <= 2 /\ opLeft' > 0  BY <1>1, <2>1, <3>2, Zenon DEF InTime
    <3> QED BY <3>9, <3>10, <3>11, Zenon DEF InTime
  <2>13. AcceptedIsOneToOne' /\ PackagedPairPasses'
    <3>1. exitCode' = NoExit /\ pc' # "phaseDone"  BY <1>1, <2>1, <2>2, Zenon DEF WsInv, Place
    <3> QED BY <3>1, GoesOn, Zenon
  <2> QED BY <2>7, <2>8, <2>9, <2>10, <2>11, <2>12, <2>13, Zenon DEF WsInv
<1> QED BY <1>3, <1>4, Zenon

(* The phase's loop sends the next message or closes the connection: the    *)
(* invariant is kept.                                                       *)
LEMMA LoopInv == WsInv /\ Loop => WsInv'
<1> SUFFICES ASSUME WsInv, Loop PROVE WsInv'  OBVIOUS
<1>1. /\ pc = "loop" /\ env' = env /\ peer' = peer /\ period' = period /\ tally' = tally
      /\ exitCode' = exitCode /\ phaseLeft' = phaseLeft
      /\ frames' = frames /\ exact' = exact /\ late' = late
  BY Zenon DEF Loop, history
<1>2. InCall /\ exitCode = NoExit /\ period \in Phases /\ period # "preflight"
  BY <1>1, Zenon DEF WsInv, InCall, Place, Phases
<1>3. tally["failed"] = 0 /\ tally["timedOut"] = 0 /\ tally \in [Counts -> Nat]
      /\ phaseLeft \in Nat /\ tally["completed"] \in Nat
  BY <1>1, CountNames, Zenon DEF WsInv, Tallied, WsTypes
<1>4. reusable' = reusable /\ Sent' = Sent /\ RequestFrame' = RequestFrame
      /\ CloseFrame' = CloseFrame
  BY <1>1, SameLoad, Zenon DEF CloseFrame
<1> DEFINE more == phaseLeft > 0 /\ tally["completed"] < MaxRounds
<1>5. more \/ tally["completed"] > 0
  <2>1. SUFFICES ASSUME ~more PROVE tally["completed"] > 0  OBVIOUS
  <2>2. CASE phaseLeft > 0  BY <2>1, <2>2, <1>3, WsNumbers, SMT
  <2>3. CASE ~(phaseLeft > 0)
    <3>1. tally["completed"] # 0  BY <1>1, <2>3, Zenon DEF WsInv, Tallied
    <3> QED BY <3>1, <1>3, SMT
  <2> QED BY <2>2, <2>3, Zenon
<1>6. CASE reusable
  <2>1. /\ toClient' = toClient /\ server' = server /\ tlsProof' = tlsProof
        /\ serverLeft' = serverLeft
        /\ \/ /\ more /\ pc' = "echo" /\ toServer' = Append(toServer, RequestFrame)
              /\ opLeft' = env.timeout
           \/ /\ ~more /\ pc' = "closing" /\ toServer' = Append(toServer, CloseFrame)
              /\ opLeft' = opLeft
    BY <1>6, Zenon DEF Loop, SendRequest, SendClose, Send, RequestFrame, CloseFrame
  <2>2. WsTypes'  BY <1>1, <1>4, <2>1, Zenon DEF WsInv, WsTypes, Waits
  <2>3. Place'  BY <1>1, <1>2, <1>4, <1>6, <2>1, Zenon DEF WsInv, Place
  <2>4. Tallied'
    <3>1. tally["opened"] = 1  BY <1>1, <1>2, <1>6, Zenon DEF WsInv, Tallied
    <3> QED BY <1>1, <1>3, <1>4, <1>5, <1>6, <2>1, <3>1, Zenon DEF Tallied
  <2>5. Accounted'
    <3>1. Taken' = Taken
      <4>1. pc # "eof" /\ pc' # "eof" /\ period' # "preflight"  BY <1>1, <1>2, <2>1, Zenon
      <4> QED BY <1>1, <1>2, <4>1, Zenon DEF Taken
    <3> QED BY <1>1, <1>2, <2>1, <3>1, QueueKept, Zenon DEF WsInv, Accounted
  <2>6. PackagedWs'
    <3>1. SUFFICES ASSUME peer = "packaged" PROVE tlsProof' /\ Exchange'
      BY <1>1, Zenon DEF PackagedWs
    <3>2. tlsProof /\ toServer = << >> /\ toClient = << >> /\ server \in {"frames", "closed"}
      BY <1>1, <1>2, <1>6, <3>1, Zenon DEF WsInv, PackagedWs, Exchange
    <3>3. \/ pc' = "echo" /\ toServer' = << RequestFrame >>
          \/ pc' = "closing" /\ toServer' = << CloseFrame >>
      BY <2>1, <3>2, One, Zenon
    <3> QED BY <1>4, <2>1, <3>2, <3>3, Zenon DEF Exchange
  <2>7. PackagedTime'
    <3>1. SUFFICES ASSUME peer = "packaged", env.timeout = operationTimeout PROVE InTime'
      BY <1>1, <2>1, Zenon DEF PackagedTime
    <3>2. InTime  BY <1>2, <3>1, Zenon DEF WsInv, PackagedTime
    <3>3. server # "closed"  BY <1>1, <3>2, Zenon DEF InTime, ClosedEarly, Waits
    <3>4. opLeft' <= 2
      <4>1. env.timeout <= 2 /\ opLeft <= 2
        <5>1. opLeft <= 2  BY <3>2, Zenon DEF InTime
        <5> QED BY <3>1, <5>1, WsTimes, SMT
      <4> QED BY <2>1, <4>1, Zenon
    <3>6. ASSUME server \in {"opening", "frames"} PROVE Needs'
      <4>1. Needs  BY <3>2, <3>6, Zenon DEF InTime
      <4>2. serverLeft >= opLeft
            /\ (phaseLeft > 0 => serverLeft >= phaseLeft + 2)
        BY <1>1, <1>2, <4>1, Zenon DEF Needs
      <4>3. serverLeft \in Nat  BY Zenon DEF WsInv, WsTypes
      <4>4. CASE pc' = "echo"
        <5>1. more /\ opLeft' = 2  BY <2>1, <3>1, <4>4, WsTimes, Zenon
        <5>2. serverLeft >= phaseLeft + 2  BY <4>2, <5>1, Zenon
        <5>3. serverLeft >= opLeft'  BY <1>3, <4>3, <5>1, <5>2, SMT
        <5> QED BY <1>1, <2>1, <4>4, <5>2, <5>3, Zenon DEF Needs
      <4>5. CASE pc' = "closing"
        <5>1. opLeft' = opLeft  BY <2>1, <4>5, Zenon
        <5> QED BY <2>1, <4>2, <4>5, <5>1, Zenon DEF Needs
      <4> QED BY <2>1, <4>4, <4>5, Zenon
    <3>7. ~ClosedEarly'  BY <2>1, <3>3, Zenon DEF ClosedEarly
    <3> QED BY <1>1, <2>1, <3>4, <3>6, <3>7, Zenon DEF InTime
  <2>8. AcceptedIsOneToOne' /\ PackagedPairPasses'
    <3>1. exitCode' = NoExit /\ pc' # "phaseDone"  BY <1>1, <1>2, <2>1, Zenon
    <3> QED BY <3>1, GoesOn, Zenon
  <2> QED BY <2>2, <2>3, <2>4, <2>5, <2>6, <2>7, <2>8, Zenon DEF WsInv
<1>7. CASE ~reusable
  <2>1. server = "none" /\ toClient = << >>  BY <1>1, <1>7, Zenon DEF WsInv, Place
  <2>2. tally["opened"] = tally["completed"]  BY <1>2, <1>7, Zenon DEF WsInv, Tallied
  <2>3. exact = TRUE /\ frames = tally["completed"]
    <3>1. server # "reset"  BY <2>1, Zenon
    <3>2. exact /\ frames = Taken  BY <1>2, <2>1, <3>1, AllTaken, Zenon
    <3>3. pc # "eof"  BY <1>1, Zenon
    <3>4. Taken = tally["completed"] + 0  BY <1>2, <3>3, Zenon DEF Taken
    <3>5. Taken = tally["completed"]  BY <3>4, <1>3, SMT
    <3> QED BY <3>2, <3>5, Zenon DEF WsInv, WsTypes
  <2>4. CASE more
    <3>1. Dial  BY <1>7, <2>4, Zenon DEF Loop
    <3>2. period' \in {"preflight"} \cup Phases /\ period' # "preflight" /\ phaseLeft <= 2
      BY <1>1, <1>2, Zenon DEF WsInv, Place
    <3> QED BY <1>1, <1>2, <1>3, <1>7, <2>2, <2>3, <3>1, <3>2, Dialed, Zenon
  <2>5. CASE ~more
    <3>1. pc' = "phaseDone" /\ toClient' = toClient /\ server' = server
          /\ opLeft' = opLeft /\ serverLeft' = serverLeft
      BY <1>7, <2>5, Zenon DEF Loop, connection
    <3>2. tally["completed"] > 0  BY <1>5, <2>5, Zenon
    <3>3. WsTypes'  BY <1>1, <1>4, <3>1, Zenon DEF WsInv, WsTypes
    <3>4. Place' /\ ~InCall'
      BY <1>1, <1>2, <2>1, <3>1, Zenon DEF WsInv, Place, InCall, Waits
    <3>5. Tallied'  BY <1>1, <1>4, <1>7, <2>2, <3>1, <3>2, Zenon DEF Tallied
    <3>6. Accounted' /\ PackagedWs'  BY <3>4, Zenon DEF Accounted, PackagedWs
    <3>7. PackagedTime'  BY <1>1, <1>3, <3>4, Zenon DEF PackagedTime
    <3>8. AcceptedIsOneToOne'
      <4>1. frames' = (IF period' = "preflight" THEN 1 ELSE tally'["completed"])
                      + (IF reusable' THEN 1 ELSE 0)
        <5>1. frames = tally["completed"] + 0  BY <1>3, <2>3, SMT
        <5> QED BY <1>1, <1>2, <1>4, <1>7, <5>1, Zenon
      <4>2. tally'["opened"] = IF reusable' THEN 1 ELSE tally'["completed"]
        BY <1>1, <1>4, <1>7, <2>2, Zenon
      <4> QED BY <1>1, <2>1, <2>3, <3>1, <4>1, <4>2, Zenon DEF AcceptedIsOneToOne
    <3>9. PackagedPairPasses'  BY <1>1, <1>2, WsNumbers, Zenon DEF PackagedPairPasses
    <3> QED BY <3>3, <3>4, <3>5, <3>6, <3>7, <3>8, <3>9, Zenon DEF WsInv
  <2> QED BY <2>4, <2>5, Zenon
<1> QED BY <1>6, <1>7, Zenon

(* The echo is read and checked: the invariant is kept. *)
LEMMA PerformInv == WsInv /\ PerformOnOpenConnection => WsInv'
<1> SUFFICES ASSUME WsInv, PerformOnOpenConnection PROVE WsInv'  OBVIOUS
<1>1. pc = "echo" /\ opLeft > 0 /\ toClient # << >>  BY Zenon DEF PerformOnOpenConnection
<1>2. InCall /\ reusable /\ exitCode = NoExit
  BY <1>1, Zenon DEF InCall, Waits, WsInv, Place
<1>t. WsTypes  BY Zenon DEF WsInv
<1>p. ASSUME peer = "packaged"
      PROVE  /\ tlsProof /\ toServer = << >> /\ toClient = << RightEcho >>
             /\ server \in {"frames", "closed"}
             /\ Head(toClient).type = "frame" /\ Echo(Head(toClient))
  <2>1. /\ tlsProof /\ toServer = << >> /\ toClient = << RightEcho >>
        /\ server \in {"frames", "closed"}
    BY <1>1, <1>2, <1>p, Zenon DEF WsInv, PackagedWs, Exchange
  <2>2. Head(toClient) = RightEcho  BY <2>1, One, Zenon
  <2> QED BY <1>2, <1>t, <2>1, <2>2, RightIsAccepted, Zenon
<1>3. CASE ~(Head(toClient).type = "frame" /\ Echo(Head(toClient)))
  <2>1. Fail(FALSE)  BY <1>3, Zenon DEF PerformOnOpenConnection
  <2> QED BY <1>1, <1>3, <1>p, <2>1, FailInv, Zenon DEF Waits
<1>4. CASE Head(toClient).type = "frame" /\ Echo(Head(toClient))
  <2>1. /\ env' = env /\ peer' = peer /\ period' = period /\ toClient' = Tail(toClient)
        /\ exitCode' = exitCode /\ server' = server /\ tlsProof' = tlsProof
        /\ opLeft' = opLeft /\ phaseLeft' = phaseLeft /\ serverLeft' = serverLeft
        /\ frames' = frames /\ exact' = exact /\ late' = late
    BY <1>4, Zenon DEF PerformOnOpenConnection, history
  <2>2. \/ /\ period = "preflight" /\ pc' = "closing"
           /\ toServer' = Append(toServer, CloseFrame) /\ tally' = tally
        \/ /\ period # "preflight" /\ pc' = "loop" /\ toServer' = toServer
           /\ tally' = [tally EXCEPT !["completed"] = @ + 1]
    BY <1>4, Zenon DEF PerformOnOpenConnection, SendClose, Send, CloseFrame
  <2>3. reusable' = reusable /\ CloseFrame' = CloseFrame
    BY <2>1, SameLoad, Zenon DEF CloseFrame
  <2>q. toClient' \in Seq(Sent')  BY <1>1, <1>t, <2>1, Popped, Zenon
  <2>4. /\ tally' \in [Counts -> Nat] /\ tally'["opened"] = tally["opened"]
        /\ tally'["failed"] = 0 /\ tally'["timedOut"] = 0 /\ tally["completed"] \in Nat
        /\ pc' = "loop" => tally'["completed"] = tally["completed"] + 1
                           /\ tally'["completed"] # 0
    <3>1. /\ tally \in [Counts -> Nat] /\ tally["failed"] = 0 /\ tally["timedOut"] = 0
          /\ tally["completed"] \in Nat
      BY <1>1, CountNames, Zenon DEF WsInv, WsTypes, Tallied
    <3>2. CASE tally' = tally /\ pc' # "loop"  BY <3>1, <3>2, Zenon
    <3>3. CASE tally' = [tally EXCEPT !["completed"] = @ + 1]
      <4>1. /\ "opened" \in Counts /\ "completed" \in Counts /\ "failed" \in Counts
            /\ "timedOut" \in Counts
        BY Zenon DEF Counts
      <4>2. \A n : n > 0 => n # 0  BY SMT
      <4> QED BY <3>1, <3>3, <4>1, <4>2, TallyBump, Zenon
    <3> QED BY <2>2, <3>2, <3>3, Zenon
  <2>6. period \in Phases \/ period = "preflight"  BY Zenon DEF WsInv, WsTypes
  <2>7. WsTypes'
    BY <2>1, <2>2, <2>q, <2>4, Zenon DEF WsInv, WsTypes, Waits
  <2>8. Place'  BY <1>2, <2>1, <2>2, <2>3, <2>6, Zenon DEF WsInv, Place
  <2>9. Tallied'
    <3>1. period \in Phases => tally["opened"] = 1
      BY <1>1, <1>2, Zenon DEF WsInv, Tallied
    <3>2. period \in Phases => period # "preflight"  BY Zenon DEF Phases
    <3> QED BY <1>2, <2>1, <2>2, <2>3, <2>4, <3>1, <3>2, Zenon DEF Tallied
  <2>10. Accounted'
    <3>1. SUFFICES ASSUME server # "reset"
                   PROVE  /\ exact' \/ WrongWaits'
                          /\ FramesWait' /\ frames' = Taken' + Len(toClient')
                          /\ server' \notin {"backlog", "opening"}
      BY <2>1, Zenon DEF Accounted
    <3>2. /\ exact \/ WrongWaits
          /\ FramesWait /\ frames = Taken + Len(toClient)
          /\ server \notin {"backlog", "opening"}
      BY <1>1, <1>2, <3>1, Zenon DEF WsInv, Accounted
    <3>3. Head(toClient) \in RightFrames
      <4>1. Head(toClient) \in SentFrames  BY <1>1, <1>t, <2>1, <3>2, Popped, Zenon DEF FramesWait
      <4> QED BY <1>2, <1>4, <1>t, <4>1, WrongIsNoticed, Zenon
    <3>4. /\ FramesWait' /\ Len(toClient) = Len(toClient') + 1
          /\ Len(toClient') \in Nat /\ (WrongWaits => WrongWaits')
      BY <1>1, <1>t, <2>1, <3>2, <3>3, TookFrame, Zenon
    <3>5. Taken' = Taken + 1
      <4>1. CASE period = "preflight"
        <5>1. Taken = 0 + 0 /\ Taken' = 1 + 0
          BY <1>1, <1>2, <2>1, <2>2, <2>3, <4>1, Zenon DEF Taken
        <5> QED BY <5>1, SMT
      <4>2. CASE period # "preflight"
        <5>1. Taken = tally["completed"] + 0 /\ Taken' = (tally["completed"] + 1) + 0
          <6>1. pc # "eof" /\ pc' # "eof" /\ pc' = "loop"  BY <1>1, <2>2, <4>2, Zenon
          <6> QED BY <2>1, <2>4, <4>2, <6>1, Zenon DEF Taken
        <5> QED BY <2>4, <5>1, SMT
      <4> QED BY <4>1, <4>2, Zenon
    <3>6. frames = Taken' + Len(toClient')
      <4>1. Taken \in Nat  BY <1>t, TakenIsNat, Zenon
      <4> QED BY <4>1, <3>2, <3>4, <3>5, SMT
    <3> QED BY <2>1, <3>2, <3>4, <3>6, Zenon
  <2>11. PackagedWs'
    <3>1. SUFFICES ASSUME peer = "packaged" PROVE tlsProof' /\ Exchange'
      BY <2>1, Zenon DEF PackagedWs
    <3>2. /\ tlsProof /\ toServer = << >> /\ toClient' = << >>
          /\ server' \in {"frames", "closed"}
      BY <1>p, <2>1, <3>1, One, Zenon
    <3>3. \/ reusable /\ pc' = "loop" /\ toServer' = << >>
          \/ pc' = "closing" /\ toServer' = << CloseFrame >>
      BY <1>2, <2>2, <3>2, One, Zenon
    <3> QED BY <2>1, <2>3, <3>2, <3>3, Zenon DEF Exchange
  <2>12. PackagedTime'
    <3>1. SUFFICES ASSUME peer = "packaged", env.timeout = operationTimeout PROVE InTime'
      BY <2>1, <2>2, Zenon DEF PackagedTime
    <3>2. InTime  BY <1>2, <3>1, Zenon DEF WsInv, PackagedTime
    <3>3. server # "closed"
      <4>1. opLeft # 0  BY <1>1, SMT
      <4> QED BY <1>1, <3>2, <4>1, Zenon DEF InTime, ClosedEarly
    <3>4. server \in {"opening", "frames"} => Needs'
      <4>1. server \in {"opening", "frames"} => Needs  BY <3>2, Zenon DEF InTime
      <4> QED BY <1>1, <2>1, <2>2, <4>1, Zenon DEF Needs
    <3>5. ~ClosedEarly'  BY <2>1, <3>3, Zenon DEF ClosedEarly
    <3>6. opLeft <= 2  BY <3>2, Zenon DEF InTime
    <3> QED BY <1>1, <2>1, <3>4, <3>5, <3>6, Zenon DEF InTime
  <2>13. AcceptedIsOneToOne' /\ PackagedPairPasses'
    <3>1. exitCode' = NoExit /\ pc' # "phaseDone"  BY <1>2, <2>1, <2>2, Zenon
    <3> QED BY <3>1, GoesOn, Zenon
  <2> QED BY <2>7, <2>8, <2>9, <2>10, <2>11, <2>12, <2>13, Zenon DEF WsInv
<1> QED BY <1>3, <1>4, Zenon

(* A connection that ended cleanly is counted: the invariant is kept. *)
LEMMA OperationDoneInv ==
  ASSUME WsInv, pc = "eof", toClient = << >>, server = "closed", OperationDone
  PROVE  WsInv'
<1>1. env' = env /\ peer' = peer /\ late' = late  BY Zenon DEF OperationDone
<1>2. InCall /\ exitCode = NoExit  BY Zenon DEF WsInv, Place, InCall, Waits
<1>3. exact = TRUE /\ frames = Taken
  <2>1. server # "reset"  OBVIOUS
  <2> QED BY <1>2, <2>1, AllTaken, Zenon DEF WsInv, WsTypes
<1>4. reusable' = reusable /\ Sent' = Sent  BY <1>1, SameLoad, Zenon
<1>5. /\ tally \in [Counts -> Nat] /\ tally["failed"] = 0 /\ tally["timedOut"] = 0
      /\ tally["completed"] \in Nat
  BY CountNames, Zenon DEF WsInv, Tallied, WsTypes
<1>6. CASE period = "preflight"
  <2>1. frames = IF reusable THEN 2 ELSE 1
    <3>1. Taken = (IF reusable THEN 1 ELSE 0) + 1  BY <1>6, Zenon DEF Taken
    <3> QED BY <3>1, <1>3, SMT
  <2>2. CASE env.validationOnly \/ ~(env.profile /\ env.timeout = operationTimeout)
    <3>1. /\ pc' = "exit" /\ (exitCode' = 0 \/ exitCode' = 2) /\ toClient' = << >>
          /\ server' = "none" /\ opLeft' = 0 /\ serverLeft' = 0 /\ period' = period
          /\ tally' = tally /\ phaseLeft' = phaseLeft /\ frames' = frames /\ exact' = exact
      BY <1>6, <2>2, Zenon DEF OperationDone, Exit, Hangup
    <3>2. AcceptedIsOneToOne'
      <4>1. frames' = (IF period' = "preflight" THEN 1 ELSE tally'["completed"])
                      + (IF reusable' THEN 1 ELSE 0)
        <5>1. frames = 1 + (IF reusable THEN 1 ELSE 0)  BY <2>1, SMT
        <5> QED BY <1>4, <1>6, <3>1, <5>1, Zenon
      <4> QED BY <1>3, <1>6, <3>1, <4>1, Zenon DEF AcceptedIsOneToOne
    <3>3. PackagedPairPasses'
      <4>1. exitCode' # 1  BY <3>1, SMT
      <4> QED BY <4>1, Zenon DEF PackagedPairPasses
    <3> QED BY <1>1, <3>1, <3>2, <3>3, Ended, Zenon
  <2>3. CASE ~env.validationOnly /\ env.profile /\ env.timeout = operationTimeout
    <3>1. StartPhase("warmup") /\ exitCode' = exitCode
      BY <1>6, <2>3, Zenon DEF OperationDone
    <3>2. "warmup" \in Phases  BY Zenon DEF Phases
    <3> QED BY <1>1, <1>2, <3>1, <3>2, StartPhaseInv, Zenon
  <2> QED BY <2>2, <2>3, Zenon
<1>7. CASE period # "preflight"
  <2>1. /\ tally' = IF reusable THEN tally
                    ELSE [tally EXCEPT !["completed"] = @ + 1, !["opened"] = @ + 1]
        /\ pc' = IF reusable THEN "phaseDone" ELSE "loop"
        /\ toServer' = << >> /\ toClient' = << >> /\ server' = "none" /\ tlsProof' = TRUE
        /\ opLeft' = 0 /\ serverLeft' = 0 /\ period' = period /\ exitCode' = exitCode
        /\ phaseLeft' = phaseLeft /\ frames' = frames /\ exact' = exact
    BY <1>7, Zenon DEF OperationDone, Hangup
  <2>2. period \in Phases  BY <1>7, Zenon DEF WsInv, WsTypes
  <2>3. frames = tally["completed"] + 1
    BY <1>3, <1>7, Zenon DEF Taken
  <2>4. << >> \in Seq(Sent') /\ 0 \in Nat  BY SMT
  <2>5. CASE reusable
    <3>1. tally' = tally /\ pc' = "phaseDone"  BY <2>1, <2>5, Zenon
    <3>2. tally["opened"] = 1 /\ tally["completed"] > 0
      BY <2>2, <2>5, Zenon DEF WsInv, Tallied
    <3>3. WsTypes'  BY <1>1, <2>1, <2>4, <3>1, Zenon DEF WsInv, WsTypes
    <3>4. Place' /\ ~InCall'
      BY <1>2, <2>1, <2>2, <3>1, Zenon DEF WsInv, Place, InCall, Waits
    <3>5. Tallied'  BY <1>4, <2>1, <2>5, <3>1, <3>2, Zenon DEF Tallied
    <3>6. Accounted' /\ PackagedWs'  BY <3>4, Zenon DEF Accounted, PackagedWs
    <3>7. PackagedTime'  BY <1>5, <3>1, <3>4, Zenon DEF PackagedTime
    <3>8. AcceptedIsOneToOne'
      <4>1. frames' = (IF period' = "preflight" THEN 1 ELSE tally'["completed"])
                      + (IF reusable' THEN 1 ELSE 0)
        BY <1>4, <1>7, <2>1, <2>3, <2>5, <3>1, Zenon
      <4>2. tally'["opened"] = IF reusable' THEN 1 ELSE tally'["completed"]
        BY <1>4, <2>5, <3>1, <3>2, Zenon
      <4> QED BY <1>3, <2>1, <4>1, <4>2, Zenon DEF AcceptedIsOneToOne
    <3>9. PackagedPairPasses'  BY <1>2, <2>1, WsNumbers, Zenon DEF PackagedPairPasses
    <3> QED BY <3>3, <3>4, <3>5, <3>6, <3>7, <3>8, <3>9, Zenon DEF WsInv
  <2>6. CASE ~reusable
    <3>1. tally' = [tally EXCEPT !["completed"] = @ + 1, !["opened"] = @ + 1] /\ pc' = "loop"
      BY <2>1, <2>6, Zenon
    <3>2. /\ tally' \in [Counts -> Nat] /\ tally'["failed"] = 0 /\ tally'["timedOut"] = 0
          /\ tally'["completed"] = tally["completed"] + 1 /\ tally'["completed"] # 0
          /\ tally'["opened"] = tally["opened"] + 1
      BY <1>5, <3>1, SMT DEF Counts
    <3>3. tally'["opened"] = tally'["completed"]
      <4>1. tally["opened"] = tally["completed"]  BY <2>2, <2>6, Zenon DEF WsInv, Tallied
      <4> QED BY <3>2, <4>1, Zenon
    <3>4. WsTypes'  BY <1>1, <2>1, <2>4, <3>1, <3>2, Zenon DEF WsInv, WsTypes
    <3>5. Place'  BY <1>2, <2>1, <2>2, <3>1, Zenon DEF WsInv, Place
    <3>6. Tallied'  BY <1>4, <2>1, <2>6, <3>1, <3>2, <3>3, Zenon DEF Tallied
    <3>7. Accounted'
      <4>1. Len(toClient') = 0 /\ FramesWait'
        <5>1. toClient' = << >> => Len(toClient') = 0 /\ 1..Len(toClient') = {}  BY SMT
        <5> QED BY <2>1, <5>1, Zenon DEF FramesWait
      <4>2. Taken' = tally'["completed"] + 0
        <5>1. period' # "preflight" /\ pc' # "eof"  BY <1>7, <2>1, <3>1, Zenon
        <5> QED BY <5>1, Zenon DEF Taken
      <4>3. frames' = Taken' + Len(toClient')
        BY <1>5, <2>1, <2>3, <3>2, <4>1, <4>2, SMT
      <4> QED BY <1>3, <2>1, <3>1, <4>1, <4>3, Zenon DEF Accounted
    <3>8. PackagedWs'  BY <1>4, <2>1, <2>6, <3>1, Zenon DEF PackagedWs, Exchange
    <3>9. PackagedTime'
      <4>1. SUFFICES ASSUME peer = "packaged", env.timeout = operationTimeout PROVE InTime'
        BY <1>1, <3>1, Zenon DEF PackagedTime
      <4>2. opLeft' <= 2  BY <2>1, SMT
      <4> QED BY <1>4, <2>1, <2>6, <3>1, <4>2, Zenon DEF InTime, ClosedEarly
    <3>10. AcceptedIsOneToOne' /\ PackagedPairPasses'
      <4>1. exitCode' = NoExit /\ pc' # "phaseDone"  BY <1>2, <2>1, <3>1, Zenon
      <4> QED BY <4>1, GoesOn, Zenon
    <3> QED BY <3>4, <3>5, <3>6, <3>7, <3>8, <3>9, <3>10, Zenon DEF WsInv
  <2> QED BY <2>5, <2>6, Zenon
<1> QED BY <1>6, <1>7, Zenon

(* The close handshake, down to the end of the stream, keeps the            *)
(* invariant.                                                               *)
LEMMA CloseInv == WsInv /\ CloseCleanly => WsInv'
<1> SUFFICES ASSUME WsInv, CloseCleanly PROVE WsInv'  OBVIOUS
<1>1. pc \in {"closing", "eof"} /\ opLeft > 0  BY Zenon DEF CloseCleanly
<1>2. InCall /\ exitCode = NoExit /\ pc \in Waits
  BY <1>1, Zenon DEF InCall, Waits, WsInv, Place
<1>t. WsTypes  BY Zenon DEF WsInv
<1>3. CASE pc = "closing" /\ toClient # << >>
           /\ ~(Head(toClient).type = "frame" /\ closeEcho(Head(toClient)))
  <2>1. Fail(FALSE)  BY <1>3, Zenon DEF CloseCleanly
  <2>2. peer # "packaged"
    <3>1. SUFFICES ASSUME peer = "packaged" PROVE FALSE  OBVIOUS
    <3>2. tlsProof /\ toClient = << RightClose >>
      BY <1>2, <1>3, <3>1, Zenon DEF WsInv, PackagedWs, Exchange
    <3>3. Head(toClient) = RightClose  BY <3>2, One, Zenon
    <3> QED BY <1>3, <1>t, <3>2, <3>3, RightIsAccepted, Zenon
  <2> QED BY <1>2, <2>1, <2>2, FailInv, Zenon
<1>4. CASE pc = "eof" /\ (toClient # << >> \/ server = "reset")
  <2>1. Fail(FALSE)  BY <1>4, Zenon DEF CloseCleanly
  <2>2. peer # "packaged"  BY <1>2, <1>4, Zenon DEF WsInv, PackagedWs, Exchange
  <2> QED BY <1>2, <2>1, <2>2, FailInv, Zenon
<1>5. CASE pc = "eof" /\ toClient = << >> /\ server # "reset"
  <2>1. server = "closed" /\ OperationDone  BY <1>5, Zenon DEF CloseCleanly
  <2> QED BY <1>5, <2>1, OperationDoneInv, Zenon
<1>6. CASE pc = "closing" /\ toClient # << >>
           /\ Head(toClient).type = "frame" /\ closeEcho(Head(toClient))
  <2>1. /\ env' = env /\ peer' = peer /\ period' = period /\ toClient' = Tail(toClient)
        /\ pc' = "eof" /\ tally' = tally /\ toServer' = toServer
        /\ exitCode' = exitCode /\ server' = server /\ tlsProof' = tlsProof
        /\ opLeft' = opLeft /\ phaseLeft' = phaseLeft /\ serverLeft' = serverLeft
        /\ frames' = frames /\ exact' = exact /\ late' = late
    BY <1>6, Zenon DEF CloseCleanly, history
  <2>2. reusable' = reusable  BY <2>1, SameLoad, Zenon
  <2>3. toClient' \in Seq(Sent')  BY <1>6, <1>t, <2>1, Popped, Zenon
  <2>4. WsTypes'  BY <2>1, <2>3, Zenon DEF WsInv, WsTypes, Waits
  <2>5. Place'  BY <1>2, <2>1, Zenon DEF WsInv, Place
  <2>6. Tallied'  BY <1>6, <2>1, <2>2, Zenon DEF WsInv, Tallied
  <2>7. Accounted'
    <3>1. SUFFICES ASSUME server # "reset"
                   PROVE  /\ exact' \/ WrongWaits'
                          /\ FramesWait' /\ frames' = Taken' + Len(toClient')
                          /\ server' \notin {"backlog", "opening"}
      BY <2>1, Zenon DEF Accounted
    <3>2. /\ exact \/ WrongWaits
          /\ FramesWait /\ frames = Taken + Len(toClient)
          /\ server \notin {"backlog", "opening"}
      BY <1>2, <1>6, <3>1, Zenon DEF WsInv, Accounted
    <3>3. Head(toClient) \in RightFrames
      <4>1. Head(toClient) \in SentFrames  BY <1>6, <1>t, <2>1, <3>2, Popped, Zenon DEF FramesWait
      <4> QED BY <1>6, <1>t, <4>1, WrongIsNoticed, Zenon
    <3>4. /\ FramesWait' /\ Len(toClient) = Len(toClient') + 1
          /\ Len(toClient') \in Nat /\ (WrongWaits => WrongWaits')
      BY <1>6, <1>t, <2>1, <3>2, <3>3, TookFrame, Zenon
    <3>5. Taken' = Taken + 1
      <4> DEFINE part == IF period = "preflight" THEN IF reusable THEN 1 ELSE 0
                         ELSE tally["completed"]
      <4>1. part \in Nat
        <5>1. tally["completed"] \in Nat  BY <1>t, CountNames, Zenon DEF WsTypes
        <5> QED BY <5>1, SMT
      <4>2. Taken = part + 0 /\ Taken' = part + 1
        BY <1>6, <2>1, <2>2, Zenon DEF Taken
      <4> QED BY <4>1, <4>2, SMT
    <3>6. frames = Taken' + Len(toClient')
      <4>1. Taken \in Nat  BY <1>t, TakenIsNat, Zenon
      <4> QED BY <4>1, <3>2, <3>4, <3>5, SMT
    <3> QED BY <2>1, <3>2, <3>4, <3>6, Zenon
  <2>8. ASSUME peer = "packaged"
        PROVE  tlsProof /\ toServer = << >> /\ toClient' = << >> /\ server = "closed"
    <3>1. tlsProof /\ toServer = << >> /\ toClient = << RightClose >> /\ server = "closed"
      BY <1>2, <1>6, <2>8, Zenon DEF WsInv, PackagedWs, Exchange
    <3> QED BY <2>1, <3>1, One, Zenon
  <2>9. PackagedWs'  BY <2>1, <2>8, Zenon DEF PackagedWs, Exchange
  <2>10. PackagedTime'
    <3>1. SUFFICES ASSUME peer = "packaged", env.timeout = operationTimeout PROVE InTime'
      BY <2>1, Zenon DEF PackagedTime
    <3>2. InTime  BY <1>2, <3>1, Zenon DEF WsInv, PackagedTime
    <3> QED BY <2>1, <2>8, <3>1, <3>2, Zenon DEF InTime, ClosedEarly
  <2>11. AcceptedIsOneToOne' /\ PackagedPairPasses'
    <3>1. exitCode' = NoExit /\ pc' # "phaseDone"  BY <1>2, <2>1, Zenon
    <3> QED BY <3>1, GoesOn, Zenon
  <2> QED BY <2>4, <2>5, <2>6, <2>7, <2>9, <2>10, <2>11, Zenon DEF WsInv
<1>7. toClient # << >> \/ pc = "eof"  BY Zenon DEF CloseCleanly
<1> QED BY <1>1, <1>3, <1>4, <1>5, <1>6, <1>7, Zenon

(* With the packaged target no connection ends where an answer is due. *)
LEMMA LostInv == WsInv /\ ConnectionLost => WsInv'
<1> SUFFICES ASSUME WsInv, ConnectionLost PROVE WsInv'  OBVIOUS
<1>1. /\ pc \in Waits /\ pc # "eof" /\ opLeft > 0 /\ toClient = << >>
      /\ server \in {"closed", "reset"} /\ Fail(FALSE)
  BY Zenon DEF ConnectionLost
<1>2. ASSUME peer = "packaged", env.timeout = operationTimeout PROVE FALSE
  <2>1. InCall  BY <1>1, Zenon DEF InCall
  <2>2. Exchange /\ InTime  BY <1>2, <2>1, Zenon DEF WsInv, PackagedWs, PackagedTime
  <2>3. << RightClose >> # << >> /\ << RightEcho >> # << >> /\ << RightResponse >> # << >>
    BY One, Zenon
  <2>4. server = "closed" /\ ~(pc = "closing" /\ toServer = << >>)
    <3>1. server # "reset"  BY <2>2, Zenon DEF Exchange
    <3>2. ~(pc = "closing" /\ toServer = << >>)
      <4>1. << CloseFrame >> # << >>  BY One, Zenon
      <4> QED BY <1>1, <2>2, <2>3, <4>1, Zenon DEF Exchange
    <3> QED BY <1>1, <3>1, <3>2, Zenon
  <2>5. opLeft = 0  BY <1>1, <2>2, <2>4, Zenon DEF InTime, ClosedEarly
  <2> QED BY <1>1, <2>5, SMT
<1> QED BY <1>1, <1>2, FailInv, Zenon

(* The operation's deadline passes: the invariant is kept. *)
LEMMA DeadlineInv == WsInv /\ DeadlineExceeded => WsInv'
BY FailInv, Zenon DEF DeadlineExceeded

(* main judges a phase and goes on or exits: the invariant is kept. *)
LEMMA PhaseDoneInv == WsInv /\ PhaseDone => WsInv'
<1> SUFFICES ASSUME WsInv, PhaseDone PROVE WsInv'  OBVIOUS
<1>1. pc = "phaseDone" /\ env' = env /\ peer' = peer /\ late' = late  BY Zenon DEF PhaseDone
<1>2. /\ period \in Phases /\ exitCode = NoExit /\ server = "none" /\ toClient = << >>
      /\ period # "preflight"
  BY <1>1, Zenon DEF WsInv, Place, Phases
<1> DEFINE bad == tally["failed"] # 0 \/ tally["timedOut"] # 0 \/ tally["completed"] = 0
<1>3. CASE bad
  <2>1. /\ pc' = "exit" /\ period' = period /\ tally' = tally /\ toClient' = toClient
        /\ server' = server /\ opLeft' = opLeft /\ serverLeft' = serverLeft
        /\ phaseLeft' = phaseLeft /\ frames' = frames /\ exact' = exact
    BY <1>3, Zenon DEF PhaseDone, Exit, connection
  <2>2. AcceptedIsOneToOne'
    BY <1>2, <2>1, Zenon DEF AcceptedIsOneToOne, accepted
  <2>3. PackagedPairPasses'
    <3>1. SUFFICES ASSUME peer = "packaged", env.timeout = operationTimeout, ~late PROVE FALSE
      BY <1>1, Zenon DEF PackagedPairPasses
    <3>2. tally["failed"] = 0 /\ tally["timedOut"] = 0
      BY <1>1, <3>1, Zenon DEF WsInv, PackagedTime
    <3>3. tally["completed"] > 0  BY <1>1, <3>2, Zenon DEF WsInv, Tallied
    <3>4. tally["completed"] # 0  BY <3>3, SMT
    <3> QED BY <1>3, <3>2, <3>4, Zenon
  <2> QED BY <1>1, <1>2, <2>1, <2>2, <2>3, Ended, Zenon
<1>4. CASE ~bad /\ period = "warmup"
  <2>1. StartPhase("measured") /\ exitCode' = exitCode  BY <1>4, Zenon DEF PhaseDone
  <2>2. "measured" \in Phases  BY Zenon DEF Phases
  <2> QED BY <1>1, <1>2, <2>1, <2>2, StartPhaseInv, Zenon
<1>5. CASE ~bad /\ period # "warmup"
  <2>1. /\ pc' = "exit" /\ exitCode' = 0 /\ period' = period /\ tally' = tally
        /\ toClient' = toClient
        /\ server' = server /\ opLeft' = opLeft /\ serverLeft' = serverLeft
        /\ phaseLeft' = phaseLeft /\ frames' = frames /\ exact' = exact
    BY <1>5, Zenon DEF PhaseDone, Exit, connection
  <2>2. AcceptedIsOneToOne'
    BY <1>2, <2>1, Zenon DEF AcceptedIsOneToOne, accepted
  <2>3. PackagedPairPasses'
    <3>1. exitCode' # 1  BY <2>1, SMT
    <3> QED BY <3>1, Zenon DEF PackagedPairPasses
  <2> QED BY <1>1, <1>2, <2>1, <2>2, <2>3, Ended, Zenon
<1> QED BY <1>3, <1>4, <1>5, Zenon

(* The packaged target accepts a connection: the invariant is kept. *)
LEMMA AcceptInv == WsInv /\ Accept => WsInv'
<1> SUFFICES ASSUME WsInv, Accept PROVE WsInv'  OBVIOUS
<1>1. /\ server = "backlog" /\ server' = "opening" /\ env' = env /\ peer' = peer
      /\ pc' = pc /\ period' = period /\ tally' = tally /\ exitCode' = exitCode
      /\ opLeft' = opLeft /\ phaseLeft' = phaseLeft /\ toServer' = toServer
      /\ toClient' = toClient /\ frames' = frames /\ exact' = exact /\ late' = late
      /\ serverLeft' = IF peer = "packaged" THEN connectionDeadline ELSE 0
      /\ peer = "packaged" => tlsProof' = TRUE
  BY Zenon DEF Accept, executor, history
<1>2. reusable' = reusable /\ Sent' = Sent /\ Request' = Request  BY <1>1, SameLoad, Zenon
<1>3. InCall /\ ~(pc = "loop" /\ ~reusable)
  BY <1>1, Zenon DEF WsInv, WsTypes, Place, InCall
<1>4. pc \in {"dial", "upgrade"} /\ toClient = << >>
  BY <1>1, <1>3, Zenon DEF WsInv, Accounted
<1>5. serverLeft' \in Nat /\ (peer = "packaged" => serverLeft' = 12)
  BY <1>1, WsTimes, SMT
<1>6. WsTypes'  BY <1>1, <1>2, <1>5, Zenon DEF WsInv, WsTypes
<1>7. Place'  BY <1>1, <1>4, Zenon DEF WsInv, Place
<1>8. Tallied'  BY <1>1, <1>2, Zenon DEF WsInv, Tallied
<1>9. Accounted'
  <2>1. Taken' = Taken  BY <1>1, <1>2, Zenon DEF Taken
  <2>2. exact /\ FramesWait /\ frames = Taken + Len(toClient)
    BY <1>1, <1>3, <1>4, NothingWaits, Zenon DEF WsInv, Accounted
  <2> QED BY <1>1, <1>4, <2>1, <2>2, QueueKept, Zenon DEF Accounted
<1>10. PackagedWs'
  <2>1. SUFFICES ASSUME peer = "packaged" PROVE tlsProof' /\ Exchange'
    BY <1>1, Zenon DEF PackagedWs
  <2>2. Exchange  BY <1>3, <2>1, Zenon DEF WsInv, PackagedWs
  <2> QED BY <1>1, <1>2, <1>4, <2>1, <2>2, Zenon DEF Exchange
<1>11. PackagedTime'
  <2>1. SUFFICES ASSUME peer = "packaged", env.timeout = operationTimeout PROVE InTime'
    BY <1>1, <1>4, Zenon DEF PackagedTime
  <2>2. opLeft <= 2  BY <1>3, <2>1, Zenon DEF WsInv, PackagedTime, InTime
  <2>3. serverLeft' >= opLeft + 6 /\ serverLeft' >= opLeft + 4 /\ serverLeft' >= opLeft
    <3>1. opLeft \in Nat  BY Zenon DEF WsInv, WsTypes
    <3> QED BY <1>5, <2>1, <2>2, <3>1, SMT
  <2>4. Needs'  BY <1>1, <1>4, <2>3, Zenon DEF Needs
  <2> QED BY <1>1, <1>4, <2>2, <2>4, Zenon DEF InTime, ClosedEarly
<1>12. AcceptedIsOneToOne' /\ PackagedPairPasses'
  <2>1. exitCode' = NoExit /\ pc' # "phaseDone"  BY <1>1, <1>4, Zenon DEF WsInv, Place
  <2> QED BY <2>1, GoesOn, Zenon
<1> QED BY <1>6, <1>7, <1>8, <1>9, <1>10, <1>11, <1>12, Zenon DEF WsInv

(* What the steps of a peer leave alone. *)
LEMMA PeerFrame ==
  ASSUME WsInv, env' = env, peer' = peer, pc' = pc, period' = period, tally' = tally,
         exitCode' = exitCode, opLeft' = opLeft, phaseLeft' = phaseLeft, late' = late,
         server # "none"
  PROVE  /\ InCall /\ InCall' /\ ~(pc = "loop" /\ ~reusable)
         /\ Place' /\ Tallied' /\ Taken' = Taken
         /\ AcceptedIsOneToOne' /\ PackagedPairPasses'
<1>1. reusable' = reusable  BY SameLoad, Zenon
<1>2. pc \notin {"gate", "phaseDone", "exit"} /\ ~(pc = "loop" /\ ~reusable)
  BY Zenon DEF WsInv, Place
<1>3. InCall /\ InCall'  BY <1>2, Zenon DEF WsInv, WsTypes, InCall
<1>4. Place'  BY <1>1, <1>2, Zenon DEF WsInv, Place
<1>5. Tallied'  BY <1>1, Zenon DEF WsInv, Tallied
<1>6. Taken' = Taken  BY <1>1, Zenon DEF Taken
<1>7. exitCode' = NoExit /\ pc' # "phaseDone"  BY <1>2, Zenon DEF WsInv, Place
<1> QED BY <1>2, <1>3, <1>4, <1>5, <1>6, <1>7, GoesOn, Zenon

(* The packaged target answers one request or frame: the invariant is       *)
(* kept.                                                                    *)
LEMMA HandleInv == WsInv /\ HandleConnection => WsInv'
<1> SUFFICES ASSUME WsInv, HandleConnection PROVE WsInv'  OBVIOUS
<1> DEFINE answer == IF server = "opening" THEN UpgradeAnswer(Head(toServer))
                     ELSE FrameAnswer(Head(toServer))
           ends == \/ answer = Refused
                   \/ answer.type = "response" /\ ~answer.right
                   \/ Head(toServer).type = "frame" /\ Head(toServer).opcode = "close"
<1>1. /\ peer = "packaged" /\ server \in {"opening", "frames"} /\ toServer # << >>
      /\ env' = env /\ peer' = peer /\ pc' = pc /\ period' = period /\ tally' = tally
      /\ exitCode' = exitCode /\ opLeft' = opLeft /\ phaseLeft' = phaseLeft
      /\ tlsProof' = tlsProof /\ serverLeft' = serverLeft /\ exact' = exact /\ late' = late
      /\ toServer' = Tail(toServer)
  BY Zenon DEF HandleConnection, executor
<1>2. /\ server' = IF ends THEN "closed" ELSE "frames"
      /\ toClient' = IF answer = Refused THEN toClient ELSE Append(toClient, answer)
      /\ frames' = IF answer.type = "frame" THEN frames + 1 ELSE frames
  BY Zenon DEF HandleConnection, UpgradeAnswer, FrameAnswer
<1> HIDE DEF answer, ends
<1>3. /\ InCall /\ InCall' /\ ~(pc = "loop" /\ ~reusable)
      /\ Place' /\ Tallied' /\ Taken' = Taken
      /\ AcceptedIsOneToOne' /\ PackagedPairPasses'
  <2>1. server # "none"  BY <1>1, Zenon
  <2> QED BY <1>1, <2>1, PeerFrame, Zenon
<1>4. WsTypes /\ tlsProof /\ Exchange  BY <1>1, <1>3, Zenon DEF WsInv, PackagedWs
<1>5. /\ reusable' = reusable /\ RightResponse' = RightResponse /\ RightEcho' = RightEcho
      /\ RightClose' = RightClose
  BY <1>1, SameLoad, Zenon DEF RightClose
<1>6. \/ pc = "upgrade" /\ toServer = << Request >> /\ server = "opening"
      \/ pc = "echo" /\ toServer = << RequestFrame >> /\ server = "frames"
      \/ pc = "closing" /\ toServer = << CloseFrame >> /\ server = "frames"
  BY <1>1, <1>4, Zenon DEF Exchange
<1>7. toClient = << >>
  <2>1. << Request >> # << >> /\ << RequestFrame >> # << >> /\ << CloseFrame >> # << >>
    BY One, Zenon
  <2> QED BY <1>4, <1>6, <2>1, Zenon DEF Exchange
<1>8. toServer' = << >>  BY <1>1, <1>6, One, Zenon
<1>9. exact /\ frames = Taken
  <2>1. server # "reset"  BY <1>1, Zenon
  <2> QED BY <1>3, <1>7, <2>1, AllTaken, Zenon
<1>10. Len(toClient) = 0 /\ FramesWait  BY <1>7, NothingWaits, Zenon
<1>11. frames \in Nat  BY <1>4, Zenon DEF WsTypes
<1>12. ASSUME env.timeout = operationTimeout, server' \in {"frames", "closed"},
              server' = "closed" => pc = "closing"
       PROVE  PackagedTime'
  <2>1. InTime  BY <1>1, <1>3, <1>12, Zenon DEF WsInv, PackagedTime
  <2>2. Needs  BY <1>1, <2>1, Zenon DEF InTime
  <2>3. Needs'  BY <1>1, <2>2, Zenon DEF Needs
  <2>4. ~ClosedEarly'  BY <1>1, <1>8, <1>12, Zenon DEF ClosedEarly
  <2>5. InTime'  BY <1>1, <1>5, <2>1, <2>3, <2>4, Zenon DEF InTime
  <2>6. pc' # "phaseDone"  BY <1>1, <1>6, Zenon
  <2> QED BY <2>5, <2>6, Zenon DEF PackagedTime
<1>13. env.timeout # operationTimeout => PackagedTime'  BY <1>1, Zenon DEF PackagedTime
<1>r. Refused.type = "refused"  BY Zenon DEF Refused
<1>14. CASE pc = "upgrade"
  <2>1. toServer = << Request >> /\ server = "opening" /\ Head(toServer) = Request
    BY <1>6, <1>14, One, Zenon
  <2>2. answer = RightResponse  BY <1>4, <2>1, RightAnswers, Zenon DEF answer
  <2>3. RightResponse \in Responses /\ RightResponse.type = "response"
        /\ RightResponse.right = TRUE
    BY <1>4, RightIsAccepted, Zenon
  <2>4. answer # Refused /\ answer.type # "frame" /\ ~ends
    <3>1. Request.type = "request"  BY Zenon DEF Request
    <3> QED BY <1>r, <2>1, <2>2, <2>3, <3>1, Zenon DEF ends
  <2>5. server' = "frames" /\ toClient' = Append(toClient, RightResponse) /\ frames' = frames
    BY <1>2, <2>2, <2>4, Zenon
  <2>6. /\ ResponseWaits' /\ toClient' \in Seq(Sent') /\ Len(toClient') = Len(toClient) + 1
    BY <1>1, <1>4, <1>10, <2>3, <2>5, AddedResponse, Zenon
  <2>7. toClient' = << RightResponse >>  BY <1>7, <2>5, One, Zenon
  <2>8. WsTypes'  BY <1>1, <2>5, <2>6, Zenon DEF WsInv, WsTypes
  <2>9. Accounted'
    <3>1. frames' + 1 = Taken' + Len(toClient')
      BY <1>3, <1>9, <1>10, <1>11, <2>5, <2>6, SMT
    <3> QED BY <1>1, <1>9, <1>14, <2>5, <2>6, <3>1, Zenon DEF Accounted
  <2>10. PackagedWs'
    BY <1>1, <1>4, <1>5, <1>8, <1>14, <2>5, <2>7, Zenon DEF PackagedWs, Exchange
  <2>11. PackagedTime'  BY <1>12, <1>13, <2>5, Zenon
  <2> QED BY <1>3, <2>8, <2>9, <2>10, <2>11, Zenon DEF WsInv
<1>15. CASE pc \in {"echo", "closing"}
  <2> DEFINE reply == IF pc = "echo" THEN RightEcho ELSE RightClose
  <2>1. answer = reply /\ reply \in RightFrames /\ reply.type = "frame"
        /\ (ends <=> pc = "closing")
    <3>1. CASE pc = "echo"
      <4>1. Head(toServer) = RequestFrame /\ server = "frames" /\ reusable
        BY <1>6, <3>1, One, Zenon DEF WsInv, Place
      <4>2. answer = RightEcho  BY <1>4, <4>1, RightAnswers, Zenon DEF answer
      <4>3. RightEcho \in RightFrames /\ RightEcho.type = "frame"
        BY <1>4, <4>1, RightIsAccepted, Zenon
      <4>4. RequestFrame.opcode # "close"
        <5>1. RequestFrame.opcode = expectation.request
          BY SMT DEF RequestFrame, writeClientFrame, Frame
        <5> QED BY <1>4, <4>1, <5>1, Expectations, Zenon
      <4> QED BY <1>r, <3>1, <4>1, <4>2, <4>3, <4>4, Zenon DEF ends
    <3>2. CASE pc = "closing"
      <4>1. Head(toServer) = CloseFrame /\ server = "frames"
        BY <1>6, <3>2, One, Zenon
      <4>2. answer = RightClose  BY <1>4, <4>1, RightAnswers, Zenon DEF answer
      <4>3. RightClose \in RightFrames /\ RightClose.type = "frame"
        BY <1>4, <4>1, RightIsAccepted, Zenon
      <4>4. CloseFrame.type = "frame" /\ CloseFrame.opcode = "close"
        BY SMT DEF CloseFrame, writeClientFrame, Frame
      <4> QED BY <3>2, <4>1, <4>2, <4>3, <4>4, Zenon DEF ends
    <3> QED BY <1>15, <3>1, <3>2, Zenon
  <2> HIDE DEF reply
  <2>2. server' = (IF pc = "closing" THEN "closed" ELSE "frames")
        /\ toClient' = Append(toClient, reply) /\ frames' = frames + 1
    BY <1>2, <1>r, <2>1, Zenon
  <2>3. reply \in SentFrames  BY <2>1, SentKinds, Zenon
  <2>4. FramesWait' /\ toClient' \in Seq(Sent') /\ Len(toClient') = Len(toClient) + 1
    BY <1>1, <1>4, <1>10, <2>2, <2>3, AddedFrame, Zenon
  <2>5. toClient' = << reply >>  BY <1>7, <2>2, One, Zenon
  <2>6. WsTypes'
    <3>1. frames' \in Nat  BY <1>11, <2>2, SMT
    <3> QED BY <1>1, <2>2, <2>4, <3>1, Zenon DEF WsInv, WsTypes
  <2>7. Accounted'
    <3>1. frames' = Taken' + Len(toClient')
      BY <1>3, <1>9, <1>10, <1>11, <2>2, <2>4, SMT
    <3> QED BY <1>1, <1>9, <1>15, <2>2, <2>4, <3>1, Zenon DEF Accounted
  <2>8. PackagedWs'
    BY <1>1, <1>4, <1>5, <1>8, <1>15, <2>2, <2>5, Zenon DEF PackagedWs, Exchange, reply
  <2>9. PackagedTime'  BY <1>12, <1>13, <2>2, Zenon
  <2> QED BY <1>3, <2>6, <2>7, <2>8, <2>9, Zenon DEF WsInv
<1> QED BY <1>6, <1>14, <1>15, Zenon

(* The packaged target's connection deadline passes: the invariant is       *)
(* kept.                                                                    *)
LEMMA TargetDeadlineInv == WsInv /\ TargetDeadline => WsInv'
<1> SUFFICES ASSUME WsInv, TargetDeadline PROVE WsInv'  OBVIOUS
<1>1. /\ peer = "packaged" /\ server \in {"opening", "frames"} /\ serverLeft = 0
      /\ server' = "closed"
      /\ env' = env /\ peer' = peer /\ pc' = pc /\ period' = period /\ tally' = tally
      /\ exitCode' = exitCode /\ opLeft' = opLeft /\ phaseLeft' = phaseLeft
      /\ tlsProof' = tlsProof /\ serverLeft' = serverLeft /\ exact' = exact /\ late' = late
      /\ toServer' = toServer /\ toClient' = toClient /\ frames' = frames
  BY Zenon DEF TargetDeadline, executor, history
<1>2. /\ InCall /\ InCall' /\ ~(pc = "loop" /\ ~reusable)
      /\ Place' /\ Tallied' /\ Taken' = Taken
      /\ AcceptedIsOneToOne' /\ PackagedPairPasses'
  <2>1. server # "none"  BY <1>1, Zenon
  <2> QED BY <1>1, <2>1, PeerFrame, Zenon
<1>3. /\ reusable' = reusable /\ Sent' = Sent /\ RightResponse' = RightResponse
      /\ RightEcho' = RightEcho /\ Request' = Request /\ RequestFrame' = RequestFrame
      /\ CloseFrame' = CloseFrame
  BY <1>1, SameLoad, Zenon DEF CloseFrame
<1>4. WsTypes'  BY <1>1, <1>3, Zenon DEF WsInv, WsTypes
<1>5. Accounted'  BY <1>1, <1>2, QueueKept, Zenon DEF WsInv, Accounted
<1>6. PackagedWs'
  <2>1. tlsProof /\ Exchange  BY <1>1, <1>2, Zenon DEF WsInv, PackagedWs
  <2>2. Exchange'  BY <1>1, <1>2, <1>3, <2>1, Zenon DEF Exchange
  <2> QED BY <1>1, <2>1, <2>2, Zenon DEF PackagedWs
<1>7. PackagedTime'
  <2>1. SUFFICES ASSUME env.timeout = operationTimeout PROVE InTime'
    <3>1. pc' # "phaseDone"  BY <1>2, Zenon DEF InCall, Waits
    <3> QED BY <1>1, <3>1, Zenon DEF PackagedTime
  <2>2. InTime  BY <1>1, <1>2, <2>1, Zenon DEF WsInv, PackagedTime
  <2>3. opLeft = 0
    <3>1. serverLeft >= opLeft  BY <1>1, <2>2, Zenon DEF InTime, Needs
    <3>2. opLeft \in Nat  BY Zenon DEF WsInv, WsTypes
    <3> QED BY <1>1, <3>1, <3>2, SMT
  <2>4. pc # "loop"
    <3>1. ~(opLeft > 0)  BY <2>3, SMT
    <3> QED BY <1>2, <2>2, <3>1, Zenon DEF InTime
  <2>5. pc \in Waits  BY <1>2, <2>4, Zenon DEF InCall
  <2> QED BY <1>1, <1>3, <2>2, <2>3, <2>4, <2>5, Zenon DEF InTime
<1> QED BY <1>2, <1>4, <1>5, <1>6, <1>7, Zenon DEF WsInv

(* A server under test sends anything: the invariant is kept. *)
LEMMA ForeignSendsInv == WsInv /\ ForeignSends => WsInv'
<1> SUFFICES ASSUME WsInv, ForeignSends PROVE WsInv'  OBVIOUS
<1>1. /\ peer = "foreign" /\ server \in {"opening", "frames"}
      /\ env' = env /\ peer' = peer /\ pc' = pc /\ period' = period /\ tally' = tally
      /\ exitCode' = exitCode /\ opLeft' = opLeft /\ phaseLeft' = phaseLeft
      /\ serverLeft' = serverLeft /\ late' = late
  BY Zenon DEF ForeignSends, executor
<1>2. /\ InCall /\ Place' /\ Tallied' /\ Taken' = Taken
      /\ AcceptedIsOneToOne' /\ PackagedPairPasses'
  <2>1. server # "none"  BY <1>1, Zenon
  <2> QED BY <1>1, <2>1, PeerFrame, Zenon
<1>3. PackagedWs' /\ PackagedTime'  BY <1>1, Zenon DEF PackagedWs, PackagedTime
<1>4. WsTypes /\ server # "reset" /\ frames \in Nat /\ Taken \in Nat
  BY <1>1, TakenIsNat, Zenon DEF WsInv, WsTypes
<1>5. /\ exact \/ WrongWaits
      /\ \/ FramesWait /\ frames = Taken + Len(toClient)
         \/ /\ pc \in {"dial", "upgrade"} /\ server \notin {"backlog", "opening", "none"}
            /\ ResponseWaits /\ frames + 1 = Taken + Len(toClient)
      /\ pc \notin {"dial", "upgrade"} => server \notin {"backlog", "opening"}
  BY <1>2, <1>4, Zenon DEF WsInv, Accounted
<1>6. \/ /\ server = "opening" /\ server' = "frames" /\ frames' = frames /\ exact' = exact
         /\ \E r \in Responses : toClient' = Append(toClient, r)
      \/ /\ server' = server /\ frames' = frames + 1
         /\ \E f \in SentFrames : /\ toClient' = Append(toClient, f)
                                  /\ exact' = (exact /\ f \in RightFrames)
  <2>1. CASE \E ok, s, e \in BOOLEAN :
          /\ server = "opening" /\ toClient' = Append(toClient, Response(ok, s, e))
          /\ server' = "frames" /\ UNCHANGED << frames, exact >>
    <3>1. \A ok, s, e \in BOOLEAN : Response(ok, s, e) \in Responses  BY SMT DEF Responses
    <3> QED BY <2>1, <3>1, Zenon
  <2>2. CASE \E f \in RightFrames \cup UNION {Defects(g) : g \in RightFrames} :
          /\ toClient' = Append(toClient, f)
          /\ frames' = frames + 1 /\ exact' = (exact /\ f \in RightFrames)
          /\ UNCHANGED server
    BY <2>2, Zenon DEF SentFrames
  <2> QED BY <2>1, <2>2, Zenon DEF ForeignSends
<1>7. CASE /\ server = "opening" /\ server' = "frames" /\ frames' = frames /\ exact' = exact
           /\ \E r \in Responses : toClient' = Append(toClient, r)
  <2>1. PICK r \in Responses : toClient' = Append(toClient, r)  BY <1>7, Zenon
  <2>2. /\ FramesWait => ResponseWaits'
        /\ WrongWaits => WrongWaits'
        /\ toClient' \in Seq(Sent') /\ Len(toClient') = Len(toClient) + 1
        /\ Len(toClient) \in Nat
    BY <1>1, <1>4, <2>1, AddedResponse, Zenon
  <2>3. pc \in {"dial", "upgrade"} /\ FramesWait /\ frames = Taken + Len(toClient)
    BY <1>5, <1>7, Zenon
  <2>4. frames' + 1 = Taken' + Len(toClient')  BY <1>2, <1>4, <1>7, <2>2, <2>3, SMT
  <2>5. Accounted'  BY <1>1, <1>5, <1>7, <2>2, <2>3, <2>4, Zenon DEF Accounted
  <2>6. WsTypes'  BY <1>1, <1>7, <2>2, Zenon DEF WsInv, WsTypes
  <2> QED BY <1>2, <1>3, <2>5, <2>6, Zenon DEF WsInv
<1>8. CASE /\ server' = server /\ frames' = frames + 1
           /\ \E f \in SentFrames : /\ toClient' = Append(toClient, f)
                                    /\ exact' = (exact /\ f \in RightFrames)
  <2>1. PICK f \in SentFrames : /\ toClient' = Append(toClient, f)
                                /\ exact' = (exact /\ f \in RightFrames)
    BY <1>8, Zenon
  <2>2. /\ FramesWait => FramesWait'
        /\ ResponseWaits => ResponseWaits'
        /\ WrongWaits \/ f \notin RightFrames => WrongWaits'
        /\ toClient' \in Seq(Sent') /\ Len(toClient') = Len(toClient) + 1
        /\ Len(toClient) \in Nat
    BY <1>1, <1>4, <2>1, AddedFrame, Zenon
  <2>3. \/ FramesWait' /\ frames' = Taken' + Len(toClient')
        \/ /\ pc \in {"dial", "upgrade"} /\ server \notin {"backlog", "opening", "none"}
           /\ ResponseWaits' /\ frames' + 1 = Taken' + Len(toClient')
    <3>1. CASE FramesWait /\ frames = Taken + Len(toClient)
      <4>1. frames' = Taken' + Len(toClient')  BY <1>2, <1>4, <1>8, <2>2, <3>1, SMT
      <4> QED BY <2>2, <3>1, <4>1, Zenon
    <3>2. CASE /\ pc \in {"dial", "upgrade"} /\ server \notin {"backlog", "opening", "none"}
               /\ ResponseWaits /\ frames + 1 = Taken + Len(toClient)
      <4>1. frames' + 1 = Taken' + Len(toClient')  BY <1>2, <1>4, <1>8, <2>2, <3>2, SMT
      <4> QED BY <2>2, <3>2, <4>1, Zenon
    <3> QED BY <1>5, <3>1, <3>2, Zenon
  <2>4. exact' \/ WrongWaits'  BY <1>5, <2>1, <2>2, Zenon
  <2>5. Accounted'  BY <1>1, <1>5, <1>8, <2>3, <2>4, Zenon DEF Accounted
  <2>6. WsTypes'
    <3>1. frames' \in Nat  BY <1>4, <1>8, SMT
    <3>2. exact' \in BOOLEAN  BY <2>1, Zenon
    <3> QED BY <1>1, <1>8, <2>2, <3>1, <3>2, Zenon DEF WsInv, WsTypes
  <2> QED BY <1>2, <1>3, <2>5, <2>6, Zenon DEF WsInv
<1> QED BY <1>6, <1>7, <1>8, Zenon

(* A server under test ends the connection: the invariant is kept. *)
LEMMA ForeignEndsInv == WsInv /\ ForeignEnds => WsInv'
<1> SUFFICES ASSUME WsInv, ForeignEnds PROVE WsInv'  OBVIOUS
<1>1. /\ peer = "foreign" /\ server \in {"backlog", "opening", "frames"}
      /\ env' = env /\ peer' = peer /\ pc' = pc /\ period' = period /\ tally' = tally
      /\ exitCode' = exitCode /\ opLeft' = opLeft /\ phaseLeft' = phaseLeft
      /\ serverLeft' = serverLeft /\ late' = late /\ frames' = frames /\ exact' = exact
      /\ \/ server' = "closed" /\ toClient' = toClient
         \/ server' = "reset" /\ toClient' = << >>
  BY Zenon DEF ForeignEnds, executor, history
<1>2. /\ InCall /\ Place' /\ Tallied' /\ Taken' = Taken
      /\ AcceptedIsOneToOne' /\ PackagedPairPasses'
  <2>1. server # "none"  BY <1>1, Zenon
  <2> QED BY <1>1, <2>1, PeerFrame, Zenon
<1>3. PackagedWs' /\ PackagedTime'  BY <1>1, Zenon DEF PackagedWs, PackagedTime
<1>4. WsTypes'
  <2>1. << >> \in Seq(Sent')  BY SMT
  <2>2. Sent' = Sent  BY <1>1, SameLoad, Zenon
  <2>3. toClient' \in Seq(Sent')  BY <1>1, <2>1, <2>2, Zenon DEF WsInv, WsTypes
  <2>4. server' \in {"none", "backlog", "opening", "frames", "closed", "reset"}  BY <1>1, Zenon
  <2> QED BY <1>1, <2>3, <2>4, Zenon DEF WsInv, WsTypes
<1>5. Accounted'
  <2>1. CASE server' = "closed" /\ toClient' = toClient
    <3>1. server # "reset"  BY <1>1, Zenon
    <3> QED BY <1>1, <1>2, <2>1, <3>1, QueueKept, Zenon DEF WsInv, Accounted
  <2>2. CASE server' = "reset"  BY <2>2, Zenon DEF Accounted
  <2> QED BY <1>1, <2>1, <2>2, Zenon
<1> QED BY <1>2, <1>3, <1>4, <1>5, Zenon DEF WsInv

(* A timer runs down to zero and stays there. *)
LEMMA LessFacts ==
  \A n \in Nat : Less(n) \in Nat /\ Less(n) <= n /\ (Less(n) > 0 => Less(n) = n - 1)
                 /\ n <= Less(n) + 1
BY SMT DEF Less

(* Time passes: the invariant is kept. *)
LEMMA TickInv == WsInv /\ Tick => WsInv'
<1> SUFFICES ASSUME WsInv, Tick PROVE WsInv'  OBVIOUS
<1>1. /\ pc \in Waits /\ opLeft > 0 /\ opLeft' = opLeft - 1
      /\ phaseLeft' = Less(phaseLeft) /\ serverLeft' = Less(serverLeft)
      /\ env' = env /\ peer' = peer /\ pc' = pc /\ period' = period /\ tally' = tally
      /\ exitCode' = exitCode /\ toServer' = toServer /\ toClient' = toClient
      /\ server' = server /\ tlsProof' = tlsProof
      /\ frames' = frames /\ exact' = exact /\ late' = late
  BY Zenon DEF Tick, history
<1>2. /\ reusable' = reusable /\ Sent' = Sent /\ RightResponse' = RightResponse
      /\ RightEcho' = RightEcho /\ Request' = Request /\ RequestFrame' = RequestFrame
      /\ CloseFrame' = CloseFrame
  BY <1>1, SameLoad, Zenon DEF CloseFrame
<1>3. opLeft \in Nat /\ phaseLeft \in Nat /\ serverLeft \in Nat  BY Zenon DEF WsInv, WsTypes
<1>4. /\ opLeft' \in Nat /\ phaseLeft' \in Nat /\ serverLeft' \in Nat
      /\ phaseLeft' <= phaseLeft /\ serverLeft <= serverLeft' + 1
      /\ (phaseLeft' > 0 => phaseLeft' = phaseLeft - 1)
  <2>1. opLeft' \in Nat  BY <1>1, <1>3, SMT
  <2> QED BY <1>1, <1>3, <2>1, LessFacts, Zenon
<1>5. WsTypes'  BY <1>1, <1>2, <1>4, Zenon DEF WsInv, WsTypes
<1>6. Place'
  <2>1. period \in Phases => phaseLeft' <= 2
    <3>1. \A a, b \in Nat : a <= b /\ b <= 2 => a <= 2  BY SMT
    <3> QED BY <1>3, <1>4, <3>1, Zenon DEF WsInv, Place
  <2> QED BY <1>1, <1>2, <2>1, Zenon DEF WsInv, Place
<1>7. Tallied'
  <2>1. pc # "loop"  BY <1>1, Zenon DEF Waits
  <2> QED BY <1>1, <1>2, <2>1, Zenon DEF WsInv, Tallied
<1>8. InCall /\ InCall' /\ pc' # "phaseDone"  BY <1>1, Zenon DEF InCall, Waits
<1>9. Accounted'
  <2>1. Taken' = Taken  BY <1>1, <1>2, Zenon DEF Taken
  <2> QED BY <1>1, <1>8, <2>1, QueueKept, Zenon DEF WsInv, Accounted
<1>10. PackagedWs'
  <2>1. SUFFICES ASSUME peer = "packaged" PROVE tlsProof' /\ Exchange'
    BY <1>1, Zenon DEF PackagedWs
  <2>2. tlsProof /\ Exchange  BY <1>8, <2>1, Zenon DEF WsInv, PackagedWs
  <2>3. Exchange'  BY <1>1, <1>2, <2>2, Zenon DEF Exchange
  <2> QED BY <1>1, <2>2, <2>3, Zenon
<1>11. PackagedTime'
  <2>1. SUFFICES ASSUME peer = "packaged", env.timeout = operationTimeout PROVE InTime'
    BY <1>1, <1>8, Zenon DEF PackagedTime
  <2>2. InTime  BY <1>8, <2>1, Zenon DEF WsInv, PackagedTime
  <2>3. ASSUME Needs PROVE Needs'
    <3>1. ASSUME NEW k \in Nat, serverLeft >= opLeft + k PROVE serverLeft' >= opLeft' + k
      BY <1>1, <1>3, <1>4, <3>1, SMT
    <3>2. pc = "dial" => serverLeft' >= opLeft' + 6
      <4>1. 6 \in Nat  OBVIOUS
      <4> QED BY <2>3, <3>1, <4>1, Zenon DEF Needs
    <3>3. pc = "upgrade" => serverLeft' >= opLeft' + 4
      <4>1. 4 \in Nat  OBVIOUS
      <4> QED BY <2>3, <3>1, <4>1, Zenon DEF Needs
    <3>4. serverLeft' >= opLeft'
      <4>1. serverLeft >= opLeft  BY <2>3, Zenon DEF Needs
      <4> QED BY <1>1, <1>3, <1>4, <4>1, SMT
    <3>5. ASSUME pc \in {"loop", "echo"}, period \in Phases, phaseLeft' > 0
          PROVE  serverLeft' >= phaseLeft' + 2
      <4>1. phaseLeft' = phaseLeft - 1 /\ phaseLeft > 0  BY <1>3, <1>4, <3>5, SMT
      <4>2. serverLeft >= phaseLeft + 2  BY <2>3, <3>5, <4>1, Zenon DEF Needs
      <4>3. \A a, b, c \in Nat : a <= b + 1 /\ a >= c + 2 => b >= (c - 1) + 2  BY SMT
      <4> QED BY <1>3, <1>4, <4>1, <4>2, <4>3, Zenon
    <3> QED BY <1>1, <3>2, <3>3, <3>4, <3>5, Zenon DEF Needs
  <2>4. ~ClosedEarly'
    <3>1. opLeft # 0  BY <1>1, SMT
    <3>2. ~ClosedEarly  BY <2>2, <3>1, Zenon DEF InTime
    <3> QED BY <1>1, <3>2, Zenon DEF ClosedEarly
  <2>5. opLeft' <= 2
    <3>1. opLeft <= 2  BY <2>2, Zenon DEF InTime
    <3> QED BY <1>1, <1>3, <3>1, SMT
  <2>6. pc' # "loop"  BY <1>1, Zenon DEF Waits
  <2> QED BY <1>1, <2>2, <2>3, <2>4, <2>5, <2>6, Zenon DEF InTime
<1>12. AcceptedIsOneToOne' /\ PackagedPairPasses'
  <2>1. exitCode' = NoExit  BY <1>1, Zenon DEF WsInv, Place, Waits
  <2> QED BY <1>8, <2>1, GoesOn, Zenon
<1> QED BY <1>5, <1>6, <1>7, <1>9, <1>10, <1>11, <1>12, Zenon DEF WsInv

(* A step that changes nothing keeps the invariant. *)
LEMMA WsStutterInv == WsInv /\ UNCHANGED wsVars => WsInv'
<1> SUFFICES ASSUME WsInv, UNCHANGED wsVars PROVE WsInv'  OBVIOUS
<1>1. /\ env' = env /\ peer' = peer /\ pc' = pc /\ period' = period /\ tally' = tally
      /\ result' = result /\ exitCode' = exitCode /\ toServer' = toServer
      /\ toClient' = toClient /\ server' = server /\ tlsProof' = tlsProof
      /\ opLeft' = opLeft /\ phaseLeft' = phaseLeft /\ serverLeft' = serverLeft
      /\ frames' = frames /\ exact' = exact /\ late' = late
  BY Zenon DEF wsVars
<1>2. /\ reusable' = reusable /\ Sent' = Sent /\ RightResponse' = RightResponse
      /\ RightEcho' = RightEcho /\ Request' = Request /\ RequestFrame' = RequestFrame
      /\ CloseFrame' = CloseFrame
  BY <1>1, SameLoad, Zenon DEF CloseFrame
<1>3. WsTypes'  BY <1>1, <1>2, Zenon DEF WsInv, WsTypes
<1>4. Place' /\ Tallied'  BY <1>1, <1>2, Zenon DEF WsInv, Place, Tallied
<1>5. Accounted'
  <2>1. Taken' = Taken /\ InCall' = InCall  BY <1>1, <1>2, Zenon DEF Taken, InCall
  <2> QED BY <1>1, <2>1, QueueKept, Zenon DEF WsInv, Accounted
<1>6. PackagedWs'
  <2>1. Exchange => Exchange'  BY <1>1, <1>2, Zenon DEF Exchange
  <2> QED BY <1>1, <2>1, Zenon DEF WsInv, PackagedWs, InCall
<1>7. PackagedTime'
  <2>1. InTime => InTime'  BY <1>1, <1>2, Zenon DEF InTime, Needs, ClosedEarly
  <2> QED BY <1>1, <2>1, Zenon DEF WsInv, PackagedTime, InCall
<1>8. AcceptedIsOneToOne' /\ PackagedPairPasses'
  BY <1>1, <1>2, Zenon DEF WsInv, AcceptedIsOneToOne, accepted, PackagedPairPasses
<1> QED BY <1>3, <1>4, <1>5, <1>6, <1>7, <1>8, Zenon DEF WsInv

(* Every step of the executor, the server and the clock keeps the           *)
(* invariant.                                                               *)
LEMMA WsStep == WsInv /\ [WsNext]_wsVars => WsInv'
<1> SUFFICES ASSUME WsInv, [WsNext]_wsVars PROVE WsInv'  OBVIOUS
<1>1. CASE ExecutorStep
  BY <1>1, GateInv, OpenInv, ReadResponseInv, LoopInv, PerformInv, CloseInv, LostInv,
     DeadlineInv, PhaseDoneInv, Zenon DEF ExecutorStep
<1>2. CASE PeerStep
  BY <1>2, AcceptInv, HandleInv, TargetDeadlineInv, ForeignSendsInv, ForeignEndsInv, Zenon
  DEF PeerStep
<1>3. CASE Tick  BY <1>3, TickInv, Zenon
<1>4. CASE UNCHANGED wsVars  BY <1>4, WsStutterInv, Zenon
<1> QED BY <1>1, <1>2, <1>3, <1>4, Zenon DEF WsNext

(* AcceptedIsOneToOne holds for every number of rounds, both kinds of       *)
(* executor and whatever a server under test sends: a phase is only         *)
(* accepted when the frames taken are one for each operation, none left     *)
(* over and none wrong.                                                     *)
THEOREM WebSocketAcceptanceIsOneToOne == WsSpec => []AcceptedIsOneToOne
<1>1. WsInv => AcceptedIsOneToOne  BY Zenon DEF WsInv
<1> QED BY <1>1, WsInitInv, WsStep, PTL DEF WsSpec

(* PackagedPairPasses holds: with the operation timeout of the load an      *)
(* executor exits with code 1 against its packaged target only when one of  *)
(* its own deadlines passed.                                                *)
THEOREM PackagedWebSocketPairPasses == WsSpec => []PackagedPairPasses
<1>1. WsInv => PackagedPairPasses  BY Zenon DEF WsInv
<1> QED BY <1>1, WsInitInv, WsStep, PTL DEF WsSpec

-----------------------------------------------------------------------------
(***************************************************************************)
(* Proofs for H2WebSocketOperation, for every number of operations. The    *)
(* summary does not say how many operations were begun; OpCounts adds it,  *)
(* with the operation under way.                                           *)
(***************************************************************************)

(* The operations a summary has counted, however they ended. *)
Counted(s) == s["completed"] + s["failed"] + s["timedOut"]

(* The operation under way. *)
Running == IF stage = "idle" THEN 0 ELSE 1

(* The variables keep their types. *)
OpTypes ==
  /\ message \in BOOLEAN /\ validationOnly \in BOOLEAN /\ silent \in BOOLEAN
  /\ expired \in BOOLEAN
  /\ stage \in {"idle", "dial", "settings", "headers", "message", "close"}
  /\ mode \in {"start", "preflight", "warmup", "measured", "report", "exited"}
  /\ summary \in [Ends -> 0..MaxOps] /\ warmup \in [Ends -> 0..MaxOps]
  /\ validation \in {"none", "passed", "failed"} /\ exit \in {"none", "0", "1", "2", "3"}
  /\ begun \in 0..MaxOps /\ earned \in 0..MaxOps

(* Every operation that was begun is counted or under way, and the          *)
(* completed ones are those that earned it.                                 *)
OpCounts ==
  /\ mode # "exited" => exit = "none"
  /\ mode \in {"start", "report", "exited"} => stage = "idle"
  /\ stage # "idle" => right = TRUE
  /\ mode \in {"start", "preflight"} => begun = Running /\ earned = 0 /\ summary = emptySummary
  /\ mode \in {"warmup", "measured", "report"} =>
       Counted(summary) + Running = begun /\ earned = summary["completed"]

(* The inductive invariant. *)
OpInv == OpTypes /\ OpCounts /\ ExitZeroIsEarned

(* The summary a phase begins with. *)
LEMMA EmptySummaryType == emptySummary \in [Ends -> 0..MaxOps]
<1>1. 0 \in 0..MaxOps  BY OperationAssumption, SMT
<1> QED BY <1>1, Zenon DEF emptySummary

(* It counts nothing. *)
LEMMA EmptySummaryCounts == Counted(emptySummary) = 0 /\ emptySummary["completed"] = 0
BY SMT DEF Counted, emptySummary, Ends

(* The invariant holds before the preflight. *)
LEMMA OpInitInv == OperationInit => OpInv
<1> SUFFICES ASSUME OperationInit PROVE OpInv  OBVIOUS
<1>1. OpTypes
  <2>1. 0 \in 0..MaxOps  BY OperationAssumption, SMT
  <2> QED BY <2>1, EmptySummaryType, Zenon DEF OperationInit, OpTypes
<1>2. OpCounts  BY Zenon DEF OperationInit, OpCounts, Running
<1>3. ExitZeroIsEarned  BY Zenon DEF OperationInit, ExitZeroIsEarned
<1> QED BY <1>1, <1>2, <1>3 DEF OpInv

(* runOperation returns and is counted under its end: the invariant is      *)
(* kept, provided that a completed operation had only right answers.        *)
LEMMA ReturnInv ==
  ASSUME OpInv, stage # "idle", NEW end \in Ends, Return(end), right' = TRUE \/ end # "completed",
         UNCHANGED << message, validationOnly, silent, expired, warmup >>
  PROVE  OpInv'
<1>1. stage' = "idle" /\ Running' = 0  BY Zenon DEF Return, Running
<1>2. Running = 1  BY Zenon DEF Running
<1>3. mode \in {"preflight", "warmup", "measured"} /\ exit = "none"
  BY Zenon DEF OpInv, OpTypes, OpCounts
<1>t. summary \in [Ends -> 0..MaxOps] /\ begun \in 0..MaxOps /\ earned \in 0..MaxOps
      /\ MaxOps \in Nat
  BY OperationAssumption, Zenon DEF OpInv, OpTypes
<1>u. /\ message' \in BOOLEAN /\ validationOnly' \in BOOLEAN /\ silent' \in BOOLEAN
      /\ expired' \in BOOLEAN
      /\ stage' \in {"idle", "dial", "settings", "headers", "message", "close"}
      /\ warmup' \in [Ends -> 0..MaxOps]
  BY <1>1, Zenon DEF OpInv, OpTypes
<1>4. CASE mode = "preflight" /\ end # "completed"
  <2>1. /\ mode' = "exited" /\ validation' = "failed" /\ exit' = "1"
        /\ summary' = summary /\ begun' = begun /\ earned' = earned
    BY <1>4, Zenon DEF Return
  <2>2. OpTypes'  BY <2>1, <1>t, <1>u, Zenon DEF OpTypes
  <2>3. OpCounts'  BY <2>1, <1>1, Zenon DEF OpCounts
  <2>4. ExitZeroIsEarned'  BY <2>1, Zenon DEF ExitZeroIsEarned
  <2> QED BY <2>2, <2>3, <2>4, Zenon DEF OpInv
<1>5. CASE mode = "preflight" /\ end = "completed"
  <2>0. right' = TRUE /\ begun = 1  BY <1>5, <1>2, Zenon DEF OpInv, OpCounts
  <2>1. /\ mode' = IF validationOnly THEN "report" ELSE "warmup"
        /\ summary' = IF validationOnly THEN [emptySummary EXCEPT !["completed"] = 1]
                          ELSE emptySummary
        /\ begun' = IF validationOnly THEN begun ELSE 0
        /\ earned' = IF validationOnly THEN 1 ELSE 0
        /\ validation' = validation /\ exit' = exit
    BY <1>5, <2>0, Zenon DEF Return
  <2>2. OpTypes'
    <3>1. 0 \in 0..MaxOps /\ 1 \in 0..MaxOps  BY <1>t, <2>0, SMT
    <3>2. [emptySummary EXCEPT !["completed"] = 1] \in [Ends -> 0..MaxOps]
      BY <3>1, EmptySummaryType, Zenon
    <3>3. /\ mode' \in {"start", "preflight", "warmup", "measured", "report", "exited"}
          /\ summary' \in [Ends -> 0..MaxOps] /\ begun' \in 0..MaxOps /\ earned' \in 0..MaxOps
      BY <3>1, <3>2, <2>1, <2>0, EmptySummaryType, Zenon
    <3> QED BY <3>3, <2>1, <1>u, Zenon DEF OpTypes, OpInv
  <2>3. OpCounts'
    <3>1. CASE validationOnly
      <4>1. /\ mode' = "report" /\ summary' = [emptySummary EXCEPT !["completed"] = 1]
            /\ begun' = 1 /\ earned' = 1 /\ exit' = "none"
        BY <3>1, <2>0, <2>1, <1>3, Zenon
      <4>2. Counted([emptySummary EXCEPT !["completed"] = 1]) = 1
            /\ [emptySummary EXCEPT !["completed"] = 1]["completed"] = 1
        BY SMT DEF Counted, emptySummary, Ends
      <4>3. Counted(summary') + Running' = begun' /\ earned' = summary'["completed"]
        BY <4>1, <4>2, <1>1, SMT
      <4>4. Counted(summary)' = Counted(summary')  BY Zenon DEF Counted
      <4> QED BY <4>1, <4>3, <4>4, <1>1, Zenon DEF OpCounts
    <3>2. CASE ~validationOnly
      <4>1. /\ mode' = "warmup" /\ summary' = emptySummary
            /\ begun' = 0 /\ earned' = 0 /\ exit' = "none"
        BY <3>2, <2>0, <2>1, <1>3, Zenon
      <4>3. Counted(summary') + Running' = begun' /\ earned' = summary'["completed"]
        BY <4>1, EmptySummaryCounts, <1>1, SMT
      <4>4. Counted(summary)' = Counted(summary')  BY Zenon DEF Counted
      <4> QED BY <4>1, <4>3, <4>4, <1>1, Zenon DEF OpCounts
    <3> QED BY <3>1, <3>2, Zenon
  <2>4. ExitZeroIsEarned'  BY <2>1, <1>3, Zenon DEF ExitZeroIsEarned
  <2> QED BY <2>2, <2>3, <2>4, Zenon DEF OpInv
<1>6. CASE mode # "preflight"
  <2>1. /\ summary' = [summary EXCEPT ![end] = @ + 1]
        /\ earned' = IF end = "completed" /\ right' THEN earned + 1 ELSE earned
        /\ mode' = mode /\ validation' = validation /\ exit' = exit /\ begun' = begun
    BY <1>6, Zenon DEF Return
  <2>2. Counted(summary) + 1 = begun /\ earned = summary["completed"]
    BY <1>3, <1>6, <1>2, Zenon DEF OpInv, OpCounts
  <2>3. /\ summary["completed"] \in 0..MaxOps /\ summary["failed"] \in 0..MaxOps
        /\ summary["timedOut"] \in 0..MaxOps /\ end \in {"completed", "failed", "timedOut"}
    BY <1>t, Zenon DEF Ends
  <2>4. summary[end] + 1 \in 0..MaxOps
    BY <2>2, <2>3, <1>t, SMT DEF Counted
  <2>5. summary' \in [Ends -> 0..MaxOps]  BY <2>1, <2>4, <1>t, Zenon
  <2>6. Counted(summary') = begun /\ earned' = summary'["completed"]
    <3>1. \A e \in Ends : summary'[e] = IF e = end THEN summary[e] + 1 ELSE summary[e]
      BY <2>1, <1>t, Zenon
    <3>2. /\ summary'["completed"] =
               IF "completed" = end THEN summary["completed"] + 1 ELSE summary["completed"]
          /\ summary'["failed"] =
               IF "failed" = end THEN summary["failed"] + 1 ELSE summary["failed"]
          /\ summary'["timedOut"] =
               IF "timedOut" = end THEN summary["timedOut"] + 1 ELSE summary["timedOut"]
      BY <3>1, Zenon DEF Ends
    <3> QED BY <3>2, <2>1, <2>2, <2>3, <1>t, SMT DEF Counted
  <2>7. earned' \in 0..MaxOps
    <3>1. summary'["completed"] \in 0..MaxOps  BY <2>5, Zenon DEF Ends
    <3> QED BY <3>1, <2>6, Zenon
  <2>8. OpTypes'  BY <2>1, <2>5, <2>7, <1>3, <1>t, <1>u, Zenon DEF OpTypes, OpInv
  <2>9. OpCounts'
    <3>1. Counted(summary') + Running' = begun'  BY <2>6, <2>1, <1>1, <1>t, SMT
    <3>4. Counted(summary)' = Counted(summary')  BY Zenon DEF Counted
    <3> QED BY <3>1, <3>4, <2>1, <2>6, <1>1, <1>3, <1>6, Zenon DEF OpCounts
  <2>10. ExitZeroIsEarned'  BY <2>1, <1>3, Zenon DEF ExitZeroIsEarned
  <2> QED BY <2>8, <2>9, <2>10, Zenon DEF OpInv
<1> QED BY <1>4, <1>5, <1>6, Zenon

(* runOperation begins: the invariant is kept. *)
LEMMA BeginInv == ASSUME OpInv, Begin PROVE OpInv'
<1>1. /\ stage = "idle" /\ stage' = "dial" /\ right' = TRUE /\ begun' = begun + 1 /\ begun < MaxOps
      /\ mode \in {"preflight", "warmup", "measured"} /\ Running = 0 /\ Running' = 1
      /\ UNCHANGED << message, validationOnly, silent, mode, expired, summary, warmup,
                      validation, exit, earned >>
  BY Zenon DEF Begin, Running
<1>2. begun \in 0..MaxOps /\ begun' \in 0..MaxOps
  BY <1>1, OperationAssumption, SMT DEF OpInv, OpTypes
<1>3. OpTypes'  BY <1>1, <1>2, Zenon DEF OpInv, OpTypes
<1>4. OpCounts'
  <2>1. ASSUME mode' = "preflight"
        PROVE begun' = Running' /\ earned' = 0 /\ summary' = emptySummary
    <3>1. begun = 0 /\ earned' = 0 /\ summary' = emptySummary
      BY <2>1, <1>1, Zenon DEF OpInv, OpCounts
    <3> QED BY <3>1, <1>1, SMT
  <2>2. ASSUME mode' \in {"warmup", "measured", "report"}
        PROVE Counted(summary)' + Running' = begun' /\ earned' = summary'["completed"]
    <3>1. Counted(summary) + 0 = begun /\ earned = summary["completed"]
      BY <2>2, <1>1, Zenon DEF OpInv, OpCounts
    <3>2. Counted(summary)' = Counted(summary)  BY <1>1, Zenon DEF Counted
    <3>3. Counted(summary) \in Int
      <4>1. summary["completed"] \in 0..MaxOps /\ summary["failed"] \in 0..MaxOps
            /\ summary["timedOut"] \in 0..MaxOps
        BY Zenon DEF OpInv, OpTypes, Ends
      <4> QED BY <4>1, SMT DEF Counted
    <3> QED BY <3>1, <3>2, <3>3, <1>1, <1>2, SMT
  <2>3. mode' # "exited" /\ exit' = "none" /\ mode' \notin {"report", "exited"}
    BY <1>1, Zenon DEF OpInv, OpCounts
  <2> QED BY <2>1, <2>2, <2>3, <1>1, Zenon DEF OpCounts
<1>5. ExitZeroIsEarned'  BY <1>1, Zenon DEF OpInv, OpCounts, ExitZeroIsEarned
<1> QED BY <1>3, <1>4, <1>5, Zenon DEF OpInv

(* The peer answers, rightly or wrongly: the invariant is kept. *)
LEMMA AnswerInv == ASSUME OpInv, NEW ok \in BOOLEAN, Answer(ok) PROVE OpInv'
<1>1. stage # "idle" /\ right = TRUE /\ right' = (right /\ ok)
      /\ UNCHANGED << message, validationOnly, silent, expired, warmup >>
  BY Zenon DEF Answer, OpInv, OpCounts
<1>2. CASE ~ok
  <2>1. Return("failed") /\ "failed" \in Ends /\ "failed" # "completed"
    BY <1>2, Zenon DEF Answer, Ends
  <2> QED BY <2>1, <1>1, ReturnInv, Zenon
<1>3. CASE ok /\ stage = "close"
  <2>1. Return("completed") /\ "completed" \in Ends /\ right' = TRUE
    BY <1>3, <1>1, Zenon DEF Answer, Ends
  <2> QED BY <2>1, <1>1, ReturnInv, Zenon
<1>4. CASE ok /\ stage # "close"
  <2>1. stage' = After(stage) /\ UNCHANGED << summary, mode, validation, exit, begun, earned >>
    BY <1>4, Zenon DEF Answer
  <2>2. After(stage) \in {"settings", "headers", "message", "close"}
    <3>1. stage \in {"dial", "settings", "headers", "message"}
      BY <1>1, <1>4, Zenon DEF OpInv, OpTypes
    <3> QED BY <3>1, SMT DEF After
  <2>3. stage' # "idle" /\ right' = TRUE /\ Running = 1 /\ Running' = 1
    BY <2>1, <2>2, <1>1, <1>4, Zenon DEF Running
  <2>4. OpTypes'
    <3>1. stage' \in {"idle", "dial", "settings", "headers", "message", "close"}
      BY <2>1, <2>2, Zenon
    <3> QED BY <3>1, <2>1, <1>1, ZenonT(30) DEF OpInv, OpTypes
  <2>5. OpCounts'
    <3>1. Counted(summary)' = Counted(summary)  BY <2>1, Zenon DEF Counted
    <3> QED BY <3>1, <2>1, <2>3, <1>1, Zenon DEF OpInv, OpCounts
  <2>6. ExitZeroIsEarned'  BY <2>1, Zenon DEF OpInv, ExitZeroIsEarned
  <2> QED BY <2>4, <2>5, <2>6, Zenon DEF OpInv
<1> QED BY <1>2, <1>3, <1>4, Zenon

(* The connection breaks, or the dial times out: the invariant is kept. *)
LEMMA BreaksInv == ASSUME OpInv, Breaks \/ DialTimesOut PROVE OpInv'
<1>1. PICK end \in {"failed", "timedOut"} : Return(end)
  BY Zenon DEF Breaks, DialTimesOut
<1>2. stage # "idle" /\ UNCHANGED << message, validationOnly, silent, expired, warmup >>
  BY Zenon DEF Breaks, DialTimesOut
<1>3. end \in Ends /\ end # "completed"  BY Zenon DEF Ends
<1> QED BY <1>1, <1>2, <1>3, ReturnInv, Zenon

(* The peer falls silent or the phase's time runs out: the invariant is     *)
(* kept.                                                                    *)
LEMMA IdleInv ==
  ASSUME OpInv, UNCHANGED << message, validationOnly, stage, mode, summary, warmup, validation,
                             exit, right, begun, earned >>,
         silent' \in BOOLEAN, expired' \in BOOLEAN
  PROVE  OpInv'
<1>1. OpTypes'  BY ZenonT(30) DEF OpInv, OpTypes
<1>2. OpCounts'
  <2>1. Counted(summary)' = Counted(summary) /\ Running' = Running  BY Zenon DEF Counted, Running
  <2> QED BY <2>1, Zenon DEF OpInv, OpCounts
<1>3. ExitZeroIsEarned'  BY Zenon DEF OpInv, ExitZeroIsEarned
<1> QED BY <1>1, <1>2, <1>3, Zenon DEF OpInv

(* runFor ends: the invariant is kept. *)
LEMMA EndPhaseInv == ASSUME OpInv, EndPhase PROVE OpInv'
<1>1. /\ mode \in {"warmup", "measured"} /\ stage = "idle" /\ stage' = "idle" /\ expired \in BOOLEAN
      /\ UNCHANGED << message, validationOnly, silent, validation, exit, right >>
      /\ Running = 0 /\ Running' = 0 /\ exit = "none"
  BY Zenon DEF EndPhase, Running, OpInv, OpCounts, OpTypes
<1>2. CASE mode = "warmup"
  <2>1. /\ mode' = "measured" /\ warmup' = summary /\ summary' = emptySummary
        /\ expired' = FALSE /\ begun' = 0 /\ earned' = 0
    BY <1>2, Zenon DEF EndPhase
  <2>2. 0 \in 0..MaxOps  BY OperationAssumption, SMT
  <2>3. OpTypes'  BY <2>1, <2>2, <1>1, EmptySummaryType, Zenon DEF OpInv, OpTypes
  <2>4. Counted(summary)' + Running' = begun' /\ earned' = summary'["completed"]
    <3>1. Counted(summary)' = Counted(emptySummary)  BY <2>1, Zenon DEF Counted
    <3> QED BY <3>1, <2>1, <1>1, EmptySummaryCounts, SMT
  <2>5. OpCounts'  BY <2>1, <2>4, <1>1, Zenon DEF OpCounts
  <2>6. ExitZeroIsEarned'  BY <1>1, Zenon DEF ExitZeroIsEarned
  <2> QED BY <2>3, <2>5, <2>6, Zenon DEF OpInv
<1>3. CASE mode # "warmup"
  <2>1. mode' = "report" /\ UNCHANGED << summary, warmup, expired, begun, earned >>
    BY <1>3, Zenon DEF EndPhase
  <2>3. OpTypes'  BY <2>1, <1>1, Zenon DEF OpInv, OpTypes
  <2>4. Counted(summary)' + Running' = begun' /\ earned' = summary'["completed"]
    <3>1. Counted(summary)' = Counted(summary)  BY <2>1, Zenon DEF Counted
    <3>2. Counted(summary) + Running = begun /\ earned = summary["completed"]
      BY <1>1, Zenon DEF OpInv, OpCounts
    <3> QED BY <3>1, <3>2, <2>1, <1>1, Zenon
  <2>5. OpCounts'  BY <2>1, <2>4, <1>1, Zenon DEF OpCounts
  <2>6. ExitZeroIsEarned'  BY <1>1, Zenon DEF ExitZeroIsEarned
  <2> QED BY <2>3, <2>5, <2>6, Zenon DEF OpInv
<1> QED BY <1>2, <1>3, Zenon

(* main's gate lets the request through or exits: the invariant is kept. *)
LEMMA CheckRequestInv == ASSUME OpInv, CheckRequest PROVE OpInv'
<1>1. /\ mode = "start"
      /\ UNCHANGED << message, validationOnly, stage, silent, expired, summary, warmup,
                      validation, right, begun, earned >>
      /\ \/ mode' = "preflight" /\ exit' = exit
         \/ mode' = "exited" /\ exit' \in {"1", "2", "3"}
  BY Zenon DEF CheckRequest
<1>2. stage = "idle" /\ exit = "none" /\ begun = Running /\ earned = 0 /\ summary = emptySummary
      /\ Running' = Running
  BY <1>1, Zenon DEF OpInv, OpCounts, Running
<1>3. OpTypes'
  <2>1. /\ mode' \in {"start", "preflight", "warmup", "measured", "report", "exited"}
        /\ exit' \in {"none", "0", "1", "2", "3"}
    BY <1>1, <1>2, Zenon
  <2> QED BY <1>1, <2>1, ZenonT(30) DEF OpInv, OpTypes
<1>4. OpCounts'  BY <1>1, <1>2, Zenon DEF OpCounts
<1>5. ExitZeroIsEarned'  BY <1>1, <1>2, Zenon DEF ExitZeroIsEarned
<1> QED BY <1>3, <1>4, <1>5, Zenon DEF OpInv

(* main writes its result and exits: the invariant is kept. *)
LEMMA ReportInv == ASSUME OpInv, Report PROVE OpInv'
<1>1. /\ mode = "report" /\ mode' = "exited" /\ validation' = "passed"
      /\ exit' = IF summary["completed"] = 0 \/ summary["failed"] # 0 \/ summary["timedOut"] # 0
                   THEN "1" ELSE "0"
      /\ UNCHANGED << message, validationOnly, stage, silent, expired, summary, warmup, right,
                      begun, earned >>
  BY Zenon DEF Report
<1>2. stage = "idle" /\ Running = 0 /\ Counted(summary) + Running = begun
      /\ earned = summary["completed"]
  BY <1>1, Zenon DEF OpInv, OpCounts, Running
<1>3. OpTypes'  BY <1>1, Zenon DEF OpInv, OpTypes
<1>4. OpCounts'  BY <1>1, <1>2, Zenon DEF OpCounts
<1>5. ExitZeroIsEarned'
  <2>1. SUFFICES ASSUME exit' = "0" PROVE begun' > 0 /\ earned' = begun'
    BY Zenon DEF ExitZeroIsEarned
  <2>2. summary["completed"] # 0 /\ summary["failed"] = 0 /\ summary["timedOut"] = 0
    BY <1>1, <2>1, Zenon
  <2>3. summary["completed"] \in 0..MaxOps  BY Zenon DEF OpInv, OpTypes, Ends
  <2> QED BY <1>1, <1>2, <2>2, <2>3, SMT DEF Counted
<1> QED BY <1>3, <1>4, <1>5, Zenon DEF OpInv

(* Every step of the executor and of its peer keeps the invariant. *)
LEMMA OpStepInv == OpInv /\ [OperationNext]_opVars => OpInv'
<1> SUFFICES ASSUME OpInv, [OperationNext]_opVars PROVE OpInv'  OBVIOUS
<1>0. silent \in BOOLEAN /\ expired \in BOOLEAN  BY Zenon DEF OpInv, OpTypes
<1>1. CASE Begin  BY <1>1, BeginInv, Zenon
<1>2. CASE Answer(TRUE) \/ Answer(FALSE)  BY <1>2, AnswerInv, Zenon
<1>3. CASE Breaks \/ DialTimesOut  BY <1>3, BreaksInv, Zenon
<1>4. CASE Expire  BY <1>4, <1>0, IdleInv, Zenon DEF Expire
<1>5. CASE EndPhase  BY <1>5, EndPhaseInv, Zenon
<1>6. CASE Report  BY <1>6, ReportInv, Zenon
<1>7. CASE Silence  BY <1>7, <1>0, IdleInv, Zenon DEF Silence
<1>8. CASE UNCHANGED opVars  BY <1>8, <1>0, IdleInv, Zenon DEF opVars
<1>9. CASE CheckRequest  BY <1>9, CheckRequestInv, Zenon
<1> QED BY <1>1, <1>2, <1>3, <1>4, <1>5, <1>6, <1>7, <1>8, <1>9, Zenon DEF OperationNext, Progress

(* The invariant says that the result is earned. *)
LEMMA OpInvImplies == OpInv => OperationResultIsEarned
BY Zenon DEF OpInv, OpTypes, OperationResultIsEarned, OperationTypeOK

(* OperationResultIsEarned holds for every number of operations: exit code  *)
(* 0 means that at least one operation was begun, and that every operation  *)
(* begun saw only right answers and was counted as completed.               *)
THEOREM OperationExitZeroIsEarned == OperationSpec => []OperationResultIsEarned
<1>1. OpInv /\ UNCHANGED opVars => OpInv'  BY OpStepInv
<1> QED BY OpInitInv, OpStepInv, OpInvImplies, PTL DEF OperationSpec

=============================================================================
