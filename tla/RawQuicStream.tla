---------------------------- MODULE RawQuicStream ----------------------------
(***************************************************************************)
(* One raw QUIC stream between quic-go-raw-load (runRequestResponseStream, *)
(* runDuplexStream) and the quic-go-raw server (handleStream).             *)
(*                                                                         *)
(* QUIC delivers each direction reliably and in order, in pieces of any    *)
(* size, and lets a writer run at most Window symbols ahead of its reader. *)
(* Sizes are ranks: the code only compares them, so 1 KiB and below, 64    *)
(* KiB, 1 MiB and 16 MiB are 1, 2, 3 and 4 symbols. A payload byte is its  *)
(* offset modulo Modulus (251 in the code); a read or write buffer holds   *)
(* BufferLength symbols (64 KiB), not a multiple of the modulus.           *)
(***************************************************************************)
EXTENDS Integers, Sequences

CONSTANTS Modulus, BufferLength, Credit,
          MaxLength,    \* bound on payloads, above maxReadBytes
          maxReadBytes  \* the server's limit, 64 MiB

KiB1 == 1
KiB64 == 2
MiB1 == 3
MiB16 == 4

(* The server's limit is above every payload of a scenario. *)
ASSUME StreamAssumption ==
  /\ Modulus \in Nat \ {0} /\ BufferLength \in Nat \ {0} /\ Credit \in Nat \ {0}
  /\ maxReadBytes \in Nat /\ maxReadBytes >= MiB16
  /\ MaxLength \in Nat /\ MaxLength >= MiB16

Directions == {"client-to-server", "server-to-client", "bidirectional"}

(* The streams of the scenarios that the server lists as supported. *)
Supported ==
  [stream_throughput_64kb |-> << "client-to-server", KiB64, "request" >>,
   stream_throughput_1mb |-> << "client-to-server", MiB1, "request" >>,
   stream_throughput_16mb |-> << "client-to-server", MiB16, "request" >>,
   stream_download_1mb |-> << "server-to-client", MiB1, "request" >>,
   sustained_stream_256x64kb |-> << "client-to-server", MiB16, "request" >>,
   sustained_download_256x64kb |-> << "server-to-client", MiB16, "request" >>,
   latency_echo_1kb |-> << "bidirectional", KiB1, "request" >>,
   multiplex_100x1kb |-> << "bidirectional", KiB1, "request" >>,
   multiplex_100x64kb |-> << "bidirectional", KiB64, "request" >>,
   multiplex_16x1mb |-> << "bidirectional", MiB1, "request" >>,
   stream_limits_100x64kb |-> << "bidirectional", KiB64, "request" >>,
   flow_control_slow_reader_16x64kb |-> << "bidirectional", KiB64, "request" >>,
   connection_churn |-> << "bidirectional", KiB1, "request" >>,
   stream_churn |-> << "bidirectional", KiB1, "request" >>,
   duplex_streams |-> << "bidirectional", KiB64, "duplex" >>,
   duplex_streams_16x1mb |-> << "bidirectional", MiB1, "duplex" >>,
   duplex_streams_peer_matrix |-> << "bidirectional", KiB64, "duplex" >>]

DefaultEchoOnlySmall(scenario) ==
  CASE scenario \in {"stream_throughput_64kb", "stream_throughput_1mb",
         "stream_throughput_16mb", "sustained_stream_256x64kb",
         "stream_download_1mb", "sustained_download_256x64kb"} -> 0
    [] scenario \in {"latency_echo_1kb", "multiplex_100x1kb"} -> KiB1
    [] OTHER -> KiB64

defaultEchoMaxSizeForScenario(scenario) ==
  CASE scenario \in {"stream_throughput_64kb", "stream_throughput_1mb",
         "stream_throughput_16mb", "sustained_stream_256x64kb",
         "stream_download_1mb", "sustained_download_256x64kb"} -> 0
    [] scenario \in {"latency_echo_1kb", "multiplex_100x1kb"} -> KiB1
    [] scenario \in {"multiplex_16x1mb", "duplex_streams_16x1mb"} -> MiB1
    [] OTHER -> KiB64

VARIABLES opts,       \* direction, size, behaviour; the server's echo limit
          client,     \* where the writing goroutine is
          reader,     \* the duplex reader goroutine, or "none"
          toSend,     \* what is still to be written
          req, upFin, \* client to server: symbols in flight, end of stream
          resp, downFin,
          received,   \* symbols the client has taken
          server,     \* where handleStream is
          payload,    \* what it has read
          offset,     \* how much of its answer it has written
          cutoff,     \* the connection broke, or the stream's deadline passed
          outcome     \* what runStream returned

rawVars == << opts, client, reader, toSend, req, upFin, resp, downFin, received,
              server, payload, offset, cutoff, outcome >>

Outcomes == {"none", "ok", "mismatch", "failed", "timeout"}

(* payload[i] = byte(i % 251) *)
Payload(n) == [i \in 1..n |-> (i - 1) % Modulus]

(* The request frame for a download: its magic and the length. *)
Magic == -1
buildDownloadRequest(n) == << Magic, n >>

parseDownloadRequest(request) ==
  IF Len(request) = 2 /\ request[1] = Magic /\ request[2] \in 1..maxReadBytes
    THEN request[2] ELSE 0

Request ==
  IF opts.direction = "server-to-client" /\ opts.behavior = "request"
    THEN buildDownloadRequest(opts.size) ELSE Payload(opts.size)

(* writeDeterministicPayload fills its buffer again and again; the byte at  *)
(* index k of the buffer that starts at offset o is (o + k) % 251.          *)
writeDeterministicPayload(n) ==
  [i \in 1..n |-> LET k == (i - 1) % BufferLength
                      o == (i - 1) - k
                  IN (o + k) % Modulus]

(* The answer handleStream gives to a complete request. *)
Answer(request) ==
  LET n == parseDownloadRequest(request)
  IN IF n > 0 THEN writeDeterministicPayload(n)
     ELSE IF Len(request) > opts.echoMax THEN << >> ELSE request

(* Client and server agree on what the stream carries. *)
Agreed ==
  CASE opts.direction = "client-to-server" -> opts.size > opts.echoMax \/ opts.size = 0
    [] opts.direction = "server-to-client" /\ opts.behavior = "request" ->
         opts.size \in 1..maxReadBytes
    [] OTHER -> opts.size <= opts.echoMax \/ opts.size = 0

Prefix(s, n) == SubSeq(s, 1, n)
Rest(s, n) == SubSeq(s, n + 1, Len(s))

-----------------------------------------------------------------------------
FromScenario ==
  {[direction |-> Supported[s][1], size |-> Supported[s][2],
    behavior |-> Supported[s][3], echoMax |-> defaultEchoMaxSizeForScenario(s),
    supported |-> TRUE] : s \in DOMAIN Supported}

FromFlags ==
  [direction : Directions, size : 0..MaxLength, behavior : {"request", "duplex"},
   echoMax : {0, KiB64}, supported : {FALSE}]

StreamInit ==
  /\ opts \in FromScenario \cup FromFlags
  /\ client = "open" /\ reader = "none"
  /\ toSend = << >> /\ req = << >> /\ upFin = FALSE
  /\ resp = << >> /\ downFin = FALSE /\ received = 0
  /\ server = "idle" /\ payload = << >> /\ offset = 0
  /\ cutoff = "none" /\ outcome = "none"

clientVars == << client, reader, toSend, received, outcome >>
serverVars == << server, payload, offset >>

Open ==
  /\ client = "open" /\ cutoff = "none"
  /\ client' = "write" /\ toSend' = Request
  /\ reader' = IF opts.behavior = "duplex" THEN "read" ELSE "none"
  /\ UNCHANGED << opts, req, upFin, resp, downFin, received, serverVars, cutoff, outcome >>

(* A piece of stream.Write, as far as flow control lets it go. *)
Write ==
  /\ client = "write" /\ toSend # << >> /\ Len(req) < Credit
  /\ req' = Append(req, Head(toSend)) /\ toSend' = Tail(toSend)
  /\ UNCHANGED << opts, client, reader, upFin, resp, downFin, received, serverVars,
                  cutoff, outcome >>

CloseWrites ==
  /\ client = "write" /\ toSend = << >>
  /\ upFin' = TRUE /\ client' = "read"
  /\ UNCHANGED << opts, reader, toSend, req, resp, downFin, received, serverVars, cutoff,
                  outcome >>

Return(o) == client' = "done" /\ outcome' = o

validateDeterministicPayloadChunk(chunk) ==
  /\ received + Len(chunk) <= opts.size
  /\ \A i \in 1..Len(chunk) : chunk[i] = Payload(opts.size)[received + i]

(* One stream.Read of runRequestResponseStream. *)
Read(n) ==
  /\ client = "read" /\ opts.behavior = "request" /\ n <= Len(resp)
  /\ resp' = Rest(resp, n)
  /\ received' = received + n
  /\ IF \/ opts.direction = "client-to-server"
        \/ validateDeterministicPayloadChunk(Prefix(resp, n))
       THEN UNCHANGED << client, outcome >> ELSE Return("mismatch")
  /\ UNCHANGED << opts, reader, toSend, req, upFin, downFin, serverVars, cutoff >>

Expected == IF opts.direction = "client-to-server" THEN 0 ELSE opts.size

EndOfResponseUnchecked ==
  /\ client = "read" /\ opts.behavior = "request" /\ resp = << >> /\ downFin
  /\ Return("ok")
  /\ UNCHANGED << opts, reader, toSend, req, upFin, resp, downFin, received, serverVars,
                  cutoff >>

EndOfResponse ==
  /\ client = "read" /\ opts.behavior = "request" /\ resp = << >> /\ downFin
  /\ Return(IF received = Expected THEN "ok" ELSE "mismatch")
  /\ UNCHANGED << opts, reader, toSend, req, upFin, resp, downFin, received, serverVars,
                  cutoff >>

(* The reader goroutine of runDuplexStream counts and does not compare. *)
DuplexRead(n) ==
  /\ reader = "read" /\ n <= Len(resp)
  /\ resp' = Rest(resp, n) /\ received' = received + n
  /\ UNCHANGED << opts, client, reader, toSend, req, upFin, downFin, serverVars, cutoff,
                  outcome >>

DuplexReadEnd ==
  /\ reader = "read"
  /\ \/ resp = << >> /\ downFin /\ reader' = "eof"
     \/ cutoff # "none" /\ reader' = "error"
  /\ UNCHANGED << opts, client, toSend, req, upFin, resp, downFin, received, serverVars,
                  cutoff, outcome >>

Failure == IF cutoff = "deadline" THEN "timeout" ELSE "failed"

(* The writer takes the reader's result; a write error wins over it.        *)
DuplexResult ==
  /\ opts.behavior = "duplex" /\ client \in {"read", "drain"}
  /\ reader \in {"eof", "error"}
  /\ Return(IF client = "drain" \/ reader = "error" THEN Failure
            ELSE IF received = Expected THEN "ok" ELSE "mismatch")
  /\ UNCHANGED << opts, reader, toSend, req, upFin, resp, downFin, received, serverVars,
                  cutoff >>

(* OpenStreamSync, Write, Close or Read returns an error.                   *)
ClientFails ==
  /\ cutoff # "none"
  /\ \/ /\ client = "open" \/ (client \in {"write", "read"} /\ opts.behavior = "request")
        /\ Return(Failure)
     \/ /\ client = "write" /\ opts.behavior = "duplex"
        /\ client' = "drain" /\ UNCHANGED outcome
  /\ UNCHANGED << opts, reader, toSend, req, upFin, resp, downFin, received, serverVars,
                  cutoff >>

-----------------------------------------------------------------------------
(* handleStream *)

ServerRead ==
  /\ server \in {"idle", "read"} /\ req # << >> /\ Len(payload) <= maxReadBytes
  /\ payload' = Append(payload, Head(req)) /\ req' = Tail(req) /\ server' = "read"
  /\ UNCHANGED << opts, clientVars, upFin, resp, downFin, offset, cutoff >>

ServerReadAll ==
  /\ server \in {"idle", "read"}
  /\ \/ Len(payload) > maxReadBytes /\ server' = "close"
     \/ Len(payload) <= maxReadBytes /\ req = << >> /\ upFin /\ server' = "answer"
  /\ UNCHANGED << opts, clientVars, req, upFin, resp, downFin, payload, offset, cutoff >>

ServerWrite ==
  /\ server = "answer" /\ offset < Len(Answer(payload)) /\ Len(resp) < Credit
  /\ resp' = Append(resp, Answer(payload)[offset + 1]) /\ offset' = offset + 1
  /\ UNCHANGED << opts, clientVars, req, upFin, downFin, server, payload, cutoff >>

ServerClose ==
  /\ \/ server = "answer" /\ offset = Len(Answer(payload))
     \/ server = "close"
  /\ downFin' = TRUE /\ server' = "closed"
  /\ UNCHANGED << opts, clientVars, req, upFin, resp, payload, offset, cutoff >>

ServerFails ==
  /\ cutoff = "broken" /\ server \in {"read", "answer"}
  /\ server' = "closed"
  /\ UNCHANGED << opts, clientVars, req, upFin, resp, downFin, payload, offset, cutoff >>

Fault ==
  /\ cutoff = "none" /\ cutoff' \in {"broken", "deadline"}
  /\ UNCHANGED << opts, clientVars, req, upFin, resp, downFin, serverVars >>

Progress ==
  \/ Open \/ Write \/ CloseWrites \/ EndOfResponse \/ DuplexReadEnd \/ DuplexResult
  \/ ClientFails \/ ServerRead \/ ServerReadAll \/ ServerWrite \/ ServerClose
  \/ ServerFails
  \/ \E n \in 1..BufferLength : Read(n) \/ DuplexRead(n)

StreamNext == Progress \/ Fault

StreamSpec == StreamInit /\ [][StreamNext]_rawVars

(* Both processes run; the transport delivers while it is not broken. *)
StreamFairness == WF_rawVars(Progress)

FairStreamSpec == StreamSpec /\ StreamFairness

-----------------------------------------------------------------------------
Symbols == {Magic} \cup 0..(Modulus + MaxLength)

(* The variables keep their types, and flow control is respected. *)
StreamTypeOK ==
  /\ opts \in FromScenario \cup FromFlags
  /\ client \in {"open", "write", "read", "drain", "done"}
  /\ reader \in {"none", "read", "eof", "error"}
  /\ \A s \in {toSend, req, resp, payload} : s \in Seq(Symbols)
  /\ Len(req) <= Credit /\ Len(resp) <= Credit
  /\ upFin \in BOOLEAN /\ downFin \in BOOLEAN
  /\ received \in 0..MaxLength /\ offset \in 0..MaxLength
  /\ server \in {"idle", "read", "answer", "close", "closed"}
  /\ cutoff \in {"none", "broken", "deadline"} /\ outcome \in Outcomes

(* A stream counted as successful did carry its payload. The server read    *)
(* the whole request and nothing else (short of its read limit), and what   *)
(* it sent back is what the direction asks for: nothing, or the payload     *)
(* byte for byte, all of it taken by the client.                            *)
SuccessIsExact ==
  outcome = "ok" =>
     /\ opts.size <= maxReadBytes => payload = Request
     /\ received = Expected
     /\ opts.behavior = "request" /\ opts.direction # "client-to-server"
          /\ opts.size > 0 => Answer(payload) = Payload(opts.size)

(* A mismatch is never an accident of how the transport cut the bytes: it   *)
(* is reported only when client and server were set up for different        *)
(* payloads, and a failure or timeout only after a fault.                   *)
FailureHasCause ==
  /\ outcome = "mismatch" => ~Agreed
  /\ outcome \in {"failed", "timeout"} => cutoff # "none"

(* The variables keep their types, and what runStream returns is what       *)
(* happened: a success carried the payload, a failure has a cause.          *)
OutcomeIsExact == StreamTypeOK /\ SuccessIsExact /\ FailureHasCause

(* Every stream of a scenario that the server lists as supported succeeds   *)
(* when nothing breaks, with the echo limit the server picks by itself:     *)
(* neither flow control nor the order of reads and writes can block it.     *)
SupportedScenariosSucceed ==
  opts.supported => <>(outcome = "ok" \/ cutoff # "none")

(* runStream always returns once its deadline has passed, the duplex        *)
(* writer that waits for its reader included.                               *)
DeadlineEndsStream == cutoff # "none" ~> outcome # "none"

(* runStream returns: with success in a supported scenario when nothing     *)
(* breaks, and whatever breaks with the deadline at the latest.             *)
StreamReturns == SupportedScenariosSucceed /\ DeadlineEndsStream
=============================================================================
