------------------------------ MODULE TlsSession ------------------------------
(***************************************************************************)
(* The four Go TLS executors (go-tls13-executor, go-tls12-executor,        *)
(* go-tls13-mtls-executor, go-utls-tls13-chacha20-executor) and their      *)
(* targets: preflight, warm-up and measured phase; one fresh connection    *)
(* for every handshake; in TLS 1.3 the client is done before the server    *)
(* has looked at its last flight; session tickets and application data     *)
(* follow the handshake. The peer is the packaged target or an             *)
(* implementation under test.                                              *)
(***************************************************************************)
EXTENDS Integers, Sequences

CONSTANTS MaxOps,    \* bound: operations in a phase (a phase lasts 1 or 5 s)
          Cases      \* bound: the six cases of record coverage

ASSUME TlsAssumption == MaxOps \in Nat \ {0} /\ Cases \in Nat \ {0}

Tls13Kinds == {"full", "resumed", "throughput", "coverage"}
RecordKinds == {"throughput", "coverage"}
TlsKinds == Tls13Kinds \cup {"tls12", "mtls", "chacha20"}

NoCode == -1
emptyTally == [completed |-> 0, failed |-> 0, timedOut |-> 0]

VARIABLES task,    \* kind, peer and the environment the executor reads
          step,    \* what the executor does
          period,  \* "preflight", "warmup", "measured"
          round,   \* the connection of the operation: source and resumed, or the record case
          tally,   \* phaseSummary
          cache,   \* singleUseSessionCache
          offered, \* this connection's ClientHello offers a ticket
          hello,   \* the server's flight, << >> until it is sent
          toServer, toClient,
          served,  \* the target's handler: "listening", "reading", "closed"
          verdict, \* the server on the client certificate: "pending", "accepted", "rejected",
                   \* "ignored"
          tlsExit, \* exit code
          astray,  \* history: an operation completed that was not what the scenario asks for
          fault    \* history: a connection failed, a deadline passed, or a phase had no time

tlsVars == << task, step, period, round, tally, cache, offered, hello, toServer, toClient,
              served, verdict, tlsExit, astray, fault >>
connVars == << offered, hello, toServer, toClient, served, verdict >>

emptyCache == [session |-> FALSE, puts |-> 0, gets |-> 0, hits |-> 0]

TlsInit ==
  /\ task \in [kind : TlsKinds, peer : {"packaged", "foreign"},
               identity : {"exact", "unsupported", "other"},
               validationOnly : BOOLEAN, config : BOOLEAN, warmup : BOOLEAN, total : -1 .. MaxOps]
  /\ task.identity # "exact" => task.peer = "packaged" /\ ~task.validationOnly
  /\ task.kind \notin Tls13Kinds => task.config /\ task.warmup /\ task.total = 0
  /\ ~task.warmup => task.kind = "coverage" /\ task.total = 1
  /\ step = "gate" /\ period = "preflight" /\ round = 1 /\ tally = emptyTally
  /\ cache = emptyCache /\ offered = FALSE /\ hello = << >>
  /\ toServer = << >> /\ toClient = << >> /\ served = "closed"
  /\ verdict = "pending" /\ tlsExit = NoCode /\ astray = FALSE /\ fault = FALSE

TlsExit(code) == step' = "exit" /\ tlsExit' = code

-----------------------------------------------------------------------------
(* The executors' phases. *)

(* main up to the preflight: a known scenario of another executor is        *)
(* unsupported, any other or a substituted identity a usage error.          *)
TlsGate ==
  /\ step = "gate"
  /\ CASE task.identity = "unsupported" -> TlsExit(3)
       [] task.identity = "other" -> TlsExit(2)
       [] task.identity = "exact" -> step' = "dial" /\ UNCHANGED tlsExit
  /\ UNCHANGED << task, period, round, tally, cache, connVars, astray, fault >>

StartStage(s) == step' = "phase" /\ period' = s /\ tally' = emptyTally /\ UNCHANGED tlsExit

(* The preflight decides first; loadConfigFromEnvironment comes after it    *)
(* and only in the TLS 1.3 executor.                                        *)
AfterPreflight(ok) ==
  IF ok /\ ~task.validationOnly /\ task.config
  THEN StartStage(IF task.warmup THEN "warmup" ELSE "measured")
  ELSE /\ TlsExit(CASE ~ok -> 1 [] ok /\ task.validationOnly -> 0
                    [] ok /\ ~task.validationOnly -> 2)
       /\ UNCHANGED << period, tally >>

(* One operation is over: "completed", "failed" or "timedOut". *)
OpOver(outcome) ==
  /\ IF period = "preflight" THEN AfterPreflight(outcome = "completed")
     ELSE /\ step' = "phase" /\ tally' = [tally EXCEPT ![outcome] = @ + 1]
          /\ UNCHANGED << period, tlsExit >>
  /\ round' = 1 /\ cache' = emptyCache

phaseClean == tally.failed = 0 /\ tally.timedOut = 0 /\ tally.completed > 0
Ops == tally.completed + tally.failed + tally.timedOut

(* runPhase, runFor: the loop's test, by count or by time. With a negative  *)
(* count neither applies, and the loop goes on (MaxOps operations here).    *)
runPhase ==
  /\ step = "phase"
  /\ IF task.total > 0 THEN Ops < task.total ELSE Ops < MaxOps
  /\ step' = "dial"
  /\ UNCHANGED << task, period, round, tally, cache, connVars, tlsExit, astray, fault >>

(* The end of a phase. The TLS 1.3 executor gates on its warm-up, the       *)
(* others drop what the warm-up returned.                                   *)
warmupGate == task.kind \in Tls13Kinds => phaseClean

PhaseEnds ==
  /\ step = "phase" /\ task.total >= 0 /\ (task.total > 0 => Ops >= task.total)
  /\ fault' = (fault \/ Ops = 0)
  /\ CASE period = "measured" ->
              TlsExit(IF phaseClean THEN 0 ELSE 1) /\ UNCHANGED << period, tally >>
       [] period = "warmup" /\ warmupGate -> StartStage("measured")
       [] period = "warmup" /\ ~warmupGate -> TlsExit(1) /\ UNCHANGED << period, tally >>
  /\ astray' = (astray /\ (period = "measured" \/ task.kind \in Tls13Kinds))
  /\ UNCHANGED << task, round, cache, connVars >>

-----------------------------------------------------------------------------
(* singleUseSessionCache *)

Put(c) == [c EXCEPT !.puts = @ + 1, !.session = TRUE]
GetKeeps(c) == [c EXCEPT !.gets = @ + 1, !.hits = IF c.session THEN @ + 1 ELSE @]
Get(c) == [GetKeeps(c) EXCEPT !.session = FALSE]

(* runResumed's check of the measured handshake. *)
consumedOnce(c) == c.gets - 1 = 1 /\ c.hits = 1 /\ ~c.session

-----------------------------------------------------------------------------
(* One connection, the executor's side. *)

(* Dial and ClientHello; crypto/tls asks the cache once. *)
TlsDial ==
  /\ step = "dial" /\ step' = "flight"
  /\ offered' = (task.kind = "resumed" /\ cache.session)
  /\ cache' = IF task.kind = "resumed" THEN Get(cache) ELSE cache
  /\ hello' = << >> /\ toServer' = << >> /\ toClient' = << >>
  /\ served' = "listening" /\ verdict' = "pending"
  /\ UNCHANGED << task, period, round, tally, tlsExit, astray, fault >>

expectResume == task.kind = "resumed" /\ round = 2

(* validateState, one per executor: the state must be the profile's in      *)
(* every field; the session is new, or resumed where that is asked for.     *)
validateState13AnySession(h) == h.right
validateState13(h) == h.right /\ h.resumed = expectResume
validateState12(h) == h.right /\ ~h.resumed
validateStateMutual(h) == h.right /\ ~h.resumed
validateStateChaCha20(h) == h.right /\ ~h.resumed
validateState(h) ==
  CASE task.kind \in Tls13Kinds -> validateState13(h)
    [] task.kind = "tls12" -> validateState12(h)
    [] task.kind = "mtls" -> validateStateMutual(h)
    [] task.kind = "chacha20" -> validateStateChaCha20(h)

Send(m) == toServer' = Append(toServer, m)

(* HandshakeContext: the client answers the server's flight with its own    *)
(* and, in TLS 1.3, is done; in TLS 1.2 it waits for the server's Finished. *)
HandshakeContext ==
  /\ hello # << >>
  /\ \/ step = "flight" /\ Send("finished") /\ UNCHANGED toClient
        /\ step' = IF task.kind = "tls12" THEN "await" ELSE "validate"
     \/ step = "await" /\ toClient # << >> /\ Head(toClient) = "finished"
        /\ toClient' = Tail(toClient) /\ step' = "validate" /\ UNCHANGED toServer
  /\ UNCHANGED << task, period, round, tally, cache, offered, hello, served, verdict,
                  tlsExit, astray, fault >>

(* What the scenario asks of a handshake, from the two sides' state. *)
asAsked == hello[1].right /\ hello[1].resumed = (task.kind = "resumed" /\ round = 2)

lastRound == round = CASE task.kind = "resumed" -> 2 [] task.kind = "coverage" -> Cases
                       [] task.kind \notin {"resumed", "coverage"} -> 1

(* This connection did its part: the next one, or the operation is over. *)
RoundDone ==
  IF lastRound THEN OpOver("completed")
  ELSE step' = "dial" /\ round' = round + 1 /\ UNCHANGED << period, tally, cache, tlsExit >>

fromServer == task.kind = "throughput" \/ round % 2 = 0

(* After the handshake: runHandshake closes, drains the source session's    *)
(* ticket first, or runRecordCase goes on with its command. The executors   *)
(* other than the TLS 1.3 one also report a failing Close, which may happen *)
(* when the peer has closed already.                                        *)
TlsValidate ==
  /\ step = "validate" /\ UNCHANGED << task, offered, hello, toClient, served, verdict, fault >>
  /\ \/ ~validateState(hello[1]) /\ OpOver("failed") /\ UNCHANGED << astray, toServer >>
     \/ /\ validateState(hello[1]) /\ task.kind \in RecordKinds
        /\ step' = IF fromServer THEN "transfer" ELSE "upload"
        /\ Send("command")
        /\ UNCHANGED << period, round, tally, cache, tlsExit, astray >>
     \/ /\ validateState(hello[1]) /\ task.kind = "resumed" /\ round = 1 /\ step' = "drain"
        /\ UNCHANGED << period, round, tally, cache, tlsExit, astray, toServer >>
     \/ /\ validateState(hello[1]) /\ task.kind = "resumed" /\ round = 2
        /\ OpOver(IF consumedOnce(cache) THEN "completed" ELSE "failed")
        /\ astray' = (astray \/ ~asAsked \/ ~offered) /\ Send("close")
     \/ /\ validateState(hello[1]) /\ task.kind \notin RecordKinds \cup {"resumed"}
        /\ OpOver("completed") /\ astray' = (astray \/ ~asAsked) /\ Send("close")
     \/ /\ validateState(hello[1]) /\ task.kind \in {"tls12", "mtls", "chacha20"}
        /\ served = "closed" /\ OpOver("failed") /\ UNCHANGED << astray, toServer >>

(* drainSessionTicket reads until the peer closes: tickets go to the cache. *)
drainSessionTicket ==
  /\ step = "drain" /\ toClient # << >> /\ toClient' = Tail(toClient)
  /\ LET m == Head(toClient) IN
     CASE m = "ticket" -> /\ cache' = Put(cache)
                          /\ UNCHANGED << step, period, round, tally, tlsExit >>
       [] m = "close" /\ cache.session -> RoundDone
       [] m = "close" /\ ~cache.session -> OpOver("failed")
       [] m \notin {"ticket", "close"} -> OpOver("failed")
  /\ UNCHANGED << task, offered, hello, toServer, served, verdict, astray, fault >>

(* runRecordCase after its command: the payload goes one way; it or its     *)
(* acknowledgement comes back. No read or write here has a deadline, and a  *)
(* write waits for the peer to read.                                        *)
TlsUpload ==
  /\ step = "upload" /\ (toServer = << >> \/ served = "closed")
  /\ Send("payload") /\ step' = "transfer"
  /\ UNCHANGED << task, period, round, tally, cache, offered, hello, toClient, served, verdict,
                  tlsExit, astray, fault >>

tlsAwaited == IF fromServer THEN "data" ELSE "ack"

TlsTransfer ==
  /\ step = "transfer" /\ toClient # << >> /\ toClient' = Tail(toClient)
  /\ LET m == Head(toClient) IN
     CASE m = "ticket" -> UNCHANGED << step, period, round, tally, cache, tlsExit, astray >>
       [] m = tlsAwaited -> RoundDone /\ astray' = (astray \/ ~asAsked)
       [] m \notin {"ticket", tlsAwaited} -> OpOver("failed") /\ UNCHANGED astray
  /\ UNCHANGED << task, offered, hello, toServer, served, verdict, fault >>

(* The operation's context covers dial, handshake and drain, no transfer. *)
coveredDial == step = "dial"
covered == step \in {"dial", "flight", "await", "drain"}

TlsTimeout ==
  /\ covered /\ OpOver("timedOut") /\ fault' = TRUE
  /\ UNCHANGED << task, connVars, astray >>

TlsConnectionLost ==
  /\ step \in {"dial", "flight", "await", "drain", "upload", "transfer"}
  /\ OpOver("failed") /\ fault' = TRUE
  /\ UNCHANGED << task, connVars, astray >>

-----------------------------------------------------------------------------
(* One connection, the target's side. *)

clientVars == << task, step, period, round, tally, cache, offered, tlsExit, astray >>
Reply(ms) == toClient' = toClient \o ms
Flight(right, resumed) == << [right |-> right, resumed |-> resumed] >>
finishedNext == toServer # << >> /\ Head(toServer) = "finished" /\ served = "listening"

(* The packaged servers' configuration; only go-tls13 issues tickets, and   *)
(* crypto/tls sends one with the server's flight as it asks for no client   *)
(* certificate.                                                             *)
TargetHello ==
  /\ served = "listening" /\ hello = << >>
  /\ hello' = Flight(TRUE, offered)
  /\ Reply(IF task.kind \in Tls13Kinds THEN << "ticket" >> ELSE << >>)
  /\ UNCHANGED << clientVars, toServer, served, verdict, fault >>

(* go-tls13 handle: a handshake scenario's connection is closed at once. *)
handle13 ==
  IF task.kind \in RecordKinds THEN served' = "reading" /\ UNCHANGED toClient
  ELSE Reply(<< "close" >>) /\ served' = "closed"

(* The other targets wait for the client to close. *)
handle12 == Reply(<< "finished" >>) /\ served' = "reading"
handleMutual == served' = "reading" /\ UNCHANGED toClient
handleChaCha20 == served' = "reading" /\ UNCHANGED toClient

(* peerValidator of the mutual-authentication target. *)
peerValidator == IF task.kind = "mtls" THEN "accepted" ELSE "ignored"

TargetFinished ==
  /\ finishedNext /\ toServer' = Tail(toServer) /\ verdict' = peerValidator
  /\ CASE task.kind \in Tls13Kinds -> handle13
       [] task.kind = "tls12" -> handle12
       [] task.kind = "mtls" -> handleMutual
       [] task.kind = "chacha20" -> handleChaCha20
  /\ UNCHANGED << clientVars, hello, fault >>

(* serveRecordOperation, and the last read of the other targets. *)
serveRecordOperation ==
  /\ served = "reading" /\ toServer # << >> /\ toServer' = Tail(toServer)
  /\ CASE Head(toServer) = "command" /\ fromServer ->
            Reply(<< "data", "close" >>) /\ served' = "closed"
       [] Head(toServer) = "command" /\ ~fromServer -> UNCHANGED << toClient, served >>
       [] Head(toServer) = "payload" -> Reply(<< "ack", "close" >>) /\ served' = "closed"
       [] Head(toServer) = "close" -> served' = "closed" /\ UNCHANGED toClient
  /\ UNCHANGED << clientVars, hello, verdict, fault >>

(* The target's deadline for the connection, 10 or 20 s. *)
TargetDeadline ==
  /\ served \in {"listening", "reading"} /\ served' = "closed" /\ Reply(<< "close" >>)
  /\ fault' = TRUE
  /\ UNCHANGED << clientVars, hello, toServer, verdict >>

TargetStep == task.peer = "packaged" /\ (TargetHello \/ TargetFinished \/ serveRecordOperation)

(* An implementation under test: it may resume or not, negotiate something  *)
(* else, not ask for a certificate or refuse it, send no ticket, one or     *)
(* two, answer wrongly, close, or fall silent.                              *)
ForeignStep ==
  /\ task.peer = "foreign" /\ served # "closed"
  /\ \/ /\ hello = << >>
        /\ \E right \in BOOLEAN, resumed \in {FALSE, offered} : hello' = Flight(right, resumed)
        /\ \E ms \in {<< >>} \cup {m \in {<< "ticket" >>} : task.kind \in Tls13Kinds} : Reply(ms)
        /\ UNCHANGED << toServer, served, verdict >>
     \/ /\ finishedNext /\ toServer' = Tail(toServer)
        /\ verdict' \in {"accepted", "rejected", "ignored"}
        /\ \E ms \in {<< >>, << "finished" >>, << "ticket" >>, << "ticket", "ticket" >>,
                      << "data" >>} : Reply(ms)
        /\ served' = "reading" /\ UNCHANGED hello
     \/ /\ served = "reading" /\ toServer # << >> /\ toServer' = Tail(toServer)
        /\ \E ms \in {<< >>, << "data" >>, << "ack" >>, << "wrong" >>} : Reply(ms)
        /\ UNCHANGED << hello, served, verdict >>
     \/ Reply(<< "close" >>) /\ served' = "closed" /\ UNCHANGED << hello, toServer, verdict >>
  /\ UNCHANGED << clientVars, fault >>

TlsExecutorStep == \/ TlsGate \/ runPhase \/ PhaseEnds \/ TlsDial \/ HandshakeContext \/ TlsValidate
                   \/ drainSessionTicket \/ TlsUpload \/ TlsTransfer

TlsNext == TlsExecutorStep \/ TargetStep \/ ForeignStep \/ TlsTimeout \/ TlsConnectionLost
           \/ (task.peer = "packaged" /\ TargetDeadline)

(* The executor and the packaged target run on; a context's timeout fires;  *)
(* a phase's time runs out. Nobody promises that a peer under test answers. *)
TlsFairness == /\ WF_tlsVars(TlsExecutorStep) /\ WF_tlsVars(TargetStep)
               /\ WF_tlsVars(TlsTimeout)

TlsSpec == TlsInit /\ [][TlsNext]_tlsVars /\ TlsFairness

-----------------------------------------------------------------------------
(* An executor exits 0 only with completed operations and no other in the   *)
(* phase it reports (and, for TLS 1.3, in its warm-up), each of them what   *)
(* the scenario asks for on the wire: the profile negotiated, and resumed   *)
(* exactly in the measured handshake of a resumption, from a ticket of its  *)
(* own source session (validateState, runResumed, main's gates).            *)
TlsPassIsEarned == tlsExit = 0 => ~astray /\ (phaseClean \/ task.validationOnly)

(* Against its packaged target an executor fails only when a connection is  *)
(* lost, a deadline passes or a phase has no time for an operation: every   *)
(* ticket is received before the source connection's end and used exactly   *)
(* once (singleUseSessionCache, drainSessionTicket).                        *)
PackagedTlsPasses == task.peer = "packaged" /\ tlsExit = 1 => fault

(* A phase without end: loadConfigFromEnvironment lets a negative           *)
(* PLAB_TOTAL_OPERATIONS through for tls-smoke, and runPhase never breaks.  *)
Endless == task.total < 0 /\ period # "preflight"

(* A peer that has fallen silent in a transfer of runRecordCase, which has  *)
(* no deadline.                                                             *)
Stalled == task.peer = "foreign" /\ step \in {"upload", "transfer"}

(* Every executor comes to its exit whatever its peer does: the two places  *)
(* where it may stay for ever are a phase with a negative count and a       *)
(* record transfer with a peer under test, never a dial, a handshake, the   *)
(* wait for a ticket or a transfer with the packaged target.                *)
TlsExecutorEnds == <>[](step = "exit" \/ Endless \/ Stalled)

(* mutual-auth.yaml requires client-certificate-valid and                   *)
(* mutual-authenticated, and the executor reports both (validateState); the *)
(* server says what it thinks of the certificate after the client is done.  *)
MutualAuthIsMutual ==
  tlsExit = 0 /\ task.kind = "mtls" => verdict \notin {"rejected", "ignored"}
=============================================================================
