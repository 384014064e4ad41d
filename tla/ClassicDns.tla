------------------------------ MODULE ClassicDns ------------------------------
(***************************************************************************)
(* The classic DNS executors (dns-classic-fixture, run by                  *)
(* go-dns-udp-executor and go-dns-tcp-executor) against                    *)
(* go-dns-classic-authority: queries one after another over one UDP socket *)
(* and one TCP connection per phase, the TCP retry of a truncated answer,  *)
(* and a network that loses, duplicates, delays and reorders datagrams     *)
(* (Run, runPhase, openPhaseClient, exchange, exchangeUDP, exchangeTCP,    *)
(* validate; serveUDP, handleTCP, responseFor).                            *)
(***************************************************************************)
EXTENDS Integers, FiniteSets

CONSTANTS Modulus,      \* number of message IDs, 2^16 in the code
          MaxAge,       \* a datagram is delivered within this many exchanges, or never
          MaxExchanges, \* bound: exchanges of one phase
          MaxFaults     \* bound: what network and server do wrong

ASSUME DnsAssumption ==
  /\ Modulus \in Nat /\ Modulus > 2 /\ Modulus % 2 = 0
  /\ MaxAge \in Nat /\ 2 * MaxAge < Modulus
  /\ MaxExchanges \in Nat \ {0} /\ MaxFaults \in Nat

Scenarios == {"udp", "tcp", "retry"}
Outcomes == {"completed", "malformed", "failed", "timedOut"}

VARIABLES scenario, validationOnly,
          profile,        \* the environment names the supported load profile
          faults,         \* what went wrong so far
          datagrams,      \* UDP: in flight to the server or to the client
          tcp,            \* the connection: "open" or "closed"
          stream,         \* TCP: the query or the response on its way
          pc,             \* the phase: "open", "loop", "udp", "tcp", "returned"
          phase, expired, \* which phase, and whether its deadline has passed
          id, next,       \* the query's message ID, and the next one
          summary,        \* outcomes and retries of the phase
          err,            \* runPhase returned an error
          result, exit,   \* result.json, and the exit code
          clean,          \* history: phases whose exchanges all succeeded
          seq,            \* history: exchanges begun in this phase
          retried,        \* history: TCP retries written in this phase
          own             \* history: accepted responses answered their exchange

dnsVars == << scenario, validationOnly, profile, faults, datagrams, tcp, stream, pc, phase,
              expired, id, next, summary, err, result, exit, clean, seq, retried,
              own >>

runVars == << scenario, validationOnly, profile >>
netVars == << datagrams, tcp, stream >>
mainVars == << phase, err, result, exit, clean >>

once == phase = "preflight"
emptySummary == [o \in Outcomes \cup {"retries"} |-> 0]
silence == [at |-> "nowhere", id |-> 0, kind |-> "none", seq |-> 0, copy |-> 0]

DnsInit ==
  /\ scenario \in Scenarios /\ validationOnly \in BOOLEAN /\ profile \in BOOLEAN
  /\ faults = 0 /\ datagrams = {} /\ tcp = "closed" /\ stream = silence
  /\ pc = "open" /\ phase = "preflight" /\ expired = FALSE
  /\ id = 0 /\ next = 1 /\ summary = emptySummary /\ err = FALSE
  /\ result = "none" /\ exit = "none" /\ clean = {} /\ seq = 0 /\ retried = 0 /\ own = TRUE

(* A network or server fault, while the bound lasts. *)
Fault == faults < MaxFaults /\ faults' = faults + 1

-----------------------------------------------------------------------------
(* The executor. *)

(* runPhase returns; its deferred close drops both sockets. *)
Return(failed) ==
  /\ pc' = "returned" /\ err' = failed
  /\ datagrams' = {} /\ tcp' = "closed" /\ stream' = silence

(* openPhaseClient: UDP unless the scenario is TCP, TCP unless it is UDP. *)
openPhaseClient ==
  /\ pc = "open" /\ exit = "none"
  /\ next' = 1 /\ seq' = 0 /\ retried' = 0 /\ expired' = FALSE
  /\ \/ /\ pc' = "loop" /\ tcp' = (IF scenario = "udp" THEN "closed" ELSE "open")
        /\ summary' = emptySummary /\ UNCHANGED << faults, err, datagrams, stream >>
     \/ /\ Fault /\ summary' = [emptySummary EXCEPT !["failed"] = 1] /\ Return(TRUE)
  /\ UNCHANGED << runVars, phase, id, result, exit, clean, own >>

Query(i, kind, n) == [at |-> "server", id |-> i, kind |-> kind, seq |-> n, copy |-> 0]

large == IF scenario = "retry" THEN "large" ELSE "a"

(* for once || time.Now().Before(deadline): the query is written. Datagrams *)
(* that are too old to be delivered are gone.                               *)
BeginExchange ==
  /\ pc = "loop" /\ (once \/ ~expired) /\ seq < MaxExchanges
  /\ summary["completed"] = 0 \/ ~once
  /\ id' = next /\ seq' = seq + 1
  /\ LET young == {d \in datagrams : d.seq + MaxAge >= seq'}
     IN IF scenario = "tcp"
          THEN /\ pc' = "tcp" /\ stream' = Query(next, "a", seq')
               /\ datagrams' = young
          ELSE /\ pc' = "udp" /\ datagrams' = young \cup {Query(next, large, seq')}
               /\ UNCHANGED stream
  /\ UNCHANGED << runVars, faults, tcp, mainVars, expired, next, summary, retried, own >>

(* The exchange succeeded: it is counted, and the ID moves on by two, past  *)
(* the ID a retry would have used; 0 is left out.                           *)
Completed(n) ==
  /\ summary' = [summary EXCEPT !["completed"] = @ + 1, !["retries"] = @ + n]
  /\ pc' = "loop"
  /\ next' = IF once THEN next
             ELSE IF (next + 2) % Modulus = 0 THEN 1 ELSE (next + 2) % Modulus
  /\ UNCHANGED mainVars

(* An error ends the phase. The retry of a failed exchange is counted too.  *)
Aborted(outcome, n) ==
  /\ summary' = [summary EXCEPT ![outcome] = @ + 1, !["retries"] = @ + n]
  /\ Return(TRUE)
  /\ UNCHANGED << phase, result, exit, clean, next >>

retryID == IF (id + 1) % Modulus = 0 THEN 1 ELSE (id + 1) % Modulus

(* validate, with the callers' length and TC checks: the kind of response   *)
(* and the ID. The ID of a retry is a new one.                              *)
AcceptsAnyID(r, kind, i) == r.kind = kind

Accepts(r, kind, i) == r.kind = kind /\ r.id = i

(* exchangeUDP reads one datagram; a truncated answer is retried over TCP.  *)
ReadUDP(d) ==
  /\ pc = "udp" /\ d \in datagrams /\ d.at = "client"
  /\ IF ~Accepts(d, IF scenario = "retry" THEN "tc" ELSE "a", id)
       THEN Aborted("malformed", 0) /\ UNCHANGED << own, retried >>
     ELSE /\ own' = (own /\ d.seq = seq)
          /\ IF scenario = "udp"
               THEN /\ Completed(0) /\ datagrams' = datagrams \ {d}
                    /\ UNCHANGED << tcp, stream, retried >>
             ELSE IF tcp = "closed"
               THEN /\ Aborted("failed", 1) /\ retried' = retried + 1
             ELSE /\ pc' = "tcp" /\ retried' = retried + 1
                  /\ datagrams' = datagrams \ {d}
                  /\ stream' = Query(retryID, "large", seq)
                  /\ UNCHANGED << tcp, summary, next, mainVars >>
  /\ UNCHANGED << runVars, faults, expired, id, seq >>

(* The write or the read of the UDP socket fails. *)
UDPFails ==
  /\ pc = "udp" /\ Fault /\ Aborted("failed", 0)
  /\ UNCHANGED << runVars, expired, id, seq, retried, own >>

retries == IF scenario = "retry" THEN 1 ELSE 0

(* exchangeTCP reads one framed message and validates it. *)
ReadTCP ==
  /\ pc = "tcp" /\ stream.at = "client"
  /\ IF Accepts(stream, large, IF scenario = "retry" THEN retryID ELSE id)
       THEN /\ Completed(retries) /\ stream' = silence /\ own' = (own /\ stream.seq = seq)
            /\ UNCHANGED << datagrams, tcp >>
       ELSE Aborted("malformed", retries) /\ UNCHANGED own
  /\ UNCHANGED << runVars, faults, expired, id, seq, retried >>

(* The connection ended under a read, or a write. *)
TCPEnds ==
  /\ pc = "tcp" /\ tcp = "closed"
  /\ Aborted("failed", retries)
  /\ UNCHANGED << runVars, faults, expired, id, seq, retried, own >>

(* The five seconds pass: nothing is on its way, or it comes too late. *)
awaited == IF pc = "udp" THEN \E d \in datagrams : d.seq = seq
           ELSE tcp = "closed" \/ stream # silence

TimeoutTCPOnly ==
  /\ pc = "tcp"
  /\ IF awaited THEN Fault ELSE UNCHANGED faults
  /\ Aborted("timedOut", retries)
  /\ UNCHANGED << runVars, expired, id, seq, retried, own >>

Timeout ==
  /\ pc \in {"udp", "tcp"}
  /\ IF awaited THEN Fault ELSE UNCHANGED faults
  /\ Aborted("timedOut", IF pc = "tcp" THEN retries ELSE 0)
  /\ UNCHANGED << runVars, expired, id, seq, retried, own >>

Expire ==
  /\ pc \in {"loop", "udp", "tcp"} /\ ~once /\ ~expired /\ expired' = TRUE
  /\ UNCHANGED << runVars, faults, netVars, pc, mainVars, id, next, summary, seq, retried,
                  own >>

(* break after the preflight's exchange, or the deadline. *)
EndLoop ==
  /\ pc = "loop" /\ (IF once THEN summary["completed"] = 1 ELSE expired)
  /\ Return(FALSE)
  /\ clean' = IF seq > 0 /\ summary["completed"] = seq THEN clean \cup {phase} ELSE clean
  /\ UNCHANGED << runVars, faults, phase, expired, id, next, summary, result, exit, seq,
                  retried, own >>

hasFailuresNotNone == \E o \in Outcomes \ {"completed"} : summary[o] # 0

hasFailures ==
  summary["completed"] = 0 \/ \E o \in Outcomes \ {"completed"} : summary[o] # 0

(* Run, when a phase has returned: the preflight's document goes to         *)
(* validation.json and result.json; the warm-up must be clean; a clean      *)
(* measurement replaces result.json.                                        *)
AfterPhase ==
  /\ pc = "returned" /\ exit = "none"
  /\ CASE phase = "preflight" ->
            /\ result' = IF err \/ hasFailures THEN "invalid" ELSE "valid"
            /\ exit' = IF err THEN "1" ELSE IF validationOnly THEN "0"
                       ELSE IF ~profile THEN "2" ELSE "none"
            /\ phase' = IF exit' = "none" THEN "warmup" ELSE phase
       [] phase = "warmup" ->
            /\ exit' = IF err \/ hasFailures THEN "1" ELSE "none"
            /\ phase' = IF exit' = "none" THEN "measured" ELSE phase
            /\ UNCHANGED result
       [] phase = "measured" ->
            /\ exit' = IF err \/ hasFailures THEN "1" ELSE "0"
            /\ result' = IF err \/ hasFailures THEN result ELSE "measured"
            /\ UNCHANGED phase
  /\ pc' = IF exit' = "none" THEN "open" ELSE "returned"
  /\ UNCHANGED << runVars, faults, netVars, expired, id, next, summary, err, clean, seq,
                  retried, own >>

-----------------------------------------------------------------------------
(* go-dns-classic-authority, and the network. *)

(* responseFor: ID 0 is rejected, a large answer does not fit a datagram. *)
responseFor(q, udp) ==
  [q EXCEPT !.at = "client", !.kind = IF @ = "large" /\ udp THEN "tc" ELSE @]

serveUDP(d) ==
  /\ d \in datagrams /\ d.at = "server"
  /\ datagrams' = (datagrams \ {d}) \cup (IF d.id = 0 THEN {} ELSE {responseFor(d, TRUE)})
  /\ UNCHANGED << runVars, faults, tcp, stream, pc, mainVars, expired, id, next, summary,
                  seq, retried, own >>

(* A rejected query closes the connection. *)
handleTCP ==
  /\ tcp = "open" /\ stream.at = "server"
  /\ IF stream.id = 0 THEN tcp' = "closed" /\ stream' = silence
     ELSE stream' = responseFor(stream, FALSE) /\ UNCHANGED tcp
  /\ UNCHANGED << runVars, faults, datagrams, pc, mainVars, expired, id, next, summary, seq,
                  retried, own >>

Lose(d) ==
  /\ d \in datagrams /\ Fault /\ datagrams' = datagrams \ {d}
  /\ UNCHANGED << runVars, tcp, stream, pc, mainVars, expired, id, next, summary, seq,
                  retried, own >>

Duplicate(d) ==
  /\ d \in datagrams /\ d.copy = 0 /\ Fault
  /\ datagrams' = datagrams \cup {[d EXCEPT !.copy = 1]}
  /\ UNCHANGED << runVars, tcp, stream, pc, mainVars, expired, id, next, summary, seq,
                  retried, own >>

(* Another answer than the fixture's, over UDP or TCP. *)
WrongAnswer ==
  /\ Fault
  /\ \/ /\ \E d \in datagrams :
              /\ d.at = "server"
              /\ datagrams' = (datagrams \ {d})
                               \cup {[d EXCEPT !.at = "client", !.kind = "other"]}
        /\ UNCHANGED stream
     \/ /\ stream.at = "server" /\ stream' = [stream EXCEPT !.at = "client", !.kind = "other"]
        /\ UNCHANGED datagrams
  /\ UNCHANGED << runVars, tcp, pc, mainVars, expired, id, next, summary, seq, retried, own >>

CloseTCP ==
  /\ tcp = "open" /\ Fault /\ tcp' = "closed" /\ stream' = silence
  /\ UNCHANGED << runVars, datagrams, pc, mainVars, expired, id, next, summary, seq, retried,
                  own >>

ClientStep ==
  \/ openPhaseClient \/ BeginExchange \/ ReadTCP \/ TCPEnds \/ Timeout \/ EndLoop
  \/ AfterPhase \/ \E d \in datagrams : ReadUDP(d)

ServerStep == handleTCP \/ \E d \in datagrams : serveUDP(d)

DnsNext ==
  \/ ClientStep \/ ServerStep \/ Expire \/ UDPFails \/ WrongAnswer \/ CloseTCP
  \/ \E d \in datagrams : Lose(d) \/ Duplicate(d)

DnsSpec == DnsInit /\ [][DnsNext]_dnsVars

(* Executor and authority run, and the clock does. Nothing obliges the      *)
(* network to misbehave.                                                    *)
DnsFairness == WF_dnsVars(ClientStep) /\ WF_dnsVars(ServerStep) /\ WF_dnsVars(Expire)

FairDnsSpec == DnsSpec /\ DnsFairness

-----------------------------------------------------------------------------
Messages == [at : {"nowhere", "server", "client"}, id : 0..(Modulus - 1),
             kind : {"none", "a", "tc", "large", "other"}, seq : 0..MaxExchanges,
             copy : {0, 1}]

(* The variables keep their types; a message ID fits its sixteen bits. *)
DnsTypeOK ==
  /\ scenario \in Scenarios /\ validationOnly \in BOOLEAN /\ profile \in BOOLEAN
  /\ faults \in 0..MaxFaults /\ datagrams \subseteq Messages
  /\ tcp \in {"open", "closed"} /\ stream \in Messages
  /\ pc \in {"open", "loop", "udp", "tcp", "returned"}
  /\ phase \in {"preflight", "warmup", "measured"} /\ expired \in BOOLEAN
  /\ id \in 0..(Modulus - 1) /\ next \in 0..(Modulus - 1)
  /\ summary \in [Outcomes \cup {"retries"} -> 0..MaxExchanges] /\ err \in BOOLEAN
  /\ result \in {"none", "invalid", "valid", "measured"}
  /\ exit \in {"none", "0", "1", "2"}

(* Every response an exchange accepted answers that exchange's own query:   *)
(* although IDs are sixteen bits wide and come round, a duplicate or a late *)
(* datagram of an earlier exchange is never taken for the answer.           *)
ResponsesAreOwn == own

(* retryCount counts every TCP retry once, whether the retried exchange     *)
(* succeeds, fails, times out or is malformed.                              *)
RetriesAreCounted ==
  pc # "open" =>
    summary["retries"] + (IF pc = "tcp" THEN retries ELSE 0) = retried

(* Each exchange is its own: its answer, and its retry in the count. *)
ExchangesAreOwn == ResponsesAreOwn /\ RetriesAreCounted

(* result.json is replaced by the measurement only when all three phases    *)
(* were clean: every exchange begun in them succeeded, and there was one.   *)
ResultIsEarned ==
  result = "measured" => exit = "0" /\ clean = {"preflight", "warmup", "measured"}

(* A network that does nothing wrong makes no run fail, round after round   *)
(* of message IDs, unless a phase is over before its first exchange.        *)
FailureHasCause == exit = "1" /\ faults = 0 => summary["completed"] = 0

(* The variables keep their types, and main's result is neither unearned    *)
(* nor spoilt by the executor itself.                                       *)
ClassicResultIsEarned == DnsTypeOK /\ ResultIsEarned /\ FailureHasCause

(* The executor ends whatever is lost: every exchange has its deadline, and *)
(* every phase.                                                             *)
ExecutorEnds == <>(exit # "none")
=============================================================================
