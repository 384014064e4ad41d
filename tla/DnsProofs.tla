----------------------------- MODULE DnsProofs ------------------------------
(***************************************************************************)
(* Proofs for the DNS components: over UDP and TCP (ClassicDns), then over *)
(* TLS, QUIC and HTTP (SecureDns). The two share no state and no lemma.    *)
(***************************************************************************)
EXTENDS ClassicDns, SecureDns, TLAPS

-----------------------------------------------------------------------------
(***************************************************************************)
(* Proofs for ClassicDns, for every number of message IDs, age of a        *)
(* datagram, length of a phase and number of faults that DnsAssumption     *)
(* admits.                                                                 *)
(*                                                                         *)
(* That no exchange takes another's answer rests on the numbering. Within  *)
(* a phase the IDs are odd and advance by two, so the ID of an exchange is *)
(* that of an earlier datagram plus two for every exchange in between,     *)
(* less at most one turn of the ID space (Ahead). A datagram that is still *)
(* delivered is at most MaxAge exchanges old and 2 * MaxAge < Modulus:     *)
(* equal IDs mean the same exchange. The rest of the invariant says what   *)
(* the summary holds at every point of the loop, which phases are over,    *)
(* and what a network without a fault has in flight.                       *)
(***************************************************************************)

Working == {"loop", "udp", "tcp"}

(* The ID of exchange n is as many steps of two past a datagram's as        *)
(* exchanges lie between them, with at most one turn of the ID space.       *)
Ahead(d, i, n) == \/ i = d.id + 2 * (n - d.seq)
                  \/ i = d.id + 2 * (n - d.seq) - Modulus

(* What is in flight is young and numbered in step with its exchange. *)
InStep ==
  /\ id % 2 = 1 \/ pc \notin {"udp", "tcp"}
  /\ next % 2 = 1
  /\ pc \in {"udp", "tcp"} =>
       /\ id = next /\ seq > 0
       /\ \A d \in datagrams : d.seq <= seq /\ seq - d.seq <= MaxAge /\ Ahead(d, id, seq)
  /\ pc = "loop" /\ ~once =>
       \A d \in datagrams : d.seq <= seq /\ seq - d.seq <= MaxAge /\ Ahead(d, next, seq + 1)
  /\ pc = "loop" /\ seq = 0 => datagrams = {}
  /\ pc = "tcp" => stream = silence \/ stream.seq = seq
  /\ pc # "tcp" => stream = silence
  /\ pc \notin Working => datagrams = {} /\ tcp = "closed"

(* The summary of a phase under way. *)
Tallied ==
  /\ seq \in 0..MaxExchanges /\ retried \in Nat
  /\ pc \in Working =>
       /\ ~err /\ exit = "none"
       /\ \A o \in Outcomes \ {"completed"} : summary[o] = 0
       /\ summary["completed"] + (IF pc = "loop" THEN 0 ELSE 1) = seq
       /\ summary["retries"] = IF scenario = "retry" THEN summary["completed"] ELSE 0
       /\ retried = summary["retries"] + (IF pc = "tcp" THEN retries ELSE 0)
       /\ once => seq <= 1
  /\ pc = "returned" => summary["retries"] = retried
  /\ pc = "open" => ~err
  /\ pc = "udp" => scenario # "tcp"
  /\ pc = "tcp" => scenario # "udp"

Phases == {"preflight", "warmup", "measured"}
Before == [preflight |-> {}, warmup |-> {"preflight"}, measured |-> {"preflight", "warmup"}]

(* What Run knows of the phases that are over. *)
Earned ==
  /\ clean \subseteq Phases /\ Before[phase] \subseteq clean
  /\ pc = "returned" /\ ~err =>
       /\ \A o \in Outcomes \ {"completed"} : summary[o] = 0
       /\ (summary["completed"] > 0 => phase \in clean)
       /\ (phase = "preflight" => summary["completed"] = 1)
  /\ exit # "none" => pc = "returned"
  /\ result = "measured" => exit = "0" /\ clean = Phases
  /\ own \in BOOLEAN /\ own

(* Without a fault the one message under way is the exchange's own. *)
Faultless ==
  faults = 0 =>
    /\ ~err
    /\ exit = "1" => summary["completed"] = 0
    /\ pc \in {"loop", "tcp"} => datagrams = {}
    /\ pc = "udp" => \E d \in datagrams :
         /\ datagrams = {d} /\ d.id = id /\ d.seq = seq
         /\ \/ d.at = "server" /\ d.kind = large
            \/ d.at = "client" /\ d.kind = IF scenario = "retry" THEN "tc" ELSE "a"
    /\ pc \in Working /\ scenario # "udp" => tcp = "open"
    /\ pc = "tcp" =>
         /\ stream.id = (IF scenario = "retry" THEN retryID ELSE id)
         /\ stream.at \in {"server", "client"} /\ stream.kind = large

ClassicInv == DnsTypeOK /\ InStep /\ Tallied /\ Earned /\ Faultless
-----------------------------------------------------------------------------
(* The bounds are numbers, and 0 and 1 are message IDs. *)
LEMMA DnsBounds ==
  /\ MaxFaults \in Nat /\ MaxExchanges \in Nat /\ MaxExchanges > 0 /\ MaxAge \in Nat
  /\ 0 \in 0..(Modulus - 1) /\ 1 \in 0..(Modulus - 1)
BY DnsAssumption

(* One step of the ID, and of the retry ID, in arithmetic without %. *)
LEMMA ModTwo ==
  ASSUME NEW n \in 0..(Modulus - 1)
  PROVE  (n + 2) % Modulus = IF n + 2 < Modulus THEN n + 2 ELSE n + 2 - Modulus
BY DnsAssumption

LEMMA ModOne ==
  ASSUME NEW n \in 0..(Modulus - 1)
  PROVE  (n + 1) % Modulus = IF n + 1 < Modulus THEN n + 1 ELSE 0
BY DnsAssumption

(* The next ID of the loop is odd again, hence never the 0 that is left out. *)
LEMMA NextOdd ==
  ASSUME NEW n \in 0..(Modulus - 1), n % 2 = 1
  PROVE  LET m == (n + 2) % Modulus
         IN /\ m \in 0..(Modulus - 1) /\ m % 2 = 1 /\ m # 0
            /\ m = n + 2 \/ m = n + 2 - Modulus
BY ModTwo, DnsAssumption

(* The ID of a retry is a message ID, and not 0. *)
LEMMA RetryIDRange ==
  ASSUME id \in 0..(Modulus - 1)
  PROVE  retryID \in 0..(Modulus - 1) /\ retryID # 0
BY ModOne, DnsAssumption DEF retryID

LEMMA SilenceType == silence \in Messages
BY DnsAssumption DEF silence, Messages

(* The executor starts in the invariant. *)
LEMMA DnsInitInv == DnsInit => ClassicInv
<1> SUFFICES ASSUME DnsInit PROVE ClassicInv
  BY Zenon
<1> USE DnsBounds DEF DnsInit, emptySummary, Outcomes
<1>0. summary \in [Outcomes \cup {"retries"} -> 0..MaxExchanges]
  OBVIOUS
<1>1. DnsTypeOK
  <2>1. validationOnly \in BOOLEAN /\ profile \in BOOLEAN /\ expired \in BOOLEAN /\ err \in BOOLEAN
    BY Zenon
  <2>2. /\ faults \in 0..MaxFaults /\ id \in 0..(Modulus - 1) /\ next \in 0..(Modulus - 1)
        /\ stream \in Messages
    BY SilenceType
  <2> QED
    BY <1>0, <2>1, <2>2, Zenon DEF DnsTypeOK
<1>2. InStep
  BY DEF InStep, Working
<1>3. Tallied
  BY DEF Tallied, Working
<1>4. Earned
  BY Zenon DEF Earned, Phases, Before
<1>5. Faultless
  BY Zenon DEF Faultless, Working
<1> QED
  BY <1>1, <1>2, <1>3, <1>4, <1>5, Zenon DEF ClassicInv

(* An exchange that fails after a fault ends its phase, counted once. *)
LEMMA AbortInv ==
  ASSUME ClassicInv, pc \in {"udp", "tcp"},
         NEW o \in Outcomes \ {"completed"}, NEW n \in {0, 1}, Aborted(o, n),
         UNCHANGED << runVars, expired, id, seq, own >>,
         retried' = summary["retries"] + n, n <= retries,
         faults' \in 1..MaxFaults
  PROVE  ClassicInv'
<1> USE DnsBounds DEF ClassicInv, Aborted, Return, runVars
<1>0. /\ summary'["retries"] = summary["retries"] + n /\ summary'[o] = 1
      /\ summary' \in [Outcomes \cup {"retries"} -> 0..MaxExchanges]
  <2>1. /\ summary \in [Outcomes \cup {"retries"} -> 0..MaxExchanges]
        /\ summary[o] = 0 /\ summary["retries"] + n \in 0..MaxExchanges
    BY DEF DnsTypeOK, Tallied, Working, retries, Outcomes
  <2> QED
    BY <2>1 DEF Outcomes
<1>1. DnsTypeOK'
  BY <1>0, SilenceType DEF DnsTypeOK
<1>2. InStep'
  BY Zenon DEF InStep, Working
<1>3. Tallied'
  BY DEF Tallied, Working, DnsTypeOK, Outcomes
<1>4. Earned'
  BY Zenon DEF Earned, Phases, Before, Tallied, Working
<1>5. Faultless'
  BY DEF Faultless, Working
<1> QED
  BY <1>1, <1>2, <1>3, <1>4, <1>5, Zenon

(* An exchange that succeeds is counted, and the numbering stays in step. *)
LEMMA CompletedInv ==
  ASSUME ClassicInv, pc \in {"udp", "tcp"}, Completed(retries),
         datagrams' \subseteq datagrams, stream' = silence, own',
         faults = 0 => datagrams' = {},
         retried = summary["retries"] + retries,
         UNCHANGED << runVars, faults, tcp, expired, id, seq, retried >>
  PROVE  ClassicInv'
<1> USE DnsBounds DEF ClassicInv, Completed, runVars, mainVars, once
<1>0. /\ summary'["retries"] = summary["retries"] + retries
      /\ summary'["completed"] = summary["completed"] + 1
      /\ \A o \in Outcomes \ {"completed"} : summary'[o] = 0
      /\ summary' \in [Outcomes \cup {"retries"} -> 0..MaxExchanges]
  <2>1. /\ summary \in [Outcomes \cup {"retries"} -> 0..MaxExchanges]
        /\ \A o \in Outcomes \ {"completed"} : summary[o] = 0
        /\ summary["completed"] + 1 = seq /\ seq \in 0..MaxExchanges
        /\ summary["retries"] = IF scenario = "retry" THEN summary["completed"] ELSE 0
    BY Zenon DEF DnsTypeOK, Tallied, Working
  <2>2. summary["completed"] \in Nat
    BY <2>1 DEF Outcomes
  <2>3. /\ summary["completed"] + 1 \in 0..MaxExchanges
        /\ summary["retries"] + retries \in 0..MaxExchanges
    BY ONLY <2>1, <2>2, DnsBounds DEF retries
  <2> QED
    BY <2>1, <2>3, Zenon DEF Outcomes
<1>1. DnsTypeOK'
  <2>1. next' \in 0..(Modulus - 1)
    BY NextOdd, Zenon DEF DnsTypeOK, InStep
  <2> QED
    BY <1>0, <2>1, SilenceType DEF DnsTypeOK
<1>2. InStep'
  <2>1. /\ next' \in 1..(Modulus - 1) /\ next' % 2 = 1
        /\ ~once => next' = next + 2 \/ next' = next + 2 - Modulus
    BY NextOdd DEF DnsTypeOK, InStep
  <2>2. ASSUME ~once, NEW d \in datagrams'
        PROVE  d.seq <= seq /\ seq - d.seq <= MaxAge /\ Ahead(d, next', seq + 1)
    <3>1. /\ d \in Messages /\ id = next
          /\ d.seq <= seq /\ seq - d.seq <= MaxAge /\ Ahead(d, id, seq)
      BY Zenon DEF InStep, DnsTypeOK
    <3>2. d.id \in 0..(Modulus - 1) /\ d.seq \in Nat
      BY <3>1 DEF Messages
    <3>3. seq \in Nat /\ next \in 0..(Modulus - 1)
      BY DEF Tallied, DnsTypeOK
    <3> QED
      BY ONLY DnsAssumption, <2>1, <2>2, <3>1, <3>2, <3>3 DEF Ahead
  <2> QED
    BY <2>1, <2>2 DEF InStep, Working
<1>3. Tallied'
  BY <1>0 DEF Tallied, Working, DnsTypeOK, Outcomes, retries
<1>4. Earned'
  BY Zenon DEF Earned, Phases, Before, Tallied, Working
<1>5. Faultless'
  BY Zenon DEF Faultless, Working, Tallied
<1> QED
  BY <1>1, <1>2, <1>3, <1>4, <1>5, Zenon

(* A step of the network: what is in flight afterwards comes from what was  *)
(* in flight, and the executor does not move.                               *)
Executor == << scenario, validationOnly, profile, pc, phase, err, result, exit, clean, expired, id,
               next, summary, seq, retried, own >>

NetStep ==
  /\ pc \in Working /\ UNCHANGED Executor
  /\ \A d \in datagrams' : d \in Messages /\ \E e \in datagrams : d.id = e.id /\ d.seq = e.seq
  /\ stream' \in Messages /\ tcp' \in {"open", "closed"}
  /\ stream' = silence \/ stream' = stream \/ (stream'.seq = stream.seq /\ stream # silence)
  /\ faults' \in 0..MaxFaults

LEMMA NetInv == ClassicInv /\ NetStep /\ Faultless' => ClassicInv'
<1> SUFFICES ASSUME ClassicInv, NetStep, Faultless' PROVE ClassicInv'
  BY Zenon
<1> USE DEF ClassicInv, NetStep, Executor
<1>1. DnsTypeOK'
  BY DEF DnsTypeOK
<1>2. InStep'
  BY Zenon DEF InStep, Working, Ahead, once
<1>3. Tallied'
  BY Zenon DEF Tallied, Working, retries, once
<1>4. Earned'
  BY Zenon DEF Earned
<1> QED
  BY <1>1, <1>2, <1>3, <1>4, Zenon

(* responseFor answers a query: the same ID, the same exchange. *)
LEMMA ResponseParts ==
  ASSUME NEW q \in Messages, NEW udp \in BOOLEAN
  PROVE  LET r == responseFor(q, udp)
         IN /\ r \in Messages /\ r.id = q.id /\ r.seq = q.seq /\ r.at = "client" /\ r # silence
            /\ r.kind = IF q.kind = "large" /\ udp THEN "tc" ELSE q.kind
<1> DEFINE k == IF q.kind = "large" /\ udp THEN "tc" ELSE q.kind
           r == responseFor(q, udp)
<1>1. q.kind \in {"none", "a", "tc", "large", "other"}
  BY Zenon DEF Messages
<1>2. k \in {"none", "a", "tc", "large", "other"}
  BY <1>1, Zenon
<1>3. r = [q EXCEPT !.at = "client", !.kind = k]
  BY Zenon DEF responseFor
<1> HIDE DEF k, r
<1>4. r \in Messages /\ r.id = q.id /\ r.seq = q.seq /\ r.at = "client" /\ r.kind = k /\ r # silence
  <2>1. /\ r.id = q.id /\ r.seq = q.seq /\ r.at = "client" /\ r.kind = k
        /\ r = [at |-> "client", id |-> q.id, kind |-> k, seq |-> q.seq, copy |-> q.copy]
    BY <1>3, Zenon DEF Messages
  <2>2. silence.at = "nowhere"
    BY Zenon DEF silence
  <2> QED
    BY <1>2, <2>1, <2>2 DEF Messages
<1> QED
  BY <1>4, Zenon DEF k, r

(* The authority answers over TCP; without a fault it has nothing to reject. *)
LEMMA handleTCPInv == ClassicInv /\ handleTCP => ClassicInv'
<1> SUFFICES ASSUME ClassicInv, handleTCP PROVE ClassicInv'
  BY Zenon
<1>1. DnsTypeOK /\ InStep /\ Faultless
  BY Zenon DEF ClassicInv
<1>2. pc = "tcp" /\ pc \in Working /\ stream # silence
  BY <1>1 DEF handleTCP, InStep, Working, silence
<1>3. stream \in Messages /\ datagrams \subseteq Messages
  BY <1>1, Zenon DEF DnsTypeOK
<1>4. CASE stream.id = 0
  <2>1. faults # 0
    BY <1>1, <1>2, <1>4, RetryIDRange DEF Faultless, InStep, DnsTypeOK
  <2>2. Faultless'
    BY <1>1, <1>4, <2>1, Zenon DEF Faultless, handleTCP, runVars, mainVars, Working, large
  <2>3. NetStep
    BY <1>1, <1>2, <1>3, <1>4, SilenceType, Zenon
       DEF NetStep, Executor, handleTCP, runVars, mainVars, DnsTypeOK
  <2> QED
    BY <2>2, <2>3, NetInv, Zenon
<1>5. CASE stream.id # 0
  <2>1. /\ stream' \in Messages /\ stream'.id = stream.id /\ stream'.seq = stream.seq
        /\ stream'.at = "client" /\ stream'.kind = stream.kind
    <3>1. stream' = responseFor(stream, FALSE)
      BY <1>5, Zenon DEF handleTCP
    <3> QED
      BY <1>3, <3>1, ResponseParts, Zenon
  <2>2. Faultless'
    BY <1>1, <1>2, <1>5, <2>1, Zenon
       DEF Faultless, Working, retryID, large, handleTCP, runVars, mainVars
  <2>3. NetStep
    BY <1>1, <1>2, <1>3, <1>5, <2>1, Zenon
       DEF NetStep, Executor, handleTCP, runVars, mainVars, DnsTypeOK
  <2> QED
    BY <2>2, <2>3, NetInv, Zenon
<1> QED
  BY <1>4, <1>5, Zenon

(* The authority answers a datagram. *)
LEMMA serveUDPInv ==
  ASSUME ClassicInv, NEW d \in datagrams, serveUDP(d)
  PROVE  ClassicInv'
<1>1. DnsTypeOK /\ InStep /\ Faultless
  BY Zenon DEF ClassicInv
<1>2. pc \in Working /\ d \in Messages
  BY <1>1, Zenon DEF InStep, DnsTypeOK
<1> DEFINE r == responseFor(d, TRUE)
<1>3. /\ r \in Messages /\ r.id = d.id /\ r.seq = d.seq /\ r.at = "client"
      /\ r.kind = IF d.kind = "large" THEN "tc" ELSE d.kind
  BY <1>2, ResponseParts, Zenon
<1>4. datagrams' = (datagrams \ {d}) \cup (IF d.id = 0 THEN {} ELSE {r})
  BY Zenon DEF serveUDP
<1> HIDE DEF r
<1>5. \A e \in datagrams' : e \in Messages /\ \E f \in datagrams : e.id = f.id /\ e.seq = f.seq
  BY <1>1, <1>3, <1>4, Zenon DEF DnsTypeOK
<1>6. Faultless'
  <2>1. ASSUME faults = 0, pc = "udp"
        PROVE  \E e \in datagrams' :
                 /\ datagrams' = {e} /\ e.id = id /\ e.seq = seq
                 /\ e.at = "client" /\ e.kind = IF scenario = "retry" THEN "tc" ELSE "a"
    <3>1. datagrams = {d} /\ d.id = id /\ d.seq = seq /\ d.kind = large
      BY <1>1, <2>1, Zenon DEF Faultless, serveUDP
    <3>2. id # 0
      BY <1>1, <2>1 DEF InStep
    <3>3. datagrams' = {r}
      BY <1>4, <3>1, <3>2, Zenon
    <3> QED
      BY <3>1, <3>3, <1>3, Zenon DEF large
  <2> QED
    BY <1>1, <1>2, <2>1, Zenon
       DEF Faultless, Working, retryID, large, serveUDP, runVars, mainVars
<1>7. NetStep
  BY <1>1, <1>2, <1>5, Zenon DEF NetStep, Executor, serveUDP, runVars, mainVars, DnsTypeOK
<1> QED
  BY <1>6, <1>7, NetInv, Zenon

(* A wrong answer, a closed connection, a lost or a duplicated datagram. *)
LEMMA FaultyNetInv ==
  ASSUME ClassicInv,
         WrongAnswer \/ CloseTCP \/ \E d \in datagrams : Lose(d) \/ Duplicate(d)
  PROVE  ClassicInv'
<1>1. DnsTypeOK /\ InStep
  BY Zenon DEF ClassicInv
<1>2. faults' \in 1..MaxFaults
  <2>1. Fault
    BY Zenon DEF WrongAnswer, CloseTCP, Lose, Duplicate
  <2> QED
    BY <1>1, <2>1, DnsBounds DEF Fault, DnsTypeOK
<1>3. Faultless'
  BY <1>2 DEF Faultless
<1>4. UNCHANGED Executor
  BY Zenon DEF WrongAnswer, CloseTCP, Lose, Duplicate, Executor, runVars, mainVars
<1>5. pc \in Working
  <2>1. datagrams # {} \/ stream.at = "server" \/ tcp = "open"
    BY Zenon DEF WrongAnswer, CloseTCP
  <2> QED
    BY <1>1, <2>1 DEF InStep, Working, silence
<1> DEFINE Altered(d, e) == \/ e = [d EXCEPT !.at = "client", !.kind = "other"]
                            \/ e = [d EXCEPT !.copy = 1]
<1>6. ASSUME NEW d \in datagrams, NEW e, Altered(d, e)
      PROVE  e \in Messages /\ e.id = d.id /\ e.seq = d.seq
  <2>1. d \in Messages
    BY <1>1, Zenon DEF DnsTypeOK
  <2>2. CASE e = [d EXCEPT !.at = "client", !.kind = "other"]
    <3>1. /\ e.id = d.id /\ e.seq = d.seq
          /\ e = [at |-> "client", id |-> d.id, kind |-> "other", seq |-> d.seq, copy |-> d.copy]
      BY <2>1, <2>2, Zenon DEF Messages
    <3> QED
      BY <2>1, <3>1, Zenon DEF Messages
  <2>3. CASE e = [d EXCEPT !.copy = 1]
    <3>1. /\ e.id = d.id /\ e.seq = d.seq
          /\ e = [at |-> d.at, id |-> d.id, kind |-> d.kind, seq |-> d.seq, copy |-> 1]
      BY <2>1, <2>3, Zenon DEF Messages
    <3> QED
      BY <2>1, <3>1, Zenon DEF Messages
  <2> QED
    BY <1>6, <2>2, <2>3, Zenon
<1>7. \A e \in datagrams' : e \in Messages /\ \E f \in datagrams : e.id = f.id /\ e.seq = f.seq
  <2>1. ASSUME NEW e \in datagrams', e \notin datagrams
        PROVE  \E d \in datagrams : Altered(d, e)
    BY <2>1, Zenon DEF WrongAnswer, CloseTCP, Lose, Duplicate
  <2> HIDE DEF Altered
  <2> QED
    BY <1>1, <1>6, <2>1, Zenon DEF DnsTypeOK
<1>8. /\ stream' \in Messages
      /\ stream' = silence \/ stream' = stream \/ (stream'.seq = stream.seq /\ stream # silence)
  <2>1. ASSUME stream.at = "server", stream' = [stream EXCEPT !.at = "client", !.kind = "other"]
        PROVE  stream' \in Messages /\ stream'.seq = stream.seq /\ stream # silence
    <3>1. /\ stream'.seq = stream.seq
          /\ stream' = [at |-> "client", id |-> stream.id, kind |-> "other",
                        seq |-> stream.seq, copy |-> stream.copy]
      BY <1>1, <2>1, Zenon DEF Messages, DnsTypeOK
    <3> QED
      BY <1>1, <2>1, <3>1 DEF Messages, DnsTypeOK, silence
  <2> QED
    BY <1>1, <2>1, SilenceType, Zenon DEF WrongAnswer, CloseTCP, Lose, Duplicate, DnsTypeOK
<1>9. NetStep
  <2>1. tcp' = tcp \/ tcp' = "closed"
    BY Zenon DEF WrongAnswer, CloseTCP, Lose, Duplicate
  <2> QED
    BY <1>1, <1>2, <1>4, <1>5, <1>7, <1>8, <2>1 DEF NetStep, DnsTypeOK
<1> QED
  BY <1>3, <1>9, NetInv, Zenon

(* exchangeUDP: an accepted datagram has the ID of the exchange, so it is   *)
(* the exchange's own; then the exchange succeeds or is retried over TCP.   *)
LEMMA ReadUDPInv ==
  ASSUME ClassicInv, NEW d \in datagrams, ReadUDP(d)
  PROVE  ClassicInv'
<1>1. DnsTypeOK /\ InStep /\ Tallied /\ Earned /\ Faultless
  BY Zenon DEF ClassicInv
<1>2. pc = "udp" /\ d \in Messages /\ retried = summary["retries"] /\ summary["retries"] \in Nat
  BY <1>1 DEF ReadUDP, DnsTypeOK, Tallied, Working, Outcomes
<1>3. UNCHANGED << runVars, faults, expired, id, seq >>
  BY Zenon DEF ReadUDP
<1> DEFINE kind == IF scenario = "retry" THEN "tc" ELSE "a"
<1>4. faults = 0 => datagrams = {d} /\ d.kind = kind /\ d.id = id
  BY <1>1, <1>2, Zenon DEF Faultless, ReadUDP
<1>5. faults \in 0..MaxFaults
  BY <1>1, Zenon DEF DnsTypeOK
<1>6. CASE ~Accepts(d, kind, id)
  <2>1. Aborted("malformed", 0) /\ UNCHANGED << own, retried >>
    BY <1>6, Zenon DEF ReadUDP
  <2>2. faults' \in 1..MaxFaults
    BY <1>3, <1>4, <1>5, <1>6 DEF Accepts
  <2> QED
    BY <1>2, <1>3, <2>1, <2>2, AbortInv DEF Outcomes, retries
<1>7. CASE Accepts(d, kind, id)
  <2>1. d.seq = seq
    <3>1. d.id = id /\ d.seq <= seq /\ seq - d.seq <= MaxAge /\ Ahead(d, id, seq)
      BY <1>1, <1>2, <1>7, Zenon DEF Accepts, InStep
    <3>2. d.seq \in Nat /\ d.id \in Nat /\ seq \in Nat
      BY <1>1, <1>2 DEF Messages, Tallied
    <3> QED
      BY ONLY <3>1, <3>2, DnsAssumption DEF Ahead
  <2>2. own' = TRUE
    BY <1>1, <1>7, <2>1, Zenon DEF ReadUDP, Earned
  <2>3. CASE scenario = "udp"
    <3>1. /\ Completed(retries) /\ datagrams' = datagrams \ {d}
          /\ UNCHANGED << tcp, stream, retried >>
      BY <1>7, <2>3, Zenon DEF ReadUDP, retries
    <3> QED
      BY <1>1, <1>2, <1>3, <1>4, <2>2, <2>3, <3>1, CompletedInv DEF retries, InStep
  <2>4. CASE scenario # "udp" /\ tcp = "closed"
    <3>1. Aborted("failed", 1) /\ retried' = retried + 1
      BY <1>7, <2>4, Zenon DEF ReadUDP
    <3>2. faults' \in 1..MaxFaults
      BY <1>1, <1>2, <1>3, <1>5, <2>4 DEF Faultless, Working
    <3>3. retries = 1 /\ own' = own
      BY <1>1, <1>2, <2>2, <2>4, Zenon DEF Tallied, Scenarios, DnsTypeOK, retries, Earned
    <3> QED
      BY <1>2, <1>3, <3>1, <3>2, <3>3, AbortInv DEF Outcomes
  <2>5. CASE scenario # "udp" /\ tcp # "closed"
    <3> USE <1>1, <1>2, <1>3, <1>4, <2>5
    <3>1. /\ pc' = "tcp" /\ retried' = retried + 1
          /\ datagrams' = datagrams \ {d} /\ stream' = Query(retryID, "large", seq)
          /\ UNCHANGED << tcp, summary, next, mainVars >>
      BY <1>7, Zenon DEF ReadUDP
    <3>2. scenario = "retry" /\ seq \in 0..MaxExchanges
      BY Zenon DEF Tallied, DnsTypeOK, Scenarios
    <3>3. /\ stream' \in Messages /\ stream'.seq = seq /\ stream'.id = retryID
          /\ stream'.at = "server" /\ stream'.kind = "large"
      BY <3>1, <3>2, RetryIDRange, Zenon DEF Query, Messages, DnsTypeOK
    <3>4. DnsTypeOK'
      BY <3>1, <3>3, Zenon DEF DnsTypeOK, mainVars, runVars
    <3>5. InStep'
      BY <3>1, <3>3, Zenon DEF InStep, mainVars, runVars, Working, Ahead
    <3>6. Tallied'
      BY <3>1, <3>2 DEF Tallied, Working, mainVars, runVars, retries, once
    <3>7. Earned'
      BY <3>1, <2>2, Zenon DEF Earned, mainVars
    <3>8. Faultless'
      BY <3>1, <3>2, <3>3, Zenon DEF Faultless, mainVars, runVars, Working, retryID, large
    <3> QED
      BY <3>4, <3>5, <3>6, <3>7, <3>8, Zenon DEF ClassicInv
  <2> QED
    BY <2>3, <2>4, <2>5, Zenon
<1> QED
  BY <1>6, <1>7, Zenon

(* exchangeTCP. *)
LEMMA ReadTCPInv == ClassicInv /\ ReadTCP => ClassicInv'
<1> SUFFICES ASSUME ClassicInv, ReadTCP PROVE ClassicInv'
  BY Zenon
<1>1. DnsTypeOK /\ InStep /\ Tallied /\ Earned /\ Faultless
  BY Zenon DEF ClassicInv
<1>2. /\ pc = "tcp" /\ stream.at = "client" /\ retried = summary["retries"] + retries
      /\ summary["retries"] \in Nat /\ retries \in {0, 1} /\ faults \in 0..MaxFaults
  BY <1>1 DEF ReadTCP, DnsTypeOK, Tallied, Working, Outcomes, retries
<1>3. UNCHANGED << runVars, faults, expired, id, seq, retried >>
  BY Zenon DEF ReadTCP
<1> DEFINE i == IF scenario = "retry" THEN retryID ELSE id
<1>4. CASE ~Accepts(stream, large, i)
  <2>1. Aborted("malformed", retries) /\ UNCHANGED own
    BY <1>4, Zenon DEF ReadTCP
  <2>2. faults' \in 1..MaxFaults
    BY <1>1, <1>2, <1>3, <1>4 DEF Accepts, Faultless
  <2> QED
    BY <1>2, <1>3, <2>1, <2>2, AbortInv DEF Outcomes
<1>5. CASE Accepts(stream, large, i)
  <2>1. stream.seq = seq
    BY <1>1, <1>2 DEF InStep, silence
  <2>2. /\ Completed(retries) /\ stream' = silence /\ own' = TRUE
        /\ UNCHANGED << datagrams, tcp >>
    BY <1>1, <1>5, <2>1, Zenon DEF ReadTCP, Earned
  <2>3. faults = 0 => datagrams' = {}
    BY <1>1, <1>2, <2>2, Zenon DEF Faultless
  <2> QED
    BY <1>2, <1>3, <2>2, <2>3, CompletedInv, Zenon
<1> QED
  BY <1>4, <1>5, Zenon

(* A socket fails or a deadline passes: a fault came before, or comes now. *)
LEMMA GivesUpInv == ClassicInv /\ (UDPFails \/ TCPEnds \/ Timeout) => ClassicInv'
<1> SUFFICES ASSUME ClassicInv, UDPFails \/ TCPEnds \/ Timeout PROVE ClassicInv'
  BY Zenon
<1>1. DnsTypeOK /\ InStep /\ Tallied /\ Faultless
  BY Zenon DEF ClassicInv
<1> DEFINE n == IF pc = "tcp" THEN retries ELSE 0
<1>2. /\ retries \in {0, 1} /\ n \in {0, 1} /\ n <= retries /\ faults \in 0..MaxFaults
      /\ MaxFaults \in Nat
  BY <1>1, DnsBounds DEF DnsTypeOK, retries
<1>3. pc \in {"udp", "tcp"} => retried = summary["retries"] + n
  BY <1>1, Zenon DEF Tallied, Working
<1>4. CASE UDPFails
  <2>1. pc = "udp" /\ Aborted("failed", n) /\ faults' = faults + 1 /\ faults < MaxFaults
    BY <1>4, Zenon DEF UDPFails, Fault
  <2> QED
    BY <1>2, <1>3, <1>4, <2>1, AbortInv DEF UDPFails, Outcomes
<1>5. CASE TCPEnds
  <2>1. pc = "tcp" /\ tcp = "closed" /\ Aborted("failed", n) /\ faults' = faults
    BY <1>5, Zenon DEF TCPEnds
  <2>2. faults # 0
    BY <1>1, <2>1, Zenon DEF Faultless, Tallied, Working
  <2> QED
    BY <1>2, <1>3, <1>5, <2>1, <2>2, AbortInv DEF TCPEnds, Outcomes
<1>6. CASE Timeout
  <2>1. /\ pc \in {"udp", "tcp"} /\ Aborted("timedOut", n)
        /\ IF awaited THEN Fault ELSE UNCHANGED faults
    BY <1>6, Zenon DEF Timeout
  <2>2. faults = 0 => awaited
    BY <1>1, <2>1 DEF Faultless, awaited, silence
  <2>3. faults' \in 1..MaxFaults
    BY <1>2, <2>1, <2>2 DEF Fault
  <2> QED
    BY <1>2, <1>3, <1>6, <2>1, <2>3, AbortInv, Zenon DEF Timeout, Outcomes
<1> QED
  BY <1>4, <1>5, <1>6, Zenon

(* A phase opens its sockets, or fails to. *)
LEMMA openPhaseClientInv == ClassicInv /\ openPhaseClient => ClassicInv'
<1> SUFFICES ASSUME ClassicInv, openPhaseClient PROVE ClassicInv'
  BY Zenon
<1>1. DnsTypeOK /\ InStep /\ Tallied /\ Earned /\ Faultless
  BY Zenon DEF ClassicInv
<1>2. /\ pc = "open" /\ exit = "none" /\ next' = 1 /\ seq' = 0 /\ retried' = 0 /\ expired' = FALSE
      /\ UNCHANGED << scenario, validationOnly, profile, phase, id, result, exit, clean, own >>
      /\ faults \in 0..MaxFaults /\ MaxFaults \in Nat
  BY <1>1, DnsBounds, Zenon DEF openPhaseClient, runVars, DnsTypeOK
<1>3. CASE /\ pc' = "loop" /\ tcp' = (IF scenario = "udp" THEN "closed" ELSE "open")
           /\ summary' = emptySummary /\ UNCHANGED << faults, err, datagrams, stream >>
  <2> USE <1>1, <1>2, <1>3
  <2>1. /\ summary' \in [Outcomes \cup {"retries"} -> 0..MaxExchanges]
        /\ \A o \in Outcomes \cup {"retries"} : summary'[o] = 0
    BY DnsBounds DEF emptySummary
  <2>2. DnsTypeOK'
    BY <2>1, DnsBounds, Zenon DEF DnsTypeOK
  <2>3. InStep'
    BY DEF InStep, Working
  <2>4. Tallied'
    BY <2>1, DnsBounds DEF Tallied, Working, Outcomes, retries
  <2>5. Earned'
    BY Zenon DEF Earned
  <2>6. Faultless'
    BY Zenon DEF Faultless, Working, InStep
  <2> QED
    BY <2>2, <2>3, <2>4, <2>5, <2>6, Zenon DEF ClassicInv
<1>4. CASE Fault /\ summary' = [emptySummary EXCEPT !["failed"] = 1] /\ Return(TRUE)
  <2>1. /\ faults' \in 1..MaxFaults /\ pc' = "returned" /\ err' = TRUE
        /\ datagrams' = {} /\ tcp' = "closed" /\ stream' = silence
    BY <1>2, <1>4 DEF Fault, Return
  <2>2. /\ summary' \in [Outcomes \cup {"retries"} -> 0..MaxExchanges]
        /\ summary'["retries"] = 0
    BY <1>4, DnsBounds DEF emptySummary, Outcomes
  <2> USE <1>1, <1>2, <2>1, <2>2
  <2>3. DnsTypeOK'
    <3>1. faults' \in 0..MaxFaults
      OBVIOUS
    <3> QED
      BY <3>1, DnsBounds, SilenceType, Zenon DEF DnsTypeOK
  <2>4. InStep'
    BY DEF InStep, Working
  <2>5. Tallied'
    BY DnsBounds, Zenon DEF Tallied, Working
  <2>6. Earned'
    BY Zenon DEF Earned
  <2>7. Faultless'
    BY DEF Faultless
  <2> QED
    BY <2>3, <2>4, <2>5, <2>6, <2>7, Zenon DEF ClassicInv
<1> QED
  BY <1>3, <1>4, Zenon DEF openPhaseClient

(* A query is written with the next ID, in step with what is in flight. *)
LEMMA BeginExchangeInv == ClassicInv /\ BeginExchange => ClassicInv'
<1> SUFFICES ASSUME ClassicInv, BeginExchange PROVE ClassicInv'
  BY Zenon
<1>1. DnsTypeOK /\ InStep /\ Tallied /\ Earned /\ Faultless
  BY Zenon DEF ClassicInv
<1>2. /\ pc = "loop" /\ seq < MaxExchanges /\ id' = next /\ seq' = seq + 1
      /\ summary["completed"] = 0 \/ ~once
      /\ UNCHANGED << scenario, validationOnly, profile, faults, tcp, phase, err, result, exit,
                      clean, expired, next, summary, retried, own >>
  BY Zenon DEF BeginExchange, runVars, mainVars
<1>3. seq \in 0..MaxExchanges /\ seq' \in 1..MaxExchanges /\ next \in 0..(Modulus - 1)
  BY <1>1, <1>2, DnsBounds DEF Tallied, DnsTypeOK
<1> DEFINE kind == IF scenario = "tcp" THEN "a" ELSE large
           q == Query(next, kind, seq')
           young == {d \in datagrams : d.seq + MaxAge >= seq'}
<1>4. /\ q \in Messages /\ q.id = next /\ q.seq = seq' /\ q.at = "server" /\ q.kind = kind
      /\ kind = large
  BY <1>1, <1>3 DEF Query, Messages, large
<1>5. ASSUME NEW d \in young
      PROVE  /\ d \in Messages /\ d.seq <= seq' /\ seq' - d.seq <= MaxAge
             /\ Ahead(d, id', seq')
  <2>1. d \in Messages /\ d \in datagrams /\ d.seq + MaxAge >= seq'
    BY <1>1, Zenon DEF DnsTypeOK
  <2>2. ~once
    BY <1>1, <1>2, <2>1 DEF InStep, Tallied, Working
  <2>3. d.seq <= seq /\ Ahead(d, next, seq + 1)
    BY <1>1, <1>2, <2>1, <2>2, Zenon DEF InStep
  <2>4. d.seq \in Nat
    BY <2>1 DEF Messages
  <2> QED
    BY <1>2, <1>3, <2>1, <2>3, <2>4, DnsBounds
<1>6. Ahead(q, id', seq')
  BY <1>2, <1>3, <1>4 DEF Ahead
<1>7. /\ scenario = "tcp" => pc' = "tcp" /\ stream' = q /\ datagrams' = young
      /\ scenario # "tcp" => pc' = "udp" /\ datagrams' = young \cup {q} /\ UNCHANGED stream
  BY Zenon DEF BeginExchange
<1> HIDE DEF kind, q, young
<1>8. DnsTypeOK'
  BY <1>1, <1>2, <1>4, <1>5, <1>7 DEF DnsTypeOK
<1>9. InStep'
  <2>1. ASSUME NEW d \in datagrams'
        PROVE  d.seq <= seq' /\ seq' - d.seq <= MaxAge /\ Ahead(d, id', seq')
    BY <1>3, <1>4, <1>5, <1>6, <1>7, DnsBounds
  <2> QED
    BY <1>1, <1>2, <1>3, <1>4, <1>7, <2>1 DEF InStep, Working
<1>10. Tallied'
  BY <1>1, <1>2, <1>3, <1>7, DnsBounds DEF Tallied, Working, retries, once, DnsTypeOK, Outcomes
<1>11. Earned'
  BY <1>1, <1>2, <1>7, Zenon DEF Earned, Tallied, Working
<1>12. Faultless'
  <2>1. SUFFICES ASSUME faults = 0 PROVE Faultless'
    BY <1>2, Zenon DEF Faultless
  <2>2. datagrams = {} /\ (scenario # "udp" => tcp = "open") /\ ~err /\ exit # "1"
    BY <1>1, <1>2, <2>1, Zenon DEF Faultless, Working, Tallied
  <2>3. young = {}
    BY <2>2, Zenon DEF young
  <2>4. CASE scenario = "tcp"
    BY <1>2, <1>4, <1>7, <2>2, <2>3, <2>4, Zenon DEF Faultless, large
  <2>5. CASE scenario # "tcp"
    BY <1>2, <1>4, <1>7, <2>2, <2>3, <2>5, Zenon DEF Faultless, large
  <2> QED
    BY <2>4, <2>5, Zenon
<1> QED
  BY <1>8, <1>9, <1>10, <1>11, <1>12, Zenon DEF ClassicInv

(* The deadline of the phase passes. *)
LEMMA ExpireInv == ClassicInv /\ Expire => ClassicInv'
<1> SUFFICES ASSUME ClassicInv, Expire PROVE ClassicInv'
  BY Zenon
<1>1. DnsTypeOK /\ InStep /\ Tallied /\ Earned /\ Faultless
  BY Zenon DEF ClassicInv
<1> USE <1>1 DEF Expire, runVars, netVars, mainVars
<1>2. DnsTypeOK'
  BY DEF DnsTypeOK
<1>3. InStep'
  BY Zenon DEF InStep, Working, Ahead, once
<1>4. Tallied'
  BY Zenon DEF Tallied, Working, retries, once
<1>5. Earned'
  BY Zenon DEF Earned
<1>6. Faultless'
  BY Zenon DEF Faultless, Working, large, retryID
<1> QED
  BY <1>2, <1>3, <1>4, <1>5, <1>6, Zenon DEF ClassicInv

(* runPhase returns without an error: every exchange begun succeeded. *)
LEMMA EndLoopInv == ClassicInv /\ EndLoop => ClassicInv'
<1> SUFFICES ASSUME ClassicInv, EndLoop PROVE ClassicInv'
  BY Zenon
<1>1. DnsTypeOK /\ InStep /\ Tallied /\ Earned /\ Faultless
  BY Zenon DEF ClassicInv
<1>2. /\ pc = "loop"
      /\ once => summary["completed"] = 1
      /\ pc' = "returned" /\ err' = FALSE
      /\ datagrams' = {} /\ tcp' = "closed" /\ stream' = silence
      /\ clean' = IF seq > 0 /\ summary["completed"] = seq THEN clean \cup {phase} ELSE clean
      /\ UNCHANGED << scenario, validationOnly, profile, faults, phase, expired, id, next,
                      summary, result, exit, seq, retried, own >>
  BY Zenon DEF EndLoop, runVars, Return
<1> USE <1>1, <1>2
<1>0. summary["completed"] \in Nat /\ summary["retries"] \in Nat
  BY DEF DnsTypeOK, Outcomes
<1>3. DnsTypeOK'
  BY SilenceType, Zenon DEF DnsTypeOK
<1>4. InStep'
  BY Zenon DEF InStep, Working
<1>5. Tallied'
  BY <1>0 DEF Tallied, Working
<1>6. Earned'
  <2>1. /\ exit = "none" /\ result # "measured" /\ summary["completed"] = seq
        /\ \A o \in Outcomes \ {"completed"} : summary[o] = 0
    BY <1>0 DEF Tallied, Working, Earned
  <2> QED
    BY <1>0, <2>1, Zenon DEF Earned, DnsTypeOK, Phases, once, Before
<1>7. Faultless'
  BY Zenon DEF Faultless, Working, Tallied
<1> QED
  BY <1>3, <1>4, <1>5, <1>6, <1>7, Zenon DEF ClassicInv

(* Run goes on to the next phase, or ends. *)
LEMMA AfterPhaseInv == ClassicInv /\ AfterPhase => ClassicInv'
<1> SUFFICES ASSUME ClassicInv, AfterPhase PROVE ClassicInv'
  BY Zenon
<1>1. DnsTypeOK /\ InStep /\ Tallied /\ Earned /\ Faultless
  BY Zenon DEF ClassicInv
<1> DEFINE bad == err \/ hasFailures
<1>2. /\ pc = "returned" /\ exit = "none" /\ pc' = IF exit' = "none" THEN "open" ELSE "returned"
      /\ UNCHANGED << scenario, validationOnly, profile, faults, datagrams, tcp, stream, expired,
                      id, next, summary, err, clean, seq, retried, own >>
  BY Zenon DEF AfterPhase, runVars, netVars
<1>3. phase \in {"preflight", "warmup", "measured"}
  BY <1>1, Zenon DEF DnsTypeOK
<1>4. /\ phase = "preflight" =>
           /\ result' \in {"invalid", "valid"}
           /\ exit' = IF err THEN "1" ELSE IF validationOnly THEN "0"
                      ELSE IF ~profile THEN "2" ELSE "none"
           /\ phase' = IF exit' = "none" THEN "warmup" ELSE phase
      /\ phase = "warmup" =>
           /\ exit' = IF bad THEN "1" ELSE "none"
           /\ phase' = IF exit' = "none" THEN "measured" ELSE phase
           /\ result' = result
      /\ phase = "measured" =>
           /\ exit' = IF bad THEN "1" ELSE "0"
           /\ result' = IF bad THEN result ELSE "measured"
           /\ phase' = phase
  BY Zenon DEF AfterPhase
<1>5. ~bad => phase \in clean
  BY <1>1, <1>2 DEF Earned, hasFailures, DnsTypeOK, Outcomes
<1>6. ~err /\ phase = "preflight" => phase \in clean
  BY <1>1, <1>2 DEF Earned, DnsTypeOK, Outcomes
<1>7. faults = 0 => ~err /\ (bad => summary["completed"] = 0)
  <2>1. faults = 0 => ~err
    BY <1>1, Zenon DEF Faultless
  <2>2. ~err => \A o \in Outcomes \ {"completed"} : summary[o] = 0
    BY <1>1, <1>2, Zenon DEF Earned
  <2> QED
    BY <2>1, <2>2, Zenon DEF hasFailures
<1>8. result # "measured" /\ clean \subseteq Phases /\ Before[phase] \subseteq clean
  BY <1>1, <1>2, Zenon DEF Earned
<1> HIDE DEF bad
<1>9. DnsTypeOK'
  BY <1>1, <1>2, <1>3, <1>4 DEF DnsTypeOK
<1>10. InStep'
  BY <1>1, <1>2, Zenon DEF InStep, Working
<1>11. Tallied'
  BY <1>1, <1>2, <1>3, <1>4, Zenon DEF Tallied, Working, bad
<1>12. Earned'
  <2>1. /\ Before["preflight"] = {} /\ Before["warmup"] = {"preflight"}
        /\ Before["measured"] = {"preflight", "warmup"}
    BY Zenon DEF Before
  <2>2. Before[phase'] \subseteq clean
    BY <1>3, <1>4, <1>5, <1>6, <1>8, <2>1 DEF bad
  <2>3. result' = "measured" => exit' = "0" /\ clean = Phases
    <3>1. SUFFICES ASSUME result' = "measured" PROVE exit' = "0" /\ clean = Phases
      BY Zenon
    <3>2. phase = "measured" /\ ~bad
      BY <1>3, <1>4, <1>8, <3>1, Zenon
    <3> QED
      BY <1>4, <1>5, <1>8, <2>1, <3>2, Zenon DEF Phases
  <2> QED
    BY <1>1, <1>2, <1>3, <1>4, <1>8, <2>2, <2>3, Zenon DEF Earned
<1>13. Faultless'
  BY <1>1, <1>2, <1>3, <1>4, <1>7, Zenon DEF Faultless, Working
<1> QED
  BY <1>9, <1>10, <1>11, <1>12, <1>13, Zenon DEF ClassicInv

(* A step that changes nothing keeps the invariant. *)
LEMMA DnsStutterInv == ClassicInv /\ UNCHANGED dnsVars => ClassicInv'
<1> SUFFICES ASSUME ClassicInv, UNCHANGED dnsVars PROVE ClassicInv'
  BY Zenon
<1>1. DnsTypeOK /\ InStep /\ Tallied /\ Earned /\ Faultless
  BY Zenon DEF ClassicInv
<1> USE <1>1 DEF dnsVars
<1>2. DnsTypeOK'
  BY DEF DnsTypeOK
<1>3. InStep'
  BY Zenon DEF InStep, Ahead, once
<1>4. Tallied'
  BY Zenon DEF Tallied, once, retries
<1>5. Earned'
  BY Zenon DEF Earned
<1>6. Faultless'
  BY Zenon DEF Faultless, large, retryID
<1> QED
  BY <1>2, <1>3, <1>4, <1>5, <1>6, Zenon DEF ClassicInv

(* The invariant holds of the executor and the authority on any network. *)
THEOREM ClassicInvariant == DnsSpec => []ClassicInv
<1>1. ASSUME ClassicInv, [DnsNext]_dnsVars PROVE ClassicInv'
  <2>1. CASE UNCHANGED dnsVars
    BY <1>1, <2>1, DnsStutterInv, Zenon
  <2>2. CASE ClientStep
    BY <1>1, <2>2, openPhaseClientInv, BeginExchangeInv, ReadTCPInv, GivesUpInv, EndLoopInv,
       AfterPhaseInv, ReadUDPInv, Zenon DEF ClientStep
  <2>3. CASE ServerStep
    BY <1>1, <2>3, handleTCPInv, serveUDPInv, Zenon DEF ServerStep
  <2>4. CASE Expire \/ UDPFails
    BY <1>1, <2>4, ExpireInv, GivesUpInv, Zenon
  <2>5. CASE WrongAnswer \/ CloseTCP \/ \E d \in datagrams : Lose(d) \/ Duplicate(d)
    BY <1>1, <2>5, FaultyNetInv, Zenon
  <2> QED
    BY <1>1, <2>1, <2>2, <2>3, <2>4, <2>5, Zenon DEF DnsNext
<1> QED
  BY <1>1, DnsInitInv, PTL DEF DnsSpec

(* No exchange of runPhase accepts the answer to another one's query, and   *)
(* retryCount counts every TCP retry once, although IDs come round and      *)
(* datagrams are late, lost, duplicated and reordered.                      *)
THEOREM ExchangesOwn == DnsSpec => []ExchangesAreOwn
<1>1. ClassicInv => ExchangesAreOwn
  <2> SUFFICES ASSUME ClassicInv PROVE ExchangesAreOwn
    BY Zenon
  <2>1. summary["retries"] \in Nat
    BY DEF ClassicInv, DnsTypeOK
  <2> QED
    BY <2>1 DEF ClassicInv, ExchangesAreOwn, ResponsesAreOwn, RetriesAreCounted, Earned,
                Tallied, DnsTypeOK, Working
<1> QED
  BY <1>1, ClassicInvariant, PTL

(* Run replaces result.json by the measurement only when all three phases   *)
(* were clean; and without a network or server fault it fails only when a   *)
(* phase was over before its first exchange.                                *)
THEOREM ClassicResultEarned == DnsSpec => []ClassicResultIsEarned
<1>1. ClassicInv => ClassicResultIsEarned
  BY Zenon DEF ClassicInv, ClassicResultIsEarned, ResultIsEarned, FailureHasCause, Earned, Phases,
         Faultless
<1> QED
  BY <1>1, ClassicInvariant, PTL

-----------------------------------------------------------------------------
(***************************************************************************)
(* Proofs for SecureDns, for every size of the message-ID space, number of *)
(* queries in a phase and of answers on their way that the assumption      *)
(* admits, every executor and scenario, and whatever a foreign peer        *)
(* answers, repeats or withholds.                                          *)
(*                                                                         *)
(* That no DoT answer is taken for another query's rests on how far it can *)
(* have fallen behind: a query consumes one answer, so an answer waiting   *)
(* at place k is at most MaxAnswers + 1 - k turns old, and at most one     *)
(* turn ahead, and that is less than a turn of the ID space (InTurn). The  *)
(* streams of the other executors start empty.                             *)
(***************************************************************************)

(* A phase under way. *)
Asking == {"loop", "flush", "query", "answer"}

Lanes ==
  [kind : Kinds, scenario : {"strict", "interop", "resolver", "get", "elsewhere", "unknown"},
   peer : {"packaged"}, defect : {"none"}, control : {"refused"},
   identity : BOOLEAN, validationOnly : BOOLEAN, profile : BOOLEAN]
  \cup [kind : Kinds, scenario : {"strict", "interop", "resolver"},
        peer : {"foreign"}, defect : {"none", "cipher", "other"},
        control : {"serves", "silent"}, identity : {TRUE}, validationOnly : {FALSE},
        profile : {TRUE}]
Summaries == [completed : Nat, malformed : Nat, timedOut : Nat, failed : Nat]
Queries == [n : Nat, id : 0..(IdSpace - 1),
            scenario : {"strict", "interop", "resolver", "get", "elsewhere", "unknown"}]
Answers == [n : Nat, id : 0..(IdSpace - 1), http : {"exact", "cacheable", "status"},
            body : {"authoritative", "recursive", "recompressed", "other"}]

(* The variables keep their types. *)
SecureTypeOK ==
  /\ lane \in Lanes /\ span \in {"preflight", "warmup", "measured"}
  /\ doing \in {"identity", "connect", "ended"} \cup Asking
  /\ counted \in Summaries /\ link \in {"none", "open", "gone"} /\ fresh \in BOOLEAN
  /\ dials \in Nat /\ messageId \in 1..(IdSpace - 1) /\ asked \in Nat
  /\ toTarget \in Seq(Queries) /\ toExecutor \in Seq(Answers)
  /\ cold \in BOOLEAN

(* An answer that waits at place k was made for a query at most             *)
(* MaxAnswers + 1 - k turns ago, or for the next one, and carries its ID.   *)
InTurn(m, k) ==
  /\ m.n <= turn + 1 /\ turn - m.n + k <= MaxAnswers + 1 /\ m.id # 0
  /\ \/ messageId = m.id + (turn - m.n)
     \/ messageId = m.id + (turn - m.n) - (IdSpace - 1)
     \/ messageId = m.id + (turn - m.n) + (IdSpace - 1)

(* The answers on their way, and with a packaged target the query too. *)
Waiting ==
  /\ ~perStream /\ doing \in Asking =>
       \A k \in 1..Len(toExecutor) : InTurn(toExecutor[k], k)
  /\ perStream /\ doing = "answer" => \A k \in 1..Len(toExecutor) : toExecutor[k].n = asked
  /\ doing = "connect" => toExecutor = << >> /\ toTarget = << >>
  /\ lane.peer = "packaged" /\ doing \notin {"answer", "ended"} =>
       toExecutor = << >> /\ toTarget = << >>
  /\ lane.peer = "packaged" /\ doing = "answer" =>
       \/ toTarget = << >> /\ Len(toExecutor) <= 1
       \/ /\ toExecutor = << >>
          /\ toTarget = << [n |-> asked, id |-> IF perStream THEN 0 ELSE messageId,
                            scenario |-> lane.scenario] >>

(* The summary counts the queries answered so far, but the first of a phase *)
(* that warms its connection up.                                            *)
Counting ==
  /\ doing \in Asking =>
       /\ counted.malformed = 0 /\ counted.timedOut = 0 /\ counted.failed = 0
       /\ counted.completed = (turn - 1) - (IF uncountedFirst /\ turn > 1 THEN 1 ELSE 0)
       /\ onePreflight => turn = 1
       /\ doing = "answer" => asked > 0
  /\ doing = "connect" => asked = 0 /\ counted = noQueries /\ link = "none" /\ dials = 0
  /\ doing # "ended" => document # "passed"
  /\ resolver /\ doing \in {"query", "answer"} => cold
  /\ doing = "flush" => resolver

(* One connection: dialled before the first query, or the one that answered *)
(* it; a DoH2 request that has left it is reported to be on a new one.      *)
Connected ==
  doing \in Asking =>
    /\ ~overHttp => dials = 1
    /\ lane.kind = "doh2" /\ turn > 1 =>
         masked \/ dials = settled \/ (doing = "answer" /\ fresh)
    /\ overHttp /\ asked = 0 => link = "none"

(* The lanes that a packaged target's fixtures cover. *)
Covered == /\ lane.peer = "packaged" /\ lane.identity
           /\ lane.scenario \in supportedScenarios(lane.kind) \ {"resolver"}

(* Between a packaged executor and its target nothing goes wrong. *)
Passing ==
  Covered =>
    /\ doing \in Asking /\ (~overHttp \/ asked > 0) => link = "open"
    /\ doing \in Asking /\ overHttp => dials = (IF asked > 0 THEN 1 ELSE 0)
    /\ doing = "answer" =>
         /\ fresh = (overHttp /\ asked = 1)
         /\ \A k \in 1..Len(toExecutor) :
              /\ toExecutor[k].body = "authoritative" /\ toExecutor[k].http = "exact"
              /\ toExecutor[k].id = IF perStream THEN 0 ELSE messageId
    /\ doing = "ended" /\ (lane.validationOnly \/ lane.profile) => ended = 0

(* The inductive invariant. *)
SecureInv == SecureTypeOK /\ Waiting /\ Counting /\ Connected /\ Passing /\ SecureResultIsEarned

-----------------------------------------------------------------------------
(* How a phase returns: the run ends, or the next phase begins. *)
Ends(sum, failed) ==
  /\ doing' = "ended" /\ counted' = sum /\ lane' = lane /\ span' = span
  /\ UNCHANGED << link, fresh, dials, settled, masked, messageId, asked, toTarget, toExecutor >>
  /\ document' = "passed" => /\ ended' = 0 /\ span = "measured" /\ ~failed
                             /\ ~hasFailuresOrNone(sum)
  /\ ~failed /\ (onePreflight \/ ~hasFailuresOrNone(sum)) /\ (lane.validationOnly \/ lane.profile)
       => ended' = 0

Begins ==
  /\ doing' = "connect" /\ span' \in {"preflight", "warmup", "measured"} /\ counted' = noQueries
  /\ link' = "none" /\ fresh' = FALSE /\ dials' = 0 /\ messageId' = 1 /\ asked' = 0
  /\ toTarget' = << >> /\ toExecutor' = << >> /\ lane' = lane /\ document' # "passed"

(* The end of a phase in main, by its cases. *)
LEMMA PhaseReturnsCases ==
  ASSUME NEW sum, NEW failed \in BOOLEAN, PhaseReturns(sum, failed), document # "passed",
         span \in {"preflight", "warmup", "measured"}
  PROVE  Ends(sum, failed) \/ Begins
<1> USE DEF PhaseReturns, Finish, BeginPhase, connectionVars, reuseVars, onePreflight, Ends,
           Begins
<1>1. CASE span = "preflight"
  BY <1>1, Zenon
<1>2. CASE span # "preflight" /\ (failed \/ hasFailuresOrNone(sum))
  BY <1>2, Zenon
<1>3. CASE span = "warmup" /\ ~failed /\ ~hasFailuresOrNone(sum)
  BY <1>3, Zenon
<1>4. CASE span = "measured" /\ ~failed /\ ~hasFailuresOrNone(sum)
  BY <1>4, Zenon
<1> QED
  BY <1>1, <1>2, <1>3, <1>4, Zenon

(* What a lane can be. *)
LEMMA LaneFacts ==
  ASSUME lane \in Lanes
  PROVE  /\ lane.kind \in Kinds /\ lane.peer \in {"packaged", "foreign"}
         /\ lane.peer = "packaged" => lane.defect = "none" /\ lane.control = "refused"
         /\ lane.scenario \in {"strict", "interop", "resolver", "get", "elsewhere", "unknown"}
BY Zenon DEF Lanes

LEMMA NoQueriesType == noQueries \in Summaries
BY Zenon DEF noQueries, Summaries

(* The executor starts in the invariant. *)
LEMMA SecureInitInv == SecureDnsInit => SecureInv
<1> SUFFICES ASSUME SecureDnsInit PROVE SecureInv
  BY Zenon
<1> USE SecureDnsAssumption DEF SecureDnsInit
<1>1. SecureTypeOK
  <2>0. lane \in Lanes
    BY Zenon DEF Lanes
  <2>1. toTarget \in Seq(Queries) /\ toExecutor \in Seq(Answers) /\ messageId \in 1..(IdSpace - 1)
    OBVIOUS
  <2>2. fresh \in BOOLEAN /\ cold \in BOOLEAN
    BY Zenon
  <2> QED
    BY <2>0, <2>1, <2>2, NoQueriesType, Zenon DEF SecureTypeOK
<1>2. Waiting
  BY Zenon DEF Waiting, Asking
<1>3. Counting /\ Connected
  BY Zenon DEF Counting, Connected, Asking
<1>4. Passing
  BY Zenon DEF Passing, Asking
<1>5. SecureResultIsEarned
  BY Zenon DEF SecureResultIsEarned
<1> QED
  BY <1>1, <1>2, <1>3, <1>4, <1>5, Zenon DEF SecureInv

(* A phase begins. *)
LEMMA BeginsInv ==
  ASSUME SecureInv, Begins, cold' \in BOOLEAN, ~astrayAnswer', ~warmAnswer'
  PROVE  SecureInv'
<1> USE DEF Begins
<1>1. SecureTypeOK'
  <2>1. /\ messageId' \in 1..(IdSpace - 1)
        /\ toTarget' \in Seq(Queries) /\ toExecutor' \in Seq(Answers)
    BY SecureDnsAssumption
  <2> QED
    BY <2>1, NoQueriesType, Zenon
       DEF SecureInv, SecureTypeOK, Asking, noQueries
<1>2. Waiting'
  BY Zenon DEF Waiting, Asking
<1>3. Counting' /\ Connected'
  BY Zenon DEF Counting, Connected, Asking, noQueries
<1>4. Passing'
  BY Zenon DEF Passing, Asking
<1>5. SecureResultIsEarned'
  BY Zenon DEF SecureResultIsEarned
<1> QED
  BY <1>1, <1>2, <1>3, <1>4, <1>5, Zenon DEF SecureInv

(* The run ends. *)
LEMMA EndsInv ==
  ASSUME SecureInv, NEW sum \in Summaries, NEW failed \in BOOLEAN, Ends(sum, failed),
         cold' \in BOOLEAN, ~astrayAnswer', ~warmAnswer',
         span = "measured" /\ ~failed /\ ~hasFailuresOrNone(sum) =>
           /\ sum.completed = asked - (IF perStream THEN 1 ELSE 0)
           /\ oneConnection,
         Covered => ~failed /\ (onePreflight \/ ~hasFailuresOrNone(sum))
  PROVE  SecureInv'
<1> USE DEF Ends
<1>1. SecureTypeOK'
  BY Zenon DEF SecureInv, SecureTypeOK, Asking
<1>2. Waiting'
  BY Zenon DEF Waiting, Asking
<1>3. Counting' /\ Connected'
  BY Zenon DEF Counting, Connected, Asking
<1>4. Passing'
  BY Zenon DEF Passing, Covered, Asking
<1>5. SecureResultIsEarned'
  <2>1. ASSUME document' = "passed"
        PROVE  /\ ended' = 0 /\ span' = "measured"
               /\ counted'.completed > 0
               /\ counted'.completed = asked' - (IF perStream' THEN 1 ELSE 0)
               /\ oneConnection'
    <3>1. ended' = 0 /\ span = "measured" /\ ~failed /\ ~hasFailuresOrNone(sum)
      BY <2>1, Zenon
    <3>2. sum.completed > 0
      BY <3>1 DEF hasFailuresOrNone, Summaries
    <3> QED
      BY <3>1, <3>2, Zenon DEF perStream, oneConnection, overHttp
  <2> QED
    BY <2>1, Zenon DEF SecureResultIsEarned
<1> QED
  BY <1>1, <1>2, <1>3, <1>4, <1>5, Zenon DEF SecureInv

(* classify: a failure ends the run; with a covered lane there is none. *)
LEMMA ClassifyInv ==
  ASSUME SecureInv, NEW outcome \in {"malformed", "timedOut", "failed"}, classify(outcome),
         doing # "ended", ~Covered, cold' \in BOOLEAN, ~astrayAnswer', ~warmAnswer'
  PROVE  SecureInv'
<1> DEFINE sum == [counted EXCEPT ![outcome] = @ + 1]
<1>1. sum \in Summaries
  <2>1. counted \in Summaries
    BY Zenon DEF SecureInv, SecureTypeOK
  <2> QED
    BY <2>1 DEF Summaries
<1>2. Ends(sum, TRUE) \/ Begins
  BY PhaseReturnsCases, Zenon DEF classify, SecureInv, SecureTypeOK, Counting
<1> HIDE DEF sum
<1> QED
  BY <1>1, <1>2, EndsInv, BeginsInv, Zenon

(* A phase returns without an error. *)
LEMMA PhaseReturnsInv ==
  ASSUME SecureInv, NEW sum \in Summaries, PhaseReturns(sum, FALSE), doing # "ended",
         cold' \in BOOLEAN, ~astrayAnswer', ~warmAnswer',
         span = "measured" =>
           /\ sum.completed = asked - (IF perStream THEN 1 ELSE 0)
           /\ oneConnection,
         onePreflight \/ ~hasFailuresOrNone(sum)
  PROVE  SecureInv'
<1>1. Ends(sum, FALSE) \/ Begins
  BY PhaseReturnsCases, Zenon DEF SecureInv, SecureTypeOK, Counting
<1> QED
  BY <1>1, EndsInv, BeginsInv, Zenon

(* What a step that only moves on leaves alone. *)
SecureSteady ==
  UNCHANGED << lane, span, counted, link, fresh, dials, settled, masked, messageId, asked,
               toTarget, toExecutor, document, ended >>

(* An identity or scenario that is not admitted ends the run. *)
LEMMA CheckIdentityInv == SecureInv /\ CheckIdentity => SecureInv'
<1> SUFFICES ASSUME SecureInv, CheckIdentity PROVE SecureInv'
  BY Zenon
<1>1. /\ SecureTypeOK /\ SecureResultIsEarned /\ doing = "identity" /\ lane' = lane
      /\ UNCHANGED << cold, warmAnswer, astrayAnswer >> /\ document # "passed"
  BY Zenon DEF SecureInv, CheckIdentity, historyVars, Counting
<1>2. CASE lane.identity /\ lane.scenario \in supportedScenarios(lane.kind)
  <2>0. lane.scenario # "elsewhere"
    BY <1>1, <1>2, LaneFacts, Zenon
       DEF SecureTypeOK, Kinds, supportedScenarios, supportedDoT, supportedDoQ, supportedDoH2,
           supportedDoH3
  <2>1. BeginPhase("preflight") /\ UNCHANGED << document, ended >>
    BY <1>1, <1>2, <2>0, Zenon DEF CheckIdentity
  <2>2. Begins
    BY <1>1, <2>1, Zenon DEF Begins, BeginPhase
  <2> QED
    BY <1>1, <2>2, BeginsInv, Zenon DEF SecureResultIsEarned, SecureTypeOK
<1>3. CASE ~(lane.identity /\ lane.scenario \in supportedScenarios(lane.kind))
  <2>1. /\ doing' = "ended" /\ document' # "passed"
        /\ UNCHANGED << span, counted, link, fresh, dials, settled, masked, messageId, asked,
                        toTarget, toExecutor >>
    BY <1>1, <1>3, Zenon DEF CheckIdentity, Finish, connectionVars, reuseVars
  <2> USE <1>1, <2>1
  <2>2. SecureTypeOK'
    BY Zenon DEF SecureTypeOK, Asking
  <2>3. Waiting' /\ Counting' /\ Connected'
    BY Zenon DEF Waiting, Counting, Connected, Asking
  <2>4. Passing'
    BY <1>3, Zenon DEF Passing, Covered
  <2>5. SecureResultIsEarned'
    BY Zenon DEF SecureResultIsEarned
  <2> QED
    BY <2>2, <2>3, <2>4, <2>5, Zenon DEF SecureInv
<1> QED
  BY <1>2, <1>3, Zenon

(* The dial before the first query. *)
LEMMA connectInv == SecureInv /\ connect => SecureInv'
<1> SUFFICES ASSUME SecureInv, connect PROVE SecureInv'
  BY Zenon
<1>1. /\ SecureTypeOK /\ Waiting /\ Counting /\ Passing /\ SecureResultIsEarned
      /\ doing = "connect" /\ UNCHANGED << cold, warmAnswer, astrayAnswer >>
  BY Zenon DEF SecureInv, connect, historyVars
<1>2. CASE \/ classify("failed") \/ classify("timedOut")
  <2>1. CASE Covered
    <3>1. lane.peer = "packaged" /\ lane.defect = "none" /\ validateTLSDoT /\ validateConnection
      BY <1>1, <2>1, LaneFacts, Zenon DEF Covered, SecureTypeOK, validateTLSDoT, validateConnection
    <3>2. doing' = "loop"
      BY <1>1, <3>1, Zenon DEF connect
    <3>3. doing' # "loop"
      BY <1>1, <1>2, PhaseReturnsCases, Zenon DEF classify, SecureTypeOK, Counting, Ends, Begins
    <3> QED
      BY <3>2, <3>3, Zenon
  <2>2. CASE ~Covered
    BY <1>1, <1>2, <2>2, ClassifyInv, Zenon DEF SecureResultIsEarned, SecureTypeOK
  <2> QED
    BY <2>1, <2>2, Zenon
<1>3. CASE ~(\/ classify("failed") \/ classify("timedOut"))
  <2>1. /\ doing' = "loop"
        /\ UNCHANGED << lane, span, counted, fresh, messageId, asked, toTarget, toExecutor,
                        document, ended >>
        /\ overHttp => link' = link /\ dials' = dials
        /\ ~overHttp => link' = "open" /\ dials' = 1
    BY <1>1, <1>3, Zenon DEF connect, connectionVars
  <2>2. /\ asked = 0 /\ counted = noQueries /\ link = "none" /\ dials = 0
        /\ toExecutor = << >> /\ toTarget = << >> /\ document # "passed"
    BY <1>1, Zenon DEF Waiting, Counting
  <2> USE <1>1, <2>1, <2>2
  <2>3. SecureTypeOK'
    <3>1. link' \in {"none", "open", "gone"} /\ dials' \in Nat
      BY DEF SecureTypeOK
    <3> QED
      BY <3>1, Zenon DEF SecureTypeOK, Asking
  <2>4. Waiting'
    BY DEF Waiting, Asking
  <2>5. Counting'
    BY DEF Counting, Asking, turn, noQueries, uncountedFirst, perStream, onePreflight, resolver
  <2>6. Connected'
    BY DEF Connected, Asking, turn, overHttp
  <2>7. Passing'
    BY DEF Passing, Covered, Asking, overHttp
  <2>8. SecureResultIsEarned'
    BY Zenon DEF SecureResultIsEarned
  <2> QED
    BY <2>3, <2>4, <2>5, <2>6, <2>7, <2>8, Zenon DEF SecureInv
<1> QED
  BY <1>2, <1>3, Zenon

(* The loop goes round. *)
LEMMA NextQueryInv == SecureInv /\ NextQuery => SecureInv'
<1> SUFFICES ASSUME SecureInv, NextQuery PROVE SecureInv'
  BY Zenon
<1>1. /\ SecureTypeOK /\ Waiting /\ Counting /\ Connected /\ Passing /\ SecureResultIsEarned
      /\ doing = "loop" /\ doing' = (IF resolver THEN "flush" ELSE "query")
      /\ SecureSteady /\ UNCHANGED << cold, warmAnswer, astrayAnswer >>
  BY Zenon DEF SecureInv, NextQuery, historyVars, connectionVars, reuseVars, SecureSteady
<1> USE <1>1 DEF SecureSteady
<1>2. SecureTypeOK'
  BY Zenon DEF SecureTypeOK, Asking
<1>3. Waiting'
  BY Zenon DEF Waiting, Asking, InTurn, turn, perStream
<1>4. Counting'
  BY Zenon DEF Counting, Asking, turn, uncountedFirst, perStream, onePreflight, resolver
<1>5. Connected'
  BY Zenon DEF Connected, Asking, turn, overHttp
<1>6. Passing'
  BY Zenon DEF Passing, Covered, Asking, overHttp
<1>7. SecureResultIsEarned'
  BY Zenon DEF SecureResultIsEarned, Counting
<1> QED
  BY <1>2, <1>3, <1>4, <1>5, <1>6, <1>7, Zenon DEF SecureInv

(* At the deadline all the queries but an uncounted first one are counted. *)
LEMMA PhaseDeadlineInv == SecureInv /\ PhaseDeadline => SecureInv'
<1> SUFFICES ASSUME SecureInv, PhaseDeadline PROVE SecureInv'
  BY Zenon
<1>1. /\ SecureTypeOK /\ Counting /\ Connected /\ SecureResultIsEarned
      /\ doing = "loop" /\ ~onePreflight /\ asked > (IF uncountedFirst THEN 1 ELSE 0)
      /\ PhaseReturns(counted, FALSE) /\ UNCHANGED << cold, warmAnswer, astrayAnswer >>
  BY Zenon DEF SecureInv, PhaseDeadline, historyVars
<1>2. asked \in Nat /\ counted \in Summaries /\ cold' \in BOOLEAN /\ ~astrayAnswer' /\ ~warmAnswer'
  BY <1>1, Zenon DEF SecureTypeOK, SecureResultIsEarned
<1>3. /\ counted.malformed = 0 /\ counted.timedOut = 0 /\ counted.failed = 0
      /\ counted.completed = asked - (IF perStream THEN 1 ELSE 0)
  BY <1>1, <1>2 DEF Counting, Asking, turn, uncountedFirst
<1>4. ~hasFailuresOrNone(counted)
  BY <1>1, <1>2, <1>3 DEF hasFailuresOrNone, uncountedFirst
<1>5. oneConnection
  <2>1. turn > 1
    BY <1>1, <1>2 DEF turn
  <2> QED
    BY <1>1, <2>1, Zenon DEF Connected, Asking, oneConnection
<1> QED
  BY <1>1, <1>2, <1>3, <1>4, <1>5, PhaseReturnsInv, Zenon

(* The flush of the resolver's cache, which no covered lane comes to. *)
LEMMA flushInv == SecureInv /\ flushResolverCache => SecureInv'
<1> SUFFICES ASSUME SecureInv, flushResolverCache PROVE SecureInv'
  BY Zenon
<1>1. /\ SecureTypeOK /\ Waiting /\ Counting /\ Connected /\ Passing /\ SecureResultIsEarned
      /\ doing = "flush" /\ UNCHANGED << warmAnswer, astrayAnswer >>
  BY Zenon DEF SecureInv, flushResolverCache
<1>2. CASE lane.control # "silent" /\ classify("failed") /\ UNCHANGED cold
  <2>1. ~Covered
    BY <1>1, Zenon DEF Counting, Covered, resolver, Passing
  <2> QED
    BY <1>1, <1>2, <2>1, ClassifyInv, Zenon DEF SecureTypeOK, SecureResultIsEarned
<1>3. CASE lane.control = "serves" /\ doing' = "query" /\ cold' = TRUE /\ SecureSteady
  <2> USE <1>1, <1>3 DEF SecureSteady
  <2>2. SecureTypeOK'
    BY Zenon DEF SecureTypeOK, Asking
  <2>3. Waiting'
    BY Zenon DEF Waiting, Asking, InTurn, turn, perStream
  <2>4. Counting'
    BY Zenon DEF Counting, Asking, turn, uncountedFirst, perStream, onePreflight, resolver
  <2>5. Connected'
    BY Zenon DEF Connected, Asking, turn, overHttp
  <2>6. Passing'
    BY Zenon DEF Passing, Covered, Asking, overHttp
  <2>7. SecureResultIsEarned'
    BY Zenon DEF SecureResultIsEarned, Counting
  <2> QED
    BY <2>2, <2>3, <2>4, <2>5, <2>6, <2>7, Zenon DEF SecureInv
<1> QED
  BY <1>2, <1>3, Zenon DEF flushResolverCache, SecureSteady, connectionVars, reuseVars

(* The query takes the next turn: its stream is empty, and what waits on a  *)
(* DoT connection keeps its distance.                                       *)
LEMMA WriteQueryInv == SecureInv /\ WriteQuery => SecureInv'
<1> SUFFICES ASSUME SecureInv, WriteQuery PROVE SecureInv'
  BY Zenon
<1> DEFINE redial == overHttp /\ link # "open"
<1>1. /\ SecureTypeOK /\ Waiting /\ Counting /\ Connected /\ Passing /\ SecureResultIsEarned
      /\ doing = "query" /\ UNCHANGED << cold, warmAnswer, astrayAnswer >>
  BY Zenon DEF SecureInv, WriteQuery, historyVars
<1>2. CASE classify("failed") /\ (lane.peer = "foreign" \/ (~overHttp /\ link = "gone"))
  <2>1. ~Covered
    BY <1>1, <1>2, Zenon DEF Covered, Passing, Asking
  <2> QED
    BY <1>1, <1>2, <2>1, ClassifyInv, Zenon DEF SecureTypeOK, SecureResultIsEarned
<1>3. CASE /\ link = "open" \/ redial
           /\ link' = "open" /\ fresh' = redial
           /\ dials' = (IF redial THEN dials + 1 ELSE dials)
           /\ toTarget' = << [n |-> asked + 1, id |-> IF perStream THEN 0 ELSE messageId,
                              scenario |-> lane.scenario] >>
           /\ toExecutor' = (IF perStream THEN << >> ELSE toExecutor)
           /\ asked' = asked + 1 /\ doing' = "answer"
           /\ UNCHANGED << lane, span, counted, settled, masked, messageId, document, ended >>
  <2> USE <1>1, <1>3
  <2>1. asked \in Nat /\ dials \in Nat /\ document # "passed"
    BY Zenon DEF SecureTypeOK, Counting
  <2>2. SecureTypeOK'
    <3>1. dials' \in Nat /\ asked' \in Nat /\ toExecutor' \in Seq(Answers)
      BY <2>1 DEF SecureTypeOK
    <3>2. fresh' \in BOOLEAN
      BY Zenon DEF overHttp
    <3>3. toTarget' \in Seq(Queries)
      <4> DEFINE q == [n |-> asked + 1, id |-> IF perStream THEN 0 ELSE messageId,
                       scenario |-> lane.scenario]
      <4>1. q \in Queries
        BY <2>1, LaneFacts, SecureDnsAssumption DEF Queries, SecureTypeOK
      <4>2. toTarget' = << q >>
        BY Zenon
      <4> HIDE DEF q
      <4> QED
        BY <4>1, <4>2
    <3> QED
      BY <3>1, <3>2, <3>3, Zenon DEF SecureTypeOK, Asking
  <2>3. turn' = turn
    BY <2>1, Zenon DEF turn
  <2>4. Waiting'
    <3>1. ASSUME ~perStream, NEW k \in 1..Len(toExecutor')
          PROVE  InTurn(toExecutor[k], k)'
      BY <2>3, <3>1, Zenon DEF Waiting, Asking, InTurn
    <3>2. lane.peer = "packaged" => toExecutor' = << >>
      BY Zenon DEF Waiting
    <3> QED
      BY <3>1, <3>2 DEF Waiting, perStream
  <2>5. Counting'
    BY <2>1, <2>3 DEF Counting, Asking, uncountedFirst, perStream, onePreflight, resolver
  <2>6. Connected'
    <3>1. (redial => fresh') /\ (~redial => ~fresh')
      BY Zenon
    <3>2. ~overHttp => dials' = 1
      BY Zenon DEF Connected, Asking
    <3>3. turn' > 1 /\ lane.kind = "doh2" => masked' \/ dials' = settled' \/ fresh'
      BY <2>3, <3>1, Zenon DEF Connected, Asking
    <3>4. asked' # 0
      BY <2>1
    <3> QED
      BY <3>2, <3>3, <3>4, Zenon DEF Connected, overHttp
  <2>7. Passing'
    <3>1. Covered => toExecutor' = << >>
      BY Zenon DEF Waiting, Covered
    <3>2. Covered => fresh' = (overHttp /\ asked' = 1) /\ (overHttp => dials' = 1)
      BY <2>1 DEF Passing, Connected, Asking, turn
    <3> QED
      BY <2>1, <3>1, <3>2 DEF Passing, Covered, Asking, overHttp
  <2>8. SecureResultIsEarned'
    BY <2>1, Zenon DEF SecureResultIsEarned
  <2> QED
    BY <2>2, <2>4, <2>5, <2>6, <2>7, <2>8, Zenon DEF SecureInv
<1> QED
  BY <1>2, <1>3, Zenon DEF WriteQuery

(* The connection is gone, or the deadline passes: never on a covered lane. *)
LEMMA WaitFailsInv == SecureInv /\ (ReadFails \/ QueryTimesOut) => SecureInv'
<1> SUFFICES ASSUME SecureInv, ReadFails \/ QueryTimesOut PROVE SecureInv'
  BY Zenon
<1>1. /\ SecureTypeOK /\ Counting /\ Passing /\ SecureResultIsEarned
      /\ UNCHANGED << cold, warmAnswer, astrayAnswer >>
  BY Zenon DEF SecureInv, ReadFails, QueryTimesOut, historyVars
<1>2. /\ classify("failed") \/ classify("timedOut")
      /\ doing \in {"flush", "answer"}
      /\ lane.peer = "foreign" \/ (doing = "answer" /\ link = "gone")
  BY Zenon DEF ReadFails, QueryTimesOut, underDeadline
<1>3. ~Covered
  BY <1>1, <1>2, Zenon DEF Covered, Passing, Asking, Counting, SecureTypeOK
<1> QED
  BY <1>1, <1>2, <1>3, ClassifyInv, Zenon DEF SecureTypeOK, SecureResultIsEarned

(* A foreign peer hangs up. *)
LEMMA ForeignHangsUpInv == SecureInv /\ ForeignHangsUp => SecureInv'
<1> SUFFICES ASSUME SecureInv, ForeignHangsUp PROVE SecureInv'
  BY Zenon
<1>1. /\ SecureTypeOK /\ Waiting /\ Counting /\ Connected /\ Passing /\ SecureResultIsEarned
      /\ lane.peer = "foreign" /\ link = "open" /\ link' = "gone"
      /\ UNCHANGED << lane, doing, span, counted, fresh, dials, settled, masked, messageId, asked,
                      toTarget, toExecutor, document, ended, cold, warmAnswer, astrayAnswer >>
  BY Zenon DEF SecureInv, ForeignHangsUp, historyVars, reuseVars
<1> USE <1>1
<1>2. SecureTypeOK'
  BY Zenon DEF SecureTypeOK
<1>3. Waiting'
  BY Zenon DEF Waiting, InTurn, turn, perStream
<1>4. Counting'
  BY Zenon DEF Counting, turn, uncountedFirst, perStream, onePreflight, resolver
<1>5. Connected'
  BY Zenon DEF Connected, turn, overHttp
<1>6. Passing'
  BY Zenon DEF Passing, Covered
<1>7. SecureResultIsEarned'
  BY Zenon DEF SecureResultIsEarned, perStream, oneConnection, overHttp
<1> QED
  BY <1>2, <1>3, <1>4, <1>5, <1>6, <1>7, Zenon DEF SecureInv

(* One turn of the DoT message ID, in arithmetic without %. *)
LEMMA IdAfterRange ==
  ASSUME NEW i \in 1..(IdSpace - 1)
  PROVE  idAfter(i) = IF i = IdSpace - 1 THEN 1 ELSE i + 1
<1>1. (i + 1) % IdSpace = IF i = IdSpace - 1 THEN 0 ELSE i + 1
  BY SecureDnsAssumption
<1> QED
  BY <1>1 DEF idAfter

(* An accepted answer was made for the query under way. *)
LEMMA AcceptedIsOwn ==
  ASSUME SecureTypeOK, Waiting, doing = "answer", toExecutor # << >>, accepted(Head(toExecutor))
  PROVE  Head(toExecutor).n = asked
<1> DEFINE m == Head(toExecutor)
<1>1. m = toExecutor[1] /\ m \in Answers /\ 1 \in 1..Len(toExecutor)
  BY DEF SecureTypeOK
<1>2. CASE perStream
  BY <1>1, <1>2, Zenon DEF Waiting
<1>3. CASE ~perStream
  <2>1. m.id = messageId
    BY <1>3, Zenon DEF accepted, exchangeDoT, perStream
  <2>2. InTurn(m, 1)
    BY <1>1, <1>3, Zenon DEF Waiting, Asking
  <2>3. m.n \in Nat /\ m.id \in Nat /\ asked \in Nat
    BY <1>1 DEF Answers, SecureTypeOK
  <2>4. IdSpace \in Nat /\ MaxAnswers \in Nat \ {0} /\ IdSpace > MaxAnswers + 1
    BY SecureDnsAssumption, Zenon
  <2>5. /\ m.n <= asked + 1 /\ asked - m.n + 1 <= MaxAnswers + 1
        /\ \/ m.id = m.id + (asked - m.n) \/ m.id = m.id + (asked - m.n) - (IdSpace - 1)
           \/ m.id = m.id + (asked - m.n) + (IdSpace - 1)
    BY <2>1, <2>2, Zenon DEF InTurn, turn
  <2> QED
    BY ONLY <2>3, <2>4, <2>5, SMTT(30)
<1> QED
  BY <1>2, <1>3, Zenon

(* A packaged executor accepts what its target answers. *)
LEMMA CoveredIsAccepted ==
  ASSUME SecureInv, Covered, doing = "answer", toExecutor # << >>
  PROVE  accepted(Head(toExecutor))
<1> DEFINE m == Head(toExecutor)
<1>1. SecureTypeOK /\ Passing /\ Counting
  BY Zenon DEF SecureInv
<1>2. m = toExecutor[1] /\ 1 \in 1..Len(toExecutor)
  BY <1>1 DEF SecureTypeOK
<1>3. /\ m.body = "authoritative" /\ m.http = "exact" /\ m.id = (IF perStream THEN 0 ELSE messageId)
      /\ fresh = (overHttp /\ asked = 1) /\ (overHttp => dials = 1) /\ asked \in Nat /\ asked > 0
  BY <1>1, <1>2, Zenon DEF Passing, Asking, Counting, SecureTypeOK
<1>4. lane.kind \in Kinds /\ lane.defect = "none" /\ canonical = "authoritative"
  BY <1>1, LaneFacts, Zenon DEF SecureTypeOK, Covered, canonical, resolver
<1> HIDE DEF m
<1>5. CASE lane.kind = "dot"
  BY <1>3, <1>4, <1>5, Zenon DEF accepted, exchangeDoT, perStream, m
<1>6. CASE lane.kind = "doq"
  BY <1>3, <1>4, <1>6, Zenon DEF accepted, validateDNSFrame, validateConnection, perStream, m
<1>7. CASE lane.kind = "doh2"
  <2>1. ~fresh = (asked > 1)
    BY <1>3, <1>7 DEF overHttp
  <2>2. exchangeDoH2(m) /\ validateTLSDoH2
    BY <1>3, <1>4, <1>7, <2>1, Zenon
       DEF exchangeDoH2, validateDNS, validateTLSDoH2, perStream
  <2> QED
    BY <1>7, <2>2, Zenon DEF accepted, m
<1>8. CASE lane.kind = "doh3"
  <2>1. (dials - (IF fresh THEN 1 ELSE 0) > 0) = (asked > 1)
    <3>1. (asked = 1 => fresh) /\ (asked # 1 => ~fresh) /\ dials = 1
      BY <1>3, <1>8, Zenon DEF overHttp
    <3>2. (dials - (IF fresh THEN 1 ELSE 0) > 0) <=> (asked > 1)
      BY <1>3, <3>1
    <3> QED
      BY <3>2
  <2>2. exchangeDoH3(m) /\ validateTLSDoH3
    BY <1>3, <1>4, <1>8, <2>1, Zenon
       DEF exchangeDoH3, semanticEqual, validateTLSDoH3, perStream
  <2> QED
    BY <1>8, <2>2, Zenon DEF accepted, m
<1> QED
  BY <1>4, <1>5, <1>6, <1>7, <1>8, Zenon DEF Kinds

(* An answer is accepted and counted, or ends the run. *)
LEMMA ReadAnswerInv == SecureInv /\ ReadAnswer => SecureInv'
<1> SUFFICES ASSUME SecureInv, ReadAnswer PROVE SecureInv'
  BY Zenon
<1> DEFINE m == Head(toExecutor)
           counts == ~(uncountedFirst /\ asked = 1)
           sum == IF counts THEN [counted EXCEPT !.completed = @ + 1] ELSE counted
<1>1. /\ SecureTypeOK /\ Waiting /\ Counting /\ Connected /\ Passing /\ SecureResultIsEarned
      /\ doing = "answer" /\ toExecutor # << >>
  BY Zenon DEF SecureInv, ReadAnswer
<1>2. CASE ~accepted(m)
  <2>1. ~Covered
    BY <1>1, <1>2, CoveredIsAccepted, Zenon
  <2>2. /\ classify("failed") \/ classify("malformed")
        /\ UNCHANGED << cold, warmAnswer, astrayAnswer >>
    BY <1>2, Zenon DEF ReadAnswer, historyVars
  <2> QED
    BY <1>1, <2>1, <2>2, ClassifyInv, Zenon DEF SecureTypeOK, SecureResultIsEarned
<1>3. CASE accepted(m)
  <2>1. m.n = asked
    BY <1>1, <1>3, AcceptedIsOwn, Zenon
  <2>2. resolver => cold
    BY <1>1, Zenon DEF Counting
  <2>3. cold' \in BOOLEAN /\ ~astrayAnswer' /\ ~warmAnswer'
    BY <1>1, <1>3, <2>1, <2>2, Zenon DEF ReadAnswer, SecureResultIsEarned
  <2>4. asked \in Nat /\ asked > 0 /\ turn = asked /\ document # "passed"
    BY <1>1, Zenon DEF SecureTypeOK, Counting, Asking, turn
  <2>5. /\ counted \in Summaries /\ counted.malformed = 0 /\ counted.timedOut = 0
        /\ counted.failed = 0
        /\ counted.completed = (asked - 1) - (IF uncountedFirst /\ asked > 1 THEN 1 ELSE 0)
    BY <1>1, <2>4, Zenon DEF SecureTypeOK, Counting, Asking
  <2>6. /\ sum \in Summaries /\ sum.malformed = 0 /\ sum.timedOut = 0 /\ sum.failed = 0
        /\ sum.completed = asked - (IF uncountedFirst THEN 1 ELSE 0)
    BY <2>4, <2>5 DEF Summaries
  <2> HIDE DEF sum
  <2>7. CASE onePreflight
    <3>1. PhaseReturns(sum, FALSE)
      BY <1>3, <2>7, Zenon DEF ReadAnswer, sum
    <3>2. span # "measured"
      BY <2>7, Zenon DEF onePreflight
    <3> QED
      BY <1>1, <2>3, <2>6, <2>7, <3>1, <3>2, PhaseReturnsInv, Zenon
  <2>8. CASE ~onePreflight
    <3>1. /\ doing' = "loop" /\ counted' = sum /\ messageId' = idAfter(messageId)
          /\ toExecutor' = Tail(toExecutor)
          /\ settled' = (IF asked = 1 THEN dials ELSE settled)
          /\ UNCHANGED << lane, span, link, fresh, dials, masked, asked, toTarget, document,
                          ended >>
      BY <1>3, <2>8, Zenon DEF ReadAnswer, sum
    <3> USE <1>1, <3>1
    <3>2. /\ toExecutor' \in Seq(Answers) /\ Len(toExecutor') = Len(toExecutor) - 1
          /\ \A k \in 1..Len(toExecutor') : /\ toExecutor'[k] = toExecutor[k + 1]
                                            /\ k + 1 \in 1..Len(toExecutor)
      BY DEF SecureTypeOK
    <3>3. /\ messageId \in 1..(IdSpace - 1)
          /\ messageId' = IF messageId = IdSpace - 1 THEN 1 ELSE messageId + 1
      BY IdAfterRange, Zenon DEF SecureTypeOK
    <3>4. messageId' \in 1..(IdSpace - 1)
      BY <3>3, SecureDnsAssumption
    <3>5. SecureTypeOK'
      BY <2>3, <2>6, <3>2, <3>4, Zenon DEF SecureTypeOK, Asking
    <3>6. turn' = asked + 1
      BY <2>4, Zenon DEF turn
    <3>7. Waiting'
      <4>1. ASSUME ~perStream, NEW k \in 1..Len(toExecutor')
            PROVE  InTurn(toExecutor[k], k)'
        <5> DEFINE a == toExecutor[k + 1]
        <5>1. InTurn(a, k + 1) /\ a \in Answers /\ toExecutor'[k] = a
          BY <3>2, <4>1 DEF Waiting, Asking, SecureTypeOK
        <5>2. a.n \in Nat /\ a.id \in 0..(IdSpace - 1) /\ k \in Nat /\ k > 0
          BY <3>2, <5>1, SMTT(30) DEF Answers
        <5> DEFINE n == a.n
                   i == a.id
                   j == messageId'
        <5>3. /\ n \in Nat /\ i \in 0..(IdSpace - 1) /\ i # 0 /\ asked \in Nat /\ k \in Nat /\ k > 0
              /\ n <= asked + 1 /\ asked - n + (k + 1) <= MaxAnswers + 1
              /\ \/ messageId = i + (asked - n) \/ messageId = i + (asked - n) - (IdSpace - 1)
                 \/ messageId = i + (asked - n) + (IdSpace - 1)
              /\ messageId \in 1..(IdSpace - 1)
              /\ j = IF messageId = IdSpace - 1 THEN 1 ELSE messageId + 1
          BY <2>4, <3>3, <5>1, <5>2, Zenon DEF InTurn
        <5>4. IdSpace \in Nat /\ MaxAnswers \in Nat /\ IdSpace > MaxAnswers + 1
          BY SecureDnsAssumption, Zenon
        <5> HIDE DEF n, i, j, a
        <5>5. /\ n <= (asked + 1) + 1 /\ (asked + 1) - n + k <= MaxAnswers + 1
              /\ \/ j = i + ((asked + 1) - n) \/ j = i + ((asked + 1) - n) - (IdSpace - 1)
                 \/ j = i + ((asked + 1) - n) + (IdSpace - 1)
          BY ONLY <5>3, <5>4
        <5> QED
          BY <3>6, <5>1, <5>3, <5>5, Zenon DEF InTurn, n, i, j
      <4>2. lane.peer = "packaged" => toTarget' = << >> /\ toExecutor' = << >>
        BY <3>2 DEF Waiting, SecureTypeOK
      <4> QED
        BY <4>1, <4>2, Zenon DEF Waiting, perStream
    <3>8. Counting'
      BY <2>4, <2>6, <2>8, <3>6 DEF Counting, Asking, uncountedFirst, perStream, onePreflight
    <3>9. Connected'
      <4>1. lane.kind = "doh2" /\ asked > 1 => ~fresh
        BY <1>3, Zenon DEF accepted, exchangeDoH2, SecureTypeOK
      <4>2. lane.kind = "doh2" => masked' \/ dials' = settled'
        <5>1. asked = 1 \/ turn > 1
          BY <2>4
        <5> QED
          BY <2>4, <4>1, <5>1 DEF Connected, Asking
      <4>3. asked # 0
        BY <2>4
      <4> QED
        BY <4>2, <4>3, Zenon DEF Connected, Asking, overHttp
    <3>10. Passing'
      BY <2>4, Zenon DEF Passing, Covered, Asking, overHttp
    <3>11. SecureResultIsEarned'
      BY <2>3, <2>4, Zenon DEF SecureResultIsEarned
    <3> QED
      BY <3>5, <3>7, <3>8, <3>9, <3>10, <3>11, Zenon DEF SecureInv
  <2> QED
    BY <2>7, <2>8, Zenon
<1> QED
  BY <1>2, <1>3, Zenon

(* A sequence with one more element, place by place. *)
LEMMA AppendParts ==
  ASSUME NEW S, NEW s \in Seq(S), NEW e \in S
  PROVE  /\ Append(s, e) \in Seq(S) /\ Len(Append(s, e)) = Len(s) + 1
         /\ \A k \in 1..(Len(s) + 1) : Append(s, e)[k] = IF k = Len(s) + 1 THEN e ELSE s[k]
OBVIOUS

(* What a step of a peer leaves alone. *)
PeerSteady ==
  UNCHANGED << lane, doing, span, counted, fresh, dials, settled, masked, messageId, asked,
               document, ended, cold, warmAnswer, astrayAnswer >>

(* A peer changes what is on its way, and nothing the executor has counted. *)
LEMMA PeerInv ==
  ASSUME SecureInv, PeerSteady, link' \in {"open", "gone"}, link = "open",
         toTarget' \in Seq(Queries), toExecutor' \in Seq(Answers), Waiting', Passing'
  PROVE  SecureInv'
<1> USE DEF SecureInv, PeerSteady
<1>1. SecureTypeOK'
  BY Zenon DEF SecureTypeOK
<1>2. Counting'
  BY Zenon DEF Counting, turn, uncountedFirst, perStream, onePreflight, resolver
<1>3. Connected'
  BY Zenon DEF Connected, turn, overHttp
<1>4. SecureResultIsEarned'
  BY Zenon DEF SecureResultIsEarned, perStream, oneConnection, overHttp
<1> QED
  BY <1>1, <1>2, <1>3, <1>4, Zenon

(* The packaged target answers the one query under way. *)
LEMMA TargetAnswersInv == SecureInv /\ TargetAnswers => SecureInv'
<1> SUFFICES ASSUME SecureInv, TargetAnswers PROVE SecureInv'
  BY Zenon
<1> DEFINE q == Head(toTarget)
           a == reply(q, "authoritative")
           b == [reply(q, "other") EXCEPT !.http = "status"]
<1>1. /\ SecureTypeOK /\ Waiting /\ Counting /\ Passing
      /\ lane.peer = "packaged" /\ link = "open" /\ toTarget # << >> /\ toTarget' = Tail(toTarget)
  BY Zenon DEF SecureInv, TargetAnswers
<1>2. PeerSteady
  BY Zenon DEF TargetAnswers, PeerSteady, historyVars, reuseVars
<1>3. \/ toExecutor' = Append(toExecutor, a) /\ link' = link
      \/ /\ overHttp /\ ~answers(q) /\ toExecutor' = Append(toExecutor, b) /\ link' = link
      \/ ~overHttp /\ ~answers(q) /\ toExecutor' = toExecutor /\ link' = "gone"
  BY Zenon DEF TargetAnswers
<1>4. q \in Queries /\ toTarget' \in Seq(Queries)
  BY <1>1 DEF SecureTypeOK
<1>5. /\ a \in Answers /\ a.n = q.n /\ a.id = q.id /\ a.body = "authoritative" /\ a.http = "exact"
      /\ b \in Answers /\ b.n = q.n /\ b.id = q.id
  BY <1>4, Zenon DEF reply, Queries, Answers
<1>6. toExecutor' \in Seq(Answers) /\ link' \in {"open", "gone"}
  <2>1. toExecutor \in Seq(Answers)
    BY <1>1, Zenon DEF SecureTypeOK
  <2> HIDE DEF a, b
  <2>2. Append(toExecutor, a) \in Seq(Answers) /\ Append(toExecutor, b) \in Seq(Answers)
    BY <1>5, <2>1
  <2> QED
    BY <1>1, <1>3, <2>1, <2>2, Zenon
<1>7. CASE doing # "answer"
  <2>1. doing = "ended"
    BY <1>1, <1>7, Zenon DEF Waiting
  <2>2. Waiting' /\ Passing'
    BY <1>1, <1>2, <2>1, Zenon DEF Waiting, Passing, Covered, Asking, PeerSteady
  <2> QED
    BY <1>1, <1>2, <1>4, <1>6, <2>2, PeerInv, Zenon
<1>8. CASE doing = "answer"
  <2> DEFINE r == [n |-> asked, id |-> IF perStream THEN 0 ELSE messageId,
                   scenario |-> lane.scenario]
  <2>1. toExecutor = << >> /\ toTarget = << r >>
    BY <1>1, <1>8, Zenon DEF Waiting
  <2>2. r.n = asked /\ r.id = (IF perStream THEN 0 ELSE messageId) /\ r.scenario = lane.scenario
    BY Zenon
  <2> HIDE DEF r
  <2>3. q = r /\ toTarget' = << >>
    BY <1>1, <2>1
  <2>4. Covered => answers(q)
    <3>1. lane.kind \in Kinds /\ messageId # 0
      BY <1>1, LaneFacts DEF SecureTypeOK
    <3> QED
      BY <2>2, <2>3, <3>1, Zenon
         DEF answers, answersDoT, answersDoQ, answersDoH2, answersDoH3, Kinds, perStream, Covered
  <2> HIDE DEF q, a, b
  <2>5. \/ toExecutor' = << >> /\ ~Covered
        \/ /\ Len(toExecutor') = 1 /\ toExecutor'[1].n = asked
           /\ toExecutor'[1].id = IF perStream THEN 0 ELSE messageId
           /\ link' = link
           /\ Covered => toExecutor'[1].body = "authoritative" /\ toExecutor'[1].http = "exact"
    BY <1>3, <1>5, <2>1, <2>2, <2>3, <2>4
  <2>6. Waiting'
    <3>1. ASSUME ~perStream, NEW k \in 1..Len(toExecutor')
          PROVE  InTurn(toExecutor[k], k)'
      <4>1. /\ k = 1 /\ toExecutor'[1].n = asked /\ toExecutor'[1].id = messageId
            /\ asked \in Nat /\ messageId \in 1..(IdSpace - 1) /\ MaxAnswers \in Nat
        <5>1. toExecutor' # << >>
          BY <3>1
        <5>2. asked \in Nat /\ messageId \in 1..(IdSpace - 1) /\ MaxAnswers \in Nat
          BY <1>1, SecureDnsAssumption, Zenon DEF SecureTypeOK
        <5>3. /\ Len(toExecutor') = 1 /\ toExecutor'[1].n = asked
              /\ toExecutor'[1].id = messageId
          BY <2>5, <3>1, <5>1, Zenon
        <5> QED
          BY <3>1, <5>2, <5>3
      <4> QED
        BY <1>2, <1>8, <4>1 DEF InTurn, turn, PeerSteady
    <3>2. Len(toExecutor') <= 1 /\ \A k \in 1..Len(toExecutor') : toExecutor'[k].n = asked
      BY <2>5
    <3> QED
      BY <1>2, <1>8, <2>3, <3>1, <3>2, Zenon DEF Waiting, PeerSteady, perStream
  <2>7. Passing'
    BY <1>1, <1>2, <1>8, <2>5 DEF Passing, Covered, PeerSteady, perStream, overHttp, Asking
  <2> QED
    BY <1>1, <1>2, <1>4, <1>6, <2>6, <2>7, PeerInv, Zenon
<1> QED
  BY <1>7, <1>8, Zenon

(* A foreign peer answers the query, says again what it said before, or     *)
(* answers the next query ahead of time.                                    *)
LEMMA ForeignAnswerInv == SecureInv /\ ForeignAnswer => SecureInv'
<1> SUFFICES ASSUME SecureInv, ForeignAnswer PROVE SecureInv'
  BY Zenon
<1>1. /\ SecureTypeOK /\ Waiting /\ Counting /\ lane.peer = "foreign" /\ link = "open"
      /\ Len(toExecutor) < (IF perStream THEN 1 ELSE MaxAnswers)
      /\ doing \in Asking /\ (perStream => doing = "answer")
      /\ toTarget' = << >> /\ link' = link
  BY Zenon DEF SecureInv, ForeignAnswer, Asking
<1>2. PeerSteady
  BY Zenon DEF ForeignAnswer, PeerSteady, historyVars, reuseVars
<1>3. PICK n \in (IF perStream THEN {asked} ELSE {turn - 1, turn, turn + 1} \ {0}),
           body \in {"authoritative", "recursive", "recompressed", "other"},
           http \in (IF overHttp THEN {"exact", "cacheable", "status"} ELSE {"exact"}) :
        LET givenId == IF perStream THEN 0
                       ELSE IF n = turn THEN messageId
                       ELSE IF n = turn + 1 THEN idAfter(messageId)
                       ELSE IF messageId = 1 THEN IdSpace - 1 ELSE messageId - 1
        IN toExecutor' = Append(toExecutor, [n |-> n, id |-> givenId, body |-> body, http |-> http])
  BY Zenon DEF ForeignAnswer
<1> DEFINE givenId == IF perStream THEN 0
                      ELSE IF n = turn THEN messageId
                      ELSE IF n = turn + 1 THEN idAfter(messageId)
                      ELSE IF messageId = 1 THEN IdSpace - 1 ELSE messageId - 1
           a == [n |-> n, id |-> givenId, body |-> body, http |-> http]
<1>4. toExecutor' = Append(toExecutor, a)
  BY <1>3, Zenon
<1>5. /\ asked \in Nat /\ turn \in Nat /\ turn > 0 /\ messageId \in 1..(IdSpace - 1)
      /\ IdSpace \in Nat /\ MaxAnswers \in Nat /\ IdSpace > MaxAnswers + 1 /\ MaxAnswers > 0
      /\ idAfter(messageId) = (IF messageId = IdSpace - 1 THEN 1 ELSE messageId + 1)
  <2>1. asked \in Nat /\ messageId \in 1..(IdSpace - 1)
    BY <1>1, Zenon DEF SecureTypeOK
  <2>2. idAfter(messageId) = (IF messageId = IdSpace - 1 THEN 1 ELSE messageId + 1)
    BY <2>1, IdAfterRange, Zenon
  <2>3. turn \in Nat /\ turn > 0
    BY <1>1, <2>1 DEF turn, Counting, Asking
  <2> QED
    BY <2>1, <2>2, <2>3, SecureDnsAssumption
<1>6. n \in Nat /\ (perStream => n = asked) /\ (~perStream => n \in {turn - 1, turn, turn + 1})
  BY <1>5
<1>7. givenId \in 0..(IdSpace - 1) /\ (~perStream => givenId # 0)
  BY <1>5
<1>8. http \in {"exact", "cacheable", "status"}
  BY Zenon
<1> HIDE DEF givenId
<1>9. a \in Answers /\ a.n = n /\ a.id = givenId
  BY <1>6, <1>7, <1>8, Zenon DEF Answers
<1> HIDE DEF a
<1>10. /\ toExecutor' \in Seq(Answers) /\ Len(toExecutor') = Len(toExecutor) + 1
       /\ \A k \in 1..(Len(toExecutor) + 1) :
            toExecutor'[k] = IF k = Len(toExecutor) + 1 THEN a ELSE toExecutor[k]
  BY <1>1, <1>4, <1>9, AppendParts DEF SecureTypeOK
<1>11. Waiting'
  <2>1. ASSUME ~perStream, NEW k \in 1..Len(toExecutor')
        PROVE  InTurn(toExecutor[k], k)'
    <3>1. CASE k = Len(toExecutor) + 1
      <4>1. toExecutor'[k] = a /\ Len(toExecutor) \in Nat /\ k <= MaxAnswers
        BY <1>1, <1>5, <1>10, <2>1, <3>1 DEF SecureTypeOK
      <4>2. /\ n \in {turn - 1, turn, turn + 1}
            /\ givenId = IF n = turn THEN messageId
                         ELSE IF n = turn + 1
                         THEN (IF messageId = IdSpace - 1 THEN 1 ELSE messageId + 1)
                         ELSE IF messageId = 1 THEN IdSpace - 1 ELSE messageId - 1
        BY <1>5, <1>6, <2>1, Zenon DEF givenId
      <4>3. /\ n <= turn + 1 /\ turn - n + k <= MaxAnswers + 1
            /\ \/ messageId = givenId + (turn - n)
               \/ messageId = givenId + (turn - n) - (IdSpace - 1)
               \/ messageId = givenId + (turn - n) + (IdSpace - 1)
        BY ONLY <1>5, <4>1, <4>2, k \in Nat
      <4>4. turn' = turn /\ messageId' = messageId
        BY <1>2, Zenon DEF turn, PeerSteady
      <4> QED
        BY <1>7, <1>9, <2>1, <4>1, <4>3, <4>4, Zenon DEF InTurn
    <3>2. CASE k # Len(toExecutor) + 1
      <4>1. toExecutor'[k] = toExecutor[k] /\ k \in 1..Len(toExecutor)
        BY <1>1, <1>10, <2>1, <3>2 DEF SecureTypeOK
      <4>2. InTurn(toExecutor[k], k)
        BY <1>1, <2>1, <4>1, Zenon DEF Waiting, Asking
      <4> QED
        BY <1>2, <4>1, <4>2, Zenon DEF InTurn, turn, PeerSteady
    <3> QED
      BY <3>1, <3>2, Zenon
  <2>2. ASSUME perStream, NEW k \in 1..Len(toExecutor')
        PROVE  toExecutor'[k].n = asked
    <3>1. Len(toExecutor) = 0 /\ k = 1
      BY <1>1, <1>10, <2>2 DEF SecureTypeOK
    <3> QED
      BY <1>6, <1>9, <1>10, <2>2, <3>1
  <2>3. lane' = lane /\ doing' = doing /\ asked' = asked /\ perStream' = perStream
    BY <1>2, Zenon DEF PeerSteady, perStream
  <2>4. lane.peer # "packaged" /\ doing # "connect"
    BY <1>1, Zenon DEF Asking
  <2> QED
    BY <2>1, <2>2, <2>3, <2>4, Zenon DEF Waiting
<1>12. Passing'
  BY <1>1, <1>2, Zenon DEF Passing, Covered, PeerSteady
<1> QED
  BY <1>1, <1>2, <1>10, <1>11, <1>12, PeerInv

(* The transport repeats a DoH2 request: on a new connection, which it      *)
(* reports, or on the same one, which masks a new one.                      *)
LEMMA TransportResendsInv == SecureInv /\ TransportResends => SecureInv'
<1> SUFFICES ASSUME SecureInv, TransportResends PROVE SecureInv'
  BY Zenon
<1>1. /\ SecureTypeOK /\ Waiting /\ Counting /\ Connected /\ Passing /\ SecureResultIsEarned
      /\ doing = "answer" /\ lane.kind = "doh2" /\ lane.peer = "foreign" /\ toExecutor = << >>
      /\ link' \in {"open", link}
      /\ \/ fresh' = TRUE /\ dials' = dials + 1 /\ masked' = masked
         \/ fresh' = FALSE /\ dials' = dials /\ masked' = (masked \/ (fresh /\ asked > 1))
      /\ UNCHANGED << lane, doing, span, counted, settled, messageId, asked, toTarget, toExecutor,
                      document, ended, cold, warmAnswer, astrayAnswer >>
  BY Zenon DEF SecureInv, TransportResends, historyVars
<1>2. asked \in Nat /\ asked > 0 /\ turn = asked /\ turn' = asked /\ document # "passed"
  BY <1>1, Zenon DEF SecureTypeOK, Counting, Asking, turn
<1> USE <1>1
<1>3. SecureTypeOK'
  <2>1. dials' \in Nat /\ link' \in {"none", "open", "gone"}
    BY DEF SecureTypeOK
  <2>2. fresh' \in BOOLEAN
    BY Zenon
  <2> QED
    BY <2>1, <2>2, Zenon DEF SecureTypeOK
<1>4. Waiting'
  BY <1>2, Zenon DEF Waiting, InTurn, perStream
<1>5. Counting'
  BY <1>2, Zenon DEF Counting, Asking, uncountedFirst, perStream, onePreflight, resolver
<1>6. Connected'
  <2>1. turn > 1 => masked \/ dials = settled \/ fresh
    BY Zenon DEF Connected, Asking
  <2>2. turn' > 1 => masked' \/ dials' = settled' \/ fresh'
    BY <1>2, <2>1, Zenon
  <2>3. overHttp' /\ asked' # 0
    BY <1>2 DEF overHttp
  <2> QED
    BY <2>2, <2>3, Zenon DEF Connected
<1>7. Passing'
  BY Zenon DEF Passing, Covered
<1>8. SecureResultIsEarned'
  BY <1>2, Zenon DEF SecureResultIsEarned
<1> QED
  BY <1>3, <1>4, <1>5, <1>6, <1>7, <1>8, Zenon DEF SecureInv

(* A step that changes nothing keeps the invariant. *)
LEMMA SecureStutterInv == SecureInv /\ UNCHANGED secureVars => SecureInv'
<1> SUFFICES ASSUME SecureInv, UNCHANGED secureVars PROVE SecureInv'
  BY Zenon
<1>1. SecureTypeOK /\ Waiting /\ Counting /\ Connected /\ Passing /\ SecureResultIsEarned
  BY Zenon DEF SecureInv
<1> USE <1>1 DEF secureVars
<1>2. SecureTypeOK'
  BY Zenon DEF SecureTypeOK
<1>3. Waiting'
  BY DEF Waiting, InTurn, turn, perStream
<1>4. Counting'
  BY Zenon DEF Counting, turn, uncountedFirst, perStream, onePreflight, resolver
<1>5. Connected'
  BY Zenon DEF Connected, turn, overHttp
<1>6. Passing'
  BY Zenon DEF Passing, Covered, overHttp, perStream
<1>7. SecureResultIsEarned'
  BY Zenon DEF SecureResultIsEarned, perStream, oneConnection, overHttp
<1> QED
  BY <1>2, <1>3, <1>4, <1>5, <1>6, <1>7, Zenon DEF SecureInv

(* The invariant holds of every executor with every peer. *)
THEOREM SecureInvariant == SecureDnsSpec => []SecureInv
<1>1. ASSUME SecureInv, [SecureDnsNext]_secureVars PROVE SecureInv'
  <2>1. CASE UNCHANGED secureVars
    BY <1>1, <2>1, SecureStutterInv, Zenon
  <2>2. CASE SecureExecutorStep
    BY <1>1, <2>2, CheckIdentityInv, connectInv, NextQueryInv, PhaseDeadlineInv, flushInv,
       WriteQueryInv, TransportResendsInv, ReadAnswerInv, WaitFailsInv, Zenon
       DEF SecureExecutorStep
  <2>3. CASE TargetAnswers \/ ForeignAnswer \/ ForeignHangsUp
    BY <1>1, <2>3, TargetAnswersInv, ForeignAnswerInv, ForeignHangsUpInv, Zenon
  <2> QED
    BY <1>1, <2>1, <2>2, <2>3, Zenon DEF SecureDnsNext
<1> QED
  BY <1>1, SecureInitInv, PTL DEF SecureDnsSpec

(* No executor counts an answer made for another query, or a query to a     *)
(* resolver whose cache it did not flush; and a passed result.json comes    *)
(* with exit code 0 from a measured phase without a failure, with every     *)
(* query counted, over one connection as far as oneConnection says.         *)
THEOREM SecureResultEarned == SecureDnsSpec => []SecureResultIsEarned
<1>1. SecureInv => SecureResultIsEarned
  BY Zenon DEF SecureInv
<1> QED
  BY <1>1, SecureInvariant, PTL

(* Whatever scenario a packaged target's fixtures cover, its executor      *)
(* passes, for any number of queries and round after round of message IDs.  *)
THEOREM PackagedDnsAgrees == SecureDnsSpec => []PackagedDnsPasses
<1>1. SecureInv => PackagedDnsPasses
  BY Zenon DEF SecureInv, Passing, Covered, PackagedDnsPasses
<1> QED
  BY <1>1, SecureInvariant, PTL
=============================================================================
