---------------------------- MODULE MCNamesAndTls ----------------------------
(***************************************************************************)
(* The classic DNS executors (eight message IDs: the odd ones come round   *)
(* after four exchanges, so nine exchanges of a phase use each of them     *)
(* twice), the encrypted DNS executors, the TLS executors and the record   *)
(* observer. They share no state: a behaviour is one of them, with the     *)
(* others where they stop when they refuse what the environment asks for.  *)
(***************************************************************************)
EXTENDS ClassicDns, SecureDns, TlsSession, TlsRecords

ClassicAtRest ==
  /\ scenario = "udp" /\ validationOnly = FALSE /\ profile = FALSE
  /\ faults = 1 /\ datagrams = {} /\ tcp = "closed" /\ stream = silence
  /\ pc = "returned" /\ phase = "preflight" /\ expired = FALSE
  /\ id = 0 /\ next = 1 /\ summary = [emptySummary EXCEPT !["failed"] = 1] /\ err = TRUE
  /\ result = "invalid" /\ exit = "1" /\ clean = {} /\ seq = 0 /\ retried = 0 /\ own = TRUE

SecureAtRest ==
  /\ lane = [kind |-> "dot", scenario |-> "unknown", peer |-> "packaged", defect |-> "none",
             control |-> "refused", identity |-> FALSE, validationOnly |-> FALSE,
             profile |-> FALSE]
  /\ doing = "ended" /\ span = "preflight" /\ counted = noQueries
  /\ link = "none" /\ fresh = FALSE /\ dials = 0 /\ messageId = 1 /\ asked = 0
  /\ resends = 0 /\ settled = 0 /\ masked = FALSE
  /\ toTarget = << >> /\ toExecutor = << >> /\ document = "none" /\ ended = 2
  /\ cold = FALSE /\ warmAnswer = FALSE /\ astrayAnswer = FALSE

TlsAtRest ==
  /\ task = [kind |-> "full", peer |-> "packaged", identity |-> "other",
             validationOnly |-> FALSE, config |-> TRUE, warmup |-> TRUE, total |-> 0]
  /\ step = "exit" /\ period = "preflight" /\ round = 1 /\ tally = emptyTally
  /\ cache = emptyCache /\ offered = FALSE /\ hello = << >>
  /\ toServer = << >> /\ toClient = << >> /\ served = "closed"
  /\ verdict = "pending" /\ tlsExit = 2 /\ astray = FALSE /\ fault = FALSE

RecordsAtRest ==
  /\ wire = << >> /\ lengths = << >> /\ fed = 0
  /\ parser = [pending |-> << >>, count |-> 0, bytes |-> 0]

Init ==
  \/ DnsInit /\ SecureAtRest /\ TlsAtRest /\ RecordsAtRest
  \/ ClassicAtRest /\ SecureDnsInit /\ TlsAtRest /\ RecordsAtRest
  \/ ClassicAtRest /\ SecureAtRest /\ TlsInit /\ RecordsAtRest
  \/ ClassicAtRest /\ SecureAtRest /\ TlsAtRest /\ RecordsInit

Next ==
  \/ DnsNext /\ UNCHANGED << secureVars, tlsVars, recordVars >>
  \/ SecureDnsNext /\ UNCHANGED << dnsVars, tlsVars, recordVars >>
  \/ TlsNext /\ UNCHANGED << dnsVars, secureVars, recordVars >>
  \/ RecordsNext /\ UNCHANGED << dnsVars, secureVars, tlsVars >>

Spec ==
  /\ Init /\ [][Next]_<< dnsVars, secureVars, tlsVars, recordVars >>
  /\ DnsFairness /\ SecureDnsFairness /\ TlsFairness
=============================================================================
