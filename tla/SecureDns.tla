------------------------------ MODULE SecureDns ------------------------------
(***************************************************************************)
(* The four encrypted DNS executors, go-dns-dot-executor (TLS stream),     *)
(* go-dns-doq-executor (QUIC stream per query), go-dns-doh2-executor and   *)
(* go-dns-doh3-executor (HTTP request per query), with their packaged      *)
(* targets. A run is a preflight of one query, then a warm-up and a        *)
(* measured phase of queries one after another on one connection. The peer *)
(* is the packaged target, or an implementation under test that answers    *)
(* what it likes, repeats itself, hangs up or falls silent.                *)
(***************************************************************************)
EXTENDS Integers, Sequences

CONSTANTS IdSpace,     \* message IDs: 2^16 in the code
          MaxQueries,  \* bound: queries of one phase
          MaxAnswers,  \* bound: answers waiting on the connection
          MaxResends   \* bound: times the HTTP/2 transport repeats one request

ASSUME SecureDnsAssumption ==
  /\ MaxQueries \in Nat \ {0, 1} /\ MaxAnswers \in Nat \ {0} /\ MaxResends \in Nat
  /\ IdSpace \in Nat /\ IdSpace > MaxAnswers + 1   \* no answer waits until its ID comes round

Kinds == {"dot", "doq", "doh2", "doh3"}

(* The scenarios each executor admits; it knows others to be unsupported. *)
supportedDoT == {"strict", "interop", "resolver"}
supportedDoQ == {"strict", "interop"}
supportedDoH2 == {"strict", "interop", "resolver"}
supportedDoH3 == {"strict", "interop", "get"}
supportedScenarios(kind) ==
  CASE kind = "dot" -> supportedDoT [] kind = "doq" -> supportedDoQ
    [] kind = "doh2" -> supportedDoH2 [] kind = "doh3" -> supportedDoH3

Unset == -1
noQueries == [completed |-> 0, malformed |-> 0, timedOut |-> 0, failed |-> 0]

VARIABLES lane,        \* kind, scenario, peer, its TLS defect and control endpoint, and what the
                       \* environment asks
          doing,       \* what the executor does or waits for
          span,        \* the phase: "preflight", "warmup", "measured"
          counted,     \* the phase summary
          link,        \* the connection: "none", "open", "gone"
          fresh,       \* the current request opened its connection, as the transport reports it
          dials,       \* connections of this phase
          resends,     \* times the transport has repeated the current request
          settled,     \* history: connections of this phase when its first answer was accepted
          masked,      \* history: a later request's new connection was reported as a used one
          messageId,   \* DoT: the next runtime message ID
          asked,       \* queries written in this phase
          toTarget, toExecutor,   \* the query and the answers under way
          document,    \* result.json
          ended,       \* exit code
          cold,        \* history: the resolver's cache was flushed since the last answer
          warmAnswer,  \* history: a counted query of a resolver did not follow a flush
          astrayAnswer \* history: a counted answer was made for another query

secureVars == << lane, doing, span, counted, link, fresh, dials, resends, settled, masked,
                 messageId, asked, toTarget, toExecutor, document, ended, cold, warmAnswer,
                 astrayAnswer >>

onePreflight == span = "preflight"
resolver == lane.scenario = "resolver"
perStream == lane.kind # "dot"     \* a query's stream carries its own answer only
overHttp == lane.kind \in {"doh2", "doh3"}

SecureDnsInit ==
  /\ lane \in [kind : Kinds,
               scenario : {"strict", "interop", "resolver", "get", "elsewhere", "unknown"},
               peer : {"packaged"}, defect : {"none"}, control : {"refused"},
               identity : BOOLEAN, validationOnly : BOOLEAN, profile : BOOLEAN]
           \cup [kind : Kinds, scenario : {"strict", "interop", "resolver"},
                 peer : {"foreign"}, defect : {"none", "cipher", "other"},
                 control : {"serves", "silent"}, identity : {TRUE}, validationOnly : {FALSE},
                 profile : {TRUE}]
  /\ doing = "identity" /\ span = "preflight" /\ counted = noQueries
  /\ link = "none" /\ fresh = FALSE /\ dials = 0 /\ messageId = 1 /\ asked = 0
  /\ resends = 0 /\ settled = 0 /\ masked = FALSE
  /\ toTarget = << >> /\ toExecutor = << >> /\ document = "none" /\ ended = Unset
  /\ cold = FALSE /\ warmAnswer = FALSE /\ astrayAnswer = FALSE

reuseVars == << resends, settled, masked >>
connectionVars == << link, fresh, dials, reuseVars, messageId, asked, toTarget, toExecutor >>
historyVars == << cold, warmAnswer, astrayAnswer >>

-----------------------------------------------------------------------------
(* main *)

Finish(code) == doing' = "ended" /\ ended' = code

(* runPhase's first lines: a new client, nothing counted. *)
BeginPhase(s) ==
  /\ doing' = "connect" /\ span' = s /\ counted' = noQueries
  /\ link' = "none" /\ fresh' = FALSE /\ dials' = 0 /\ messageId' = 1 /\ asked' = 0
  /\ resends' = 0 /\ settled' = 0 /\ masked' = FALSE
  /\ toTarget' = << >> /\ toExecutor' = << >>

(* checkIdentityOrExit, normalizeTarget, loadRoots. *)
CheckIdentity ==
  /\ doing = "identity"
  /\ CASE lane.identity /\ lane.scenario \in supportedScenarios(lane.kind) ->
            BeginPhase("preflight") /\ UNCHANGED << document, ended >>
       [] lane.identity /\ lane.scenario = "elsewhere" ->
            /\ Finish(3) /\ document' = "unsupported"
            /\ UNCHANGED << span, counted, connectionVars >>
       [] OTHER -> Finish(2) /\ UNCHANGED << document, span, counted, connectionVars >>
  /\ UNCHANGED << lane, historyVars >>

hasFailuresOrNone(sum) == sum.malformed + sum.timedOut + sum.failed # 0 \/ sum.completed = 0

(* A phase has returned with the summary sum. *)
PhaseReturns(sum, err) ==
  /\ CASE onePreflight ->
            /\ document' = IF err THEN "invalid" ELSE "valid"
            /\ CASE err -> Finish(1) /\ counted' = sum /\ UNCHANGED << span, connectionVars >>
                 [] ~err /\ lane.validationOnly ->
                      Finish(0) /\ counted' = sum /\ UNCHANGED << span, connectionVars >>
                 [] ~err /\ ~lane.validationOnly /\ ~lane.profile ->
                      Finish(2) /\ counted' = sum /\ UNCHANGED << span, connectionVars >>
                 [] OTHER -> BeginPhase("warmup") /\ UNCHANGED ended
       [] ~onePreflight /\ (err \/ hasFailuresOrNone(sum)) ->
            Finish(1) /\ counted' = sum /\ UNCHANGED << span, connectionVars, document >>
       [] span = "warmup" /\ ~err /\ ~hasFailuresOrNone(sum) ->
            BeginPhase("measured") /\ UNCHANGED << document, ended >>
       [] OTHER -> /\ Finish(0) /\ document' = "passed" /\ counted' = sum
                   /\ UNCHANGED << span, connectionVars >>
  /\ UNCHANGED lane

(* classify: the phase ends with its first failure, of this kind. *)
classify(outcome) == PhaseReturns([counted EXCEPT ![outcome] = @ + 1], TRUE)

-----------------------------------------------------------------------------
(* runPhase *)

(* The TLS gates: the cipher suite matters to the DoT and DoH2 executors in *)
(* the strict scenario only, to the QUIC ones always.                       *)
validateTLSDoT == lane.defect = "none" \/ (lane.defect = "cipher" /\ lane.scenario # "strict")
validateTLSDoH2 == lane.defect = "none" \/ (lane.defect = "cipher" /\ lane.scenario # "strict")
validateConnection == lane.defect = "none"
validateTLSDoH3 == lane.defect = "none"

(* DoT and DoQ dial before the first query. A DoT dial that fails, even by  *)
(* timeout, counts as failed.                                               *)
connect ==
  /\ doing = "connect"
  /\ IF overHttp
     THEN /\ doing' = "loop"
          /\ UNCHANGED << lane, span, counted, connectionVars, document, ended >>
     ELSE \/ /\ IF lane.kind = "dot" THEN validateTLSDoT ELSE validateConnection
             /\ doing' = "loop" /\ link' = "open" /\ dials' = 1
             /\ UNCHANGED << lane, span, counted, fresh, reuseVars, messageId, asked, toTarget,
                             toExecutor, document, ended >>
          \/ /\ \/ lane.peer = "foreign"
                \/ ~(IF lane.kind = "dot" THEN validateTLSDoT ELSE validateConnection)
             /\ \/ classify("failed")
                \/ lane.kind = "doq" /\ classify("timedOut")
  /\ UNCHANGED historyVars

(* The loop of each runPhase: once, or until its deadline. The executors    *)
(* but DoT make a first query that is not counted; a phase lasts at least   *)
(* one turn of its loop.                                                    *)
uncountedFirst == perStream /\ ~onePreflight
NextQuery ==
  /\ doing = "loop" /\ asked < MaxQueries /\ (onePreflight => asked = 0)
  /\ doing' = IF resolver THEN "flush" ELSE "query"
  /\ UNCHANGED << lane, span, counted, connectionVars, document, ended, historyVars >>

PhaseDeadline ==
  /\ doing = "loop" /\ ~onePreflight /\ asked > (IF uncountedFirst THEN 1 ELSE 0)
  /\ PhaseReturns(counted, FALSE) /\ UNCHANGED historyVars

(* flushResolverCache posts to the resolver's control endpoint before every *)
(* query. The DoT executor counts its timeout as a failure.                 *)
flushResolverCache ==
  /\ doing = "flush"
  /\ \/ /\ lane.control = "serves" /\ doing' = "query" /\ cold' = TRUE
        /\ UNCHANGED << lane, span, counted, connectionVars, document, ended >>
     \/ lane.control # "silent" /\ classify("failed") /\ UNCHANGED cold
  /\ UNCHANGED << warmAnswer, astrayAnswer >>

idAfterNoSkip(id) == (id + 1) % IdSpace
(* nextID++, and the next turn's "if nextID == 0". *)
idAfter(id) == IF (id + 1) % IdSpace = 0 THEN 1 ELSE (id + 1) % IdSpace

(* The query is written: on the DoT connection with a runtime message ID,   *)
(* on a DoQ stream of its own, or as a request for which the HTTP transport *)
(* dials when it has no live connection.                                    *)
WriteQuery ==
  /\ doing = "query"
  /\ LET redial == overHttp /\ link # "open"
     IN \/ /\ link = "open" \/ redial
           /\ link' = "open" /\ fresh' = redial
           /\ dials' = IF redial THEN dials + 1 ELSE dials
           /\ toTarget' = << [n |-> asked + 1, id |-> IF perStream THEN 0 ELSE messageId,
                              scenario |-> lane.scenario] >>
           /\ toExecutor' = IF perStream THEN << >> ELSE toExecutor
           /\ asked' = asked + 1 /\ resends' = 0 /\ doing' = "answer"
           /\ UNCHANGED << lane, span, counted, settled, masked, messageId, document, ended >>
        \/ /\ redial /\ lane.peer = "foreign" /\ classify("failed")
        \/ /\ ~overHttp /\ link = "gone" /\ classify("failed")
  /\ UNCHANGED historyVars

(* The canonical fixture of the scenario; other compression is a different  *)
(* encoding of the same message.                                            *)
canonical == IF resolver THEN "recursive" ELSE "authoritative"

exchangeDoTAnyId(m) == m.body = canonical
exchangeDoT(m) == m.id = messageId /\ m.body = canonical
validateDNSFrame(m) == m.id = 0 /\ m.body = canonical
validateDNS(m) == m.id = 0 /\ m.body \in {canonical, "recompressed"}
(* observedReused is what the transport says of this request's connection. *)
exchangeDoH2(m) ==
  /\ ~fresh = (asked > 1)
  /\ m.http \in (IF lane.scenario = "strict" THEN {"exact"} ELSE {"exact", "cacheable"})
  /\ validateDNS(m)
semanticEqual(m) == m.body \in {canonical, "recompressed"}
(* reused is whether the phase had dialled before the request was made. *)
exchangeDoH3(m) ==
  /\ (dials - (IF fresh THEN 1 ELSE 0) > 0) = (asked > 1)
  /\ m.http = "exact" /\ semanticEqual(m)

accepted(m) ==
  CASE lane.kind = "dot" -> exchangeDoT(m)
    [] lane.kind = "doq" -> validateDNSFrame(m) /\ validateConnection
    [] lane.kind = "doh2" -> exchangeDoH2(m) /\ validateTLSDoH2
    [] lane.kind = "doh3" -> exchangeDoH3(m) /\ validateTLSDoH3

(* An answer is read and judged. A TLS mismatch is a failure of its own. *)
tlsFails == (lane.kind = "doh2" /\ ~validateTLSDoH2) \/ (lane.kind = "doh3" /\ ~validateTLSDoH3)
ReadAnswer ==
  /\ doing = "answer" /\ toExecutor # << >>
  /\ LET m == Head(toExecutor)
         counts == ~(uncountedFirst /\ asked = 1)
         sum == IF counts THEN [counted EXCEPT !.completed = @ + 1] ELSE counted
     IN IF accepted(m)
        THEN /\ warmAnswer' = (warmAnswer \/ (resolver /\ ~cold))
             /\ astrayAnswer' = (astrayAnswer \/ m.n # asked)
             /\ cold' = FALSE
             /\ IF onePreflight
                THEN PhaseReturns(sum, FALSE)
                ELSE /\ doing' = "loop" /\ counted' = sum /\ messageId' = idAfter(messageId)
                     /\ toExecutor' = Tail(toExecutor)
                     /\ settled' = IF asked = 1 THEN dials ELSE settled
                     /\ UNCHANGED << lane, span, link, fresh, dials, resends, masked, asked,
                                     toTarget, document, ended >>
        ELSE /\ classify(IF tlsFails THEN "failed" ELSE "malformed") /\ UNCHANGED historyVars

(* net/http repeats a DoH2 request that the server says it has not          *)
(* processed: on a new connection when the server closed the old one, on    *)
(* the same one when it refused the stream. GotConn is called once more and *)
(* then reports a connection that has carried a request as reused.          *)
TransportResends ==
  /\ doing = "answer" /\ lane.kind = "doh2" /\ lane.peer = "foreign"
  /\ toExecutor = << >> /\ resends < MaxResends /\ resends' = resends + 1
  /\ \/ /\ link = "gone" /\ link' = "open" /\ fresh' = TRUE /\ dials' = dials + 1
        /\ UNCHANGED masked
     \/ /\ link = "open" /\ fresh' = FALSE /\ masked' = (masked \/ (fresh /\ asked > 1))
        /\ UNCHANGED << link, dials >>
  /\ UNCHANGED << lane, doing, span, counted, settled, messageId, asked, toTarget, toExecutor,
                  document, ended, historyVars >>

(* The peer has hung up, and nothing is left to read. *)
ReadFails ==
  /\ doing = "answer" /\ link = "gone" /\ toExecutor = << >>
  /\ classify("failed") /\ UNCHANGED historyVars

underDeadlineExchange == {"answer"}
(* What has a deadline: a flush (three seconds) and an exchange (five). *)
underDeadline == {"flush", "answer"}
QueryTimesOut ==
  /\ doing \in underDeadline /\ lane.peer = "foreign" /\ (doing = "answer" => toExecutor = << >>)
  /\ classify(IF doing = "flush" /\ lane.kind = "dot" THEN "failed" ELSE "timedOut")
  /\ UNCHANGED historyVars

-----------------------------------------------------------------------------
(* The peers *)

reply(q, body) == [n |-> q.n, id |-> q.id, body |-> body, http |-> "exact"]

(* The packaged targets know the authoritative fixtures only. The DoT one   *)
(* wants a runtime message ID that is not zero, the others want zero; DoT   *)
(* and DoQ close the connection on anything else, the HTTP ones answer with *)
(* an error status.                                                         *)
answersDoT(q) == q.id # 0 /\ q.scenario # "resolver"
answersDoQ(q) == q.id = 0
answersDoH2(q) == q.id = 0 /\ q.scenario # "resolver"
answersDoH3(q) == q.id = 0
answers(q) ==
  CASE lane.kind = "dot" -> answersDoT(q) [] lane.kind = "doq" -> answersDoQ(q)
    [] lane.kind = "doh2" -> answersDoH2(q) [] lane.kind = "doh3" -> answersDoH3(q)

TargetAnswers ==
  /\ lane.peer = "packaged" /\ link = "open" /\ toTarget # << >>
  /\ LET q == Head(toTarget)
     IN CASE answers(q) -> /\ toExecutor' = Append(toExecutor, reply(q, "authoritative"))
                           /\ UNCHANGED link
          [] ~answers(q) /\ overHttp ->
               /\ toExecutor' = Append(toExecutor, [reply(q, "other") EXCEPT !.http = "status"])
               /\ UNCHANGED link
          [] OTHER -> link' = "gone" /\ UNCHANGED toExecutor
  /\ toTarget' = Tail(toTarget)
  /\ UNCHANGED << lane, doing, span, counted, fresh, dials, reuseVars, messageId, asked, document,
                  ended, historyVars >>

(* The query whose ID is messageId: the one under way, or the next one. *)
turn == IF doing = "answer" THEN asked ELSE asked + 1

(* A foreign peer answers the query, or says again what it said before. The *)
(* IDs of DoT are consecutive, so it may also answer a query ahead of time. *)
ForeignAnswer ==
  /\ lane.peer = "foreign" /\ link = "open"
  /\ doing = "answer" \/ (~perStream /\ doing \in {"loop", "flush", "query"})
  /\ Len(toExecutor) < (IF perStream THEN 1 ELSE MaxAnswers)
  /\ \E n \in (IF perStream THEN {asked} ELSE {turn - 1, turn, turn + 1} \ {0}),
        body \in {"authoritative", "recursive", "recompressed", "other"},
        http \in (IF overHttp THEN {"exact", "cacheable", "status"} ELSE {"exact"}) :
       LET id == IF perStream THEN 0
                 ELSE IF n = turn THEN messageId
                 ELSE IF n = turn + 1 THEN idAfter(messageId)
                 ELSE IF messageId = 1 THEN IdSpace - 1 ELSE messageId - 1
       IN toExecutor' = Append(toExecutor, [n |-> n, id |-> id, body |-> body, http |-> http])
  /\ toTarget' = << >>
  /\ UNCHANGED << lane, doing, span, counted, link, fresh, dials, reuseVars, messageId, asked,
                  document, ended, historyVars >>

ForeignHangsUp ==
  /\ lane.peer = "foreign" /\ link = "open" /\ doing # "ended" /\ link' = "gone"
  /\ UNCHANGED << lane, doing, span, counted, fresh, dials, reuseVars, messageId, asked, toTarget,
                  toExecutor, document, ended, historyVars >>

SecureExecutorStep ==
  \/ CheckIdentity \/ connect \/ NextQuery \/ PhaseDeadline \/ flushResolverCache
  \/ WriteQuery \/ TransportResends \/ ReadAnswer \/ ReadFails \/ QueryTimesOut

SecureDnsNext == SecureExecutorStep \/ TargetAnswers \/ ForeignAnswer \/ ForeignHangsUp

(* The executor runs, its timers fire, and the packaged target answers. *)
SecureDnsFairness == WF_secureVars(SecureExecutorStep) /\ WF_secureVars(TargetAnswers)
SecureDnsSpec == SecureDnsInit /\ [][SecureDnsNext]_secureVars /\ SecureDnsFairness

-----------------------------------------------------------------------------
(* Properties *)

(* DoT and DoQ used the connection that connect dialled; a DoH2 request     *)
(* after the first answer never changed connections unnoticed, but when the *)
(* new connection refused its stream first (masked). DoH3 is in             *)
(* OneReusedConnection.                                                     *)
oneConnection ==
  /\ ~overHttp => dials = 1
  /\ lane.kind = "doh2" /\ ~masked => dials = settled

(* Exit 0 with a passed result.json comes from a measured phase with no     *)
(* failure and a counted query; no counted answer was made for another      *)
(* query, so an answer that a peer repeats or sends late is never taken for *)
(* the next one's (the message ID of DoT, the stream of the others); every  *)
(* counted query to a resolver followed a flush of its own (the answer need *)
(* not: a DoT peer may send it ahead with the next ID); and the queries of  *)
(* the measured phase used one connection, as oneConnection says.           *)
SecureResultIsEarned ==
  /\ ~astrayAnswer /\ ~warmAnswer
  /\ document = "passed" =>
       /\ ended = 0 /\ span = "measured"
       /\ counted.completed > 0 /\ counted.completed = asked - (IF perStream THEN 1 ELSE 0)
       /\ oneConnection

(* A packaged executor and its packaged target agree: every scenario that   *)
(* the target's fixtures cover passes, for any number of queries, also when *)
(* the DoT message ID wraps around.                                         *)
PackagedDnsPasses ==
  /\ doing = "ended" /\ lane.peer = "packaged" /\ lane.identity
  /\ lane.scenario \in supportedScenarios(lane.kind) \ {"resolver"}
  /\ lane.validationOnly \/ lane.profile
  => ended = 0

(* Every run ends, whatever the peer withholds: connect, flush and exchange *)
(* all have a deadline.                                                     *)
SecureDnsEnds == <>(doing = "ended")

(* docs/dns-doh3-component-delivery.md: the DoH3 executor requires one      *)
(* reused connection. Its exchange compares the dial count from before the  *)
(* request, so a request that made the transport dial again also passes.    *)
OneReusedConnection == lane.kind = "doh3" /\ document = "passed" => dials = 1
=============================================================================
