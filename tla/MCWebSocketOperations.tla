------------------------ MODULE MCWebSocketOperations ------------------------
(***************************************************************************)
(* The single-stream scenarios of the HTTP/2 WebSocket executor, and the   *)
(* two HTTP/1.1 WebSocket executors. They share no state: a behaviour is   *)
(* one of them, with the other where it stops when its preflight fails or  *)
(* it does not know the scenario.                                          *)
(***************************************************************************)
EXTENDS H2WebSocketOperation, Http1WebSocket

OperationAtRest ==
  /\ message = FALSE /\ validationOnly = TRUE /\ stage = "idle" /\ silent = FALSE
  /\ mode = "exited" /\ expired = FALSE
  /\ summary = emptySummary /\ warmup = emptySummary /\ validation = "failed" /\ exit = "1"
  /\ right = FALSE /\ begun = 1 /\ earned = 0

ExecutorAtRest ==
  /\ env = [kind |-> "cleartext", scenario |-> "text", identity |-> "unknown",
            validationOnly |-> FALSE, profile |-> TRUE, timeout |-> operationTimeout]
  /\ peer = "packaged" /\ pc = "exit" /\ period = "preflight" /\ tally = noTally
  /\ result = "none" /\ exitCode = 2
  /\ toServer = << >> /\ toClient = << >> /\ server = "none" /\ tlsProof = TRUE
  /\ opLeft = 0 /\ phaseLeft = 0 /\ serverLeft = 0
  /\ frames = 0 /\ exact = TRUE /\ late = FALSE

Init == \/ OperationInit /\ ExecutorAtRest
        \/ OperationAtRest /\ WsInit

Next == \/ OperationNext /\ UNCHANGED wsVars
        \/ WsNext /\ UNCHANGED opVars

Spec == /\ Init /\ [][Next]_<< opVars, wsVars >>
        /\ WF_opVars(Progress) /\ WF_wsVars(ExecutorStep \/ Tick)
=============================================================================
