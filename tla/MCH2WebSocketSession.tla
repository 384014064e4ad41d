------------------------ MODULE MCH2WebSocketSession ------------------------
(* Two instances: two streams of one connection in the preflight, and one   *)
(* stream with groups of two messages in all phases. Capacity is as many    *)
(* DATA frames as unsolicited frames can fill.                              *)
EXTENDS H2WebSocketSession
=============================================================================
