----------------------- MODULE MCConnectionScheduler -----------------------
(***************************************************************************)
(* Three workers over two one-slot connections: one worker too many, so    *)
(* scans fail, workers sleep on notify and wake-ups are dropped.           *)
(***************************************************************************)
EXTENDS ConnectionScheduler

CONSTANTS w1, w2, w3

ThreeWorkers == {w1, w2, w3}

=============================================================================
