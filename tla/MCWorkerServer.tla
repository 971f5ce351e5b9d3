--------------------------- MODULE MCWorkerServer ---------------------------
(***************************************************************************)
(* Instances of WorkerServer for TLC.                                      *)
(***************************************************************************)
EXTENDS WorkerServer, TLC

CONSTANTS main, \* a slot
          w1    \* and its worker process

Single == (main :> w1)
=============================================================================
