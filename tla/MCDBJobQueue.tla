---------------------------- MODULE MCDBJobQueue ----------------------------
(***************************************************************************)
(* Instances of DBJobQueue for TLC.                                        *)
(***************************************************************************)
EXTENDS DBJobQueue

CONSTANTS d1, d2

\* Two workers that take jobs of the same types.
AcceptAll == [d \in {d1, d2} |-> Types]
=============================================================================
