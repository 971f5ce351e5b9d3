--------------------------- MODULE MCKojiCompose ----------------------------
(***************************************************************************)
(* Instances of KojiCompose for TLC.                                       *)
(***************************************************************************)
EXTENDS KojiCompose

CONSTANTS b1, b2

TwoBuilds == <<b1, b2>>

AllJobs == Jobs
=============================================================================
