--------------------------- MODULE MCWeldrComposes --------------------------
(***************************************************************************)
(* Instances of WeldrComposes for TLC.                                     *)
(***************************************************************************)
EXTENDS WeldrComposes, TLC

CONSTANTS c1, c2, h1, h2, t1, t2

Interchangeable ==
    Permutations(Handlers) \cup Permutations(Composes) \cup Permutations(Tokens)
=============================================================================
