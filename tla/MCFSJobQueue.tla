---------------------------- MODULE MCFSJobQueue ----------------------------
(***************************************************************************)
(* Instances of FSJobQueue for TLC.                                        *)
(***************************************************************************)
EXTENDS FSJobQueue, TLC

CONSTANTS build, depsolve, \* job types
          w1, w2           \* dequeuers

\* One worker for builds only, one that takes every type.
Mixed == (w1 :> {build}) @@ (w2 :> {build, depsolve})

\* Two workers for the same type.
Same == (w1 :> {build}) @@ (w2 :> {build})

Identical == Permutations(Jobs \ Legacy) \cup Permutations(Tokens)
=============================================================================
