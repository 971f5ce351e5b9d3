---------------------------- MODULE MCWeldrStore ----------------------------
(***************************************************************************)
(* Instances of WeldrStore for TLC.                                        *)
(***************************************************************************)
EXTENDS WeldrStore

Pkg(n, v) == [Name |-> n, Version |-> v]

\* one package, and two packages one of which has another version
TwoContents == {<<Pkg(2, "*")>>, <<Pkg(3, "*"), Pkg(2, "1")>>}

\* two unsorted answers, one without package 3 and with two of one name
SolverAnswers == {<<Pkg(3, "7"), Pkg(1, "9"), Pkg(2, "8")>>,
                  <<Pkg(2, "8"), Pkg(1, "9"), Pkg(2, "5")>>}

FourCommits == <<"c1", "c2", "c3", "c4">>
=============================================================================
