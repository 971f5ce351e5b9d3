--------------------------- MODULE MCCloudCompose ---------------------------
(***************************************************************************)
(* Instances of CloudCompose for TLC.                                      *)
(***************************************************************************)
EXTENDS CloudCompose, TLC

CONSTANTS r1, r2, a1, a2, n1, n2

Ask(api, target, name, share) ==
    [api |-> api, images |-> 1, packages |-> TRUE, target |-> target, name |-> name, share |-> share]

Two == [Ask("v1", "gcp", n1, <<>>) EXCEPT !.images = 2]

Pair(first, second) == r1 :> first @@ r2 :> second

\* Two requests that get in each other's way, or one of each other target.
FaultAsks ==
    {Pair(Ask("v2", "aws", n1, <<a2, a1>>), Ask("v1", "aws", n1, <<a2>>)),
     Pair(Ask("v2", "gcp", n1, <<a1, a2>>), Ask("v1", "gcp", n1, <<>>)),
     Pair(Ask("v1", "azure.image", n1, <<>>), Ask("v1", "azure.image", n1, <<>>)),
     Pair(Ask("v2", "azure.image", n2, <<>>), Ask("v1", "azure.image", n1, <<>>))}
    \cup {Pair(first, Two) : first \in {Ask("v2", "aws.s3", n1, <<>>), Ask("v2", "none", n1, <<>>), Ask("weldr", "azure", n1, <<>>),
                                       Ask("weldr", "vmware", n1, <<>>), Ask("weldr", "none", n1, <<>>)}}

=============================================================================
