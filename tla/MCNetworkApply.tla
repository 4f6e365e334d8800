--------------------------- MODULE MCNetworkApply ---------------------------
(* Small sets of profiles for the model checker.                            *)
EXTENDS NetworkApply, TLC

CONSTANTS n1, n2, r1, r2, nic1, o1, o2

(* The apply requests are interchangeable, and so are two revisions together   *)
(* with their operations where they have the same nodes and interface.        *)
Symmetry ==
  Permutations(ApplyReq) \cup {o1 :> o2 @@ o2 :> o1 @@ r1 :> r2 @@ r2 :> r1}

OneRevision == (r1 :> <<n1, n2>>)
TwoOnOneNode == (r1 :> <<n1>> @@ r2 :> <<n1>>)
OneNic == (r1 :> nic1)
SameNic == (r1 :> nic1 @@ r2 :> nic1)
OneOp == (o1 :> r1)
OtherRevision == (o1 :> r1 @@ o2 :> r2)
=============================================================================
