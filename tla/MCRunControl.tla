--------------------------- MODULE MCRunControl ---------------------------
(* Instances of RunControl small enough for TLC.                           *)
EXTENDS RunControl, TLC

(* Runs are interchangeable, and so are the Agents.                        *)
Symmetry == Permutations(StartReq) \cup Permutations(Agent)
=============================================================================
