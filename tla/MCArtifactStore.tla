-------------------------- MODULE MCArtifactStore --------------------------
(* Interchangeable uploads, scenarios and runs for the model checker.         *)
EXTENDS ArtifactStore, TLC

Symmetry == Permutations(Upload) \cup Permutations(Scenario) \cup Permutations(Run)
=============================================================================
