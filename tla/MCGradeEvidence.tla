--------------------------- MODULE MCGradeEvidence ---------------------------
(***************************************************************************)
(* Instances of GradeEvidence.  Events, runs and reviewers are             *)
(* interchangeable: the initial calls are all calls, and nothing orders    *)
(* them.                                                                   *)
(***************************************************************************)
EXTENDS GradeEvidence, TLC

Symmetry == Permutations(Events) \cup Permutations(Runs) \cup Permutations(Reviewers)
=============================================================================
