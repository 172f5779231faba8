---------------------------- MODULE MCGovernance ----------------------------
(***************************************************************************)
(* Instances of Governance.  Calls and subjects are interchangeable;       *)
(* memberships are not, since their rows are locked in order.              *)
(***************************************************************************)
EXTENDS Governance, TLC

Symmetry == Permutations(Calls) \cup Permutations(Subjects)
=============================================================================
