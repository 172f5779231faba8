--------------------------- MODULE MCTermGrading ---------------------------
(***************************************************************************)
(* Small instances of TermGrading for TLC.                                 *)
(***************************************************************************)
EXTENDS TermGrading, TLC

\* Calls with the same kind of connection are interchangeable, and so are
\* enrollments; only safety runs may say so.
Symmetry == Permutations(Requests \ Unreliable) \cup Permutations(Enrollments)
=============================================================================
