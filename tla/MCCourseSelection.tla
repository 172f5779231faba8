------------------------- MODULE MCCourseSelection -------------------------
(***************************************************************************)
(* Instances of CourseSelection.                                           *)
(***************************************************************************)
EXTENDS CourseSelection, TLC

CONSTANTS s1, s2, p1, p2, o1, o2, r1, r2, r3, d1, d2, d3

\* Two students of two programs share a course with one seat.  One of them has two
\* requests; the policy and the curriculum of her program change.
TwoPrograms == (s1 :> p1) @@ (s2 :> p2)
TwoSeats == (o1 :> 1) @@ (o2 :> 1)
Plain == [credits |-> (o1 :> 1) @@ (o2 :> 1), requires |-> (o1 :> {}) @@ (o2 :> {o1})]
Revised == [credits |-> (o1 :> 1) @@ (o2 :> 2), requires |-> (o1 :> {}) @@ (o2 :> {})]
TwoCurricula == (p1 :> {Plain, Revised}) @@ (p2 :> {Plain})
Reviewed == [limit |-> 1, approval |-> TRUE]
Automatic == [limit |-> 2, approval |-> FALSE]
TwoPolicies == (p1 :> {Reviewed, Automatic}) @@ (p2 :> {Automatic})
ThreeRequests == (r1 :> s1) @@ (r2 :> s2) @@ (r3 :> s1)
ThreeSelections == (r1 :> {o1}) @@ (r2 :> {o1}) @@ (r3 :> {o2})
ThreeDecisions == (d1 :> r1) @@ (d2 :> r3) @@ (d3 :> r1)
=============================================================================
