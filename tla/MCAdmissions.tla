----------------------------- MODULE MCAdmissions -----------------------------
(***************************************************************************)
(* Instances of Admissions.  Calls and applications are interchangeable:   *)
(* no property and no CHOOSE tells two of them apart.                      *)
(*                                                                         *)
(* Applications meet in the seats of the quota only.  So AdmissionsSpec    *)
(* looks at the life of one of them, from its draft on, with any two calls *)
(* at a time; and at the contention of all for the seats of a quota that   *)
(* is configured again and again: acceptances and conversions, from a      *)
(* state in which every application has passed its review.                 *)
(***************************************************************************)
EXTENDS Admissions, TLC

VARIABLE
    part

Symmetry == Permutations(Requests) \cup Permutations(Applications)

\* As Init, each application having passed its review at a time of its own.
Reviewed ==
    /\ status = [a \in Applications |-> "under_review"]
    /\ \E at \in [Applications -> 1..MaxReviews] :
          /\ \A a, b \in Applications : at[a] = at[b] => a = b
          /\ reviews = [a \in Applications |->
                [stage : Stages, outcome : {"passed"}, at : {at[a]}]]
    /\ clock = MaxReviews
    /\ decisions = [a \in Applications |-> <<>>]
    /\ seat = [a \in Applications |-> "none"]
    /\ conversion = [a \in Applications |-> NoConversion]
    /\ capacity \in 1..MaxCapacity
    /\ expired = {} /\ students = {} /\ enrollments = {} /\ audit = {}
    /\ intakeClosed = FALSE
    /\ op = [r \in Requests |-> Idle]

AdmissionsInit ==
    \/ part = "life" /\ Init /\ capacity = 1
    \/ part = "seats" /\ Reviewed

\* The applications that something has happened to.
Touched == {a \in Applications : status[a] # "draft" \/ \E r \in Requests : op[r].app = a}

AdmissionsNext ==
    /\ Next
    /\ part = "life" => Cardinality(Touched') <= 1 /\ capacity' = capacity
    /\ part = "seats" => \A r \in Requests : op'[r].outcome \in {Nothing, "accepted"}
    /\ UNCHANGED part

AdmissionsSpec == AdmissionsInit /\ [][AdmissionsNext]_<<vars, part>>
=============================================================================
