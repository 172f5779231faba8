---------------------------- MODULE GradeLedger ----------------------------
(***************************************************************************)
(* What official grading promises of a term: one grade per enrollment,     *)
(* revised in a contiguous, append-only history, every write stamped with  *)
(* the state the term is in at that very moment.  Closing, recording and   *)
(* revising are single steps here; TermGrading implements them with locks, *)
(* re-reads and separate transactions.                                     *)
(***************************************************************************)
EXTENDS Integers, Sequences

CONSTANTS Requests, Enrollments, NoGrade

VARIABLES termClosed, grade, history

ledger == <<termClosed, grade, history>>

Init ==
    /\ termClosed = FALSE
    /\ grade = [e \in Enrollments |-> NoGrade]
    /\ history = [e \in Enrollments |-> <<>>]

\* Closure is one way and disturbs no grade.
Close ==
    /\ termClosed' = TRUE
    /\ UNCHANGED <<grade, history>>

\* The sole initial grade; a closed term demands and keeps an explanation.
Record(e, r) ==
    /\ grade[e] = NoGrade
    /\ grade' = [grade EXCEPT ![e] =
          [score |-> r, revision |-> 0, recordedBy |-> r,
           recordedAfterClosure |-> termClosed,
           recordingExplained |-> termClosed]]
    /\ UNCHANGED <<termClosed, history>>

\* A revision continues the grade as it is now.
Revise(e, r) ==
    /\ grade[e] # NoGrade
    /\ grade' = [grade EXCEPT ![e] =
          [grade[e] EXCEPT !.score = r, !.revision = grade[e].revision + 1]]
    /\ history' = [history EXCEPT ![e] = Append(@,
          [number |-> grade[e].revision + 1, previous |-> grade[e].score,
           replacement |-> r, afterClosure |-> termClosed])]
    /\ UNCHANGED termClosed

Next ==
    \/ Close
    \/ \E e \in Enrollments, r \in Requests : Record(e, r) \/ Revise(e, r)

Spec == Init /\ [][Next]_ledger
=============================================================================
