--------------------------- MODULE GradeEvidence ---------------------------
(***************************************************************************)
(* External grade evidence: Moodle results enter Integrations as pending   *)
(* evidence, and a person turns a piece of it into an official grade or    *)
(* rejects it (ADR-0010).                                                  *)
(*                                                                         *)
(* Two modules share no transaction.  Integrations stores an event, asks   *)
(* the grading policy and stores its answer in two transactions; Grading   *)
(* reads pending evidence, writes the grade and reports the acceptance in  *)
(* three.  Reconciliation runs and signed deliveries feed the same intake. *)
(* The grade writes themselves are the steps of GradeLedger, which the     *)
(* locking protocol of TermGrading implements.                             *)
(***************************************************************************)
EXTENDS Integers, Sequences, FiniteSets

CONSTANTS
    Events,        \* the external event keys: one observed result each
    Senders,       \* signed deliveries, each of one event
    Runs,          \* operator-initiated reconciliation runs of the term
    Reviewers,     \* the calls that accept or reject one piece of evidence
    Graders,       \* ordinary grade writes beside the evidence
    Enrollments,   \* the course enrollments of the term
    Nothing,       \* no event, no grade link
    NoGrade        \* marks an enrollment without a final grade

ASSUME EventsAssumption == IsFiniteSet(Events)
ASSUME CallersAssumption == Senders \cap Runs = {} /\ Reviewers \cap Graders = {}
ASSUME NothingAssumption == Nothing \notin Events \cup Reviewers

\* A grade names the calls that recorded it and gave it its score.
Authors == Reviewers \cup Graders
Grades == [score : Authors, revision : Nat, recordedBy : Authors,
           recordedAfterClosure : BOOLEAN, recordingExplained : BOOLEAN]
ASSUME NoGradeAssumption == NoGrade \notin Grades

VARIABLES
    termClosed, grade, history,  \* what Academics and Grading store
    status,     \* moodle_grade_evidence.status of each event
    link,       \* accepted_final_grade_id with resolved_by: the call it names
    intake,     \* the event an intake has stored and not yet dispositioned
    run,        \* each reconciliation run: its record and what is left of it
    pc, call, seen   \* each reviewer's progress, arguments and loaded grade

ledger == <<termClosed, grade, history>>
evidence == <<status, link>>
review == <<pc, call, seen>>
vars == <<ledger, evidence, intake, run, review>>

Resolved == {"accepted", "rejected"}
Statuses == {"absent", "pending"} \cup Resolved

\* MoodleGradeReconciliationRun, with the observations it has yet to make.
RunRecords == [status : {"planned", "running", "succeeded", "failed"},
               left : SUBSET Events, new : 0..Cardinality(Events),
               duplicate : 0..Cardinality(Events),
               unmapped : 0..Cardinality(Events)]

\* A decision on one piece of evidence, the enrollment its person and offering
\* resolve to, and whether its actor explains it and may amend: the revise
\* permission for an existing grade, the closed-term permission after closure.
Calls == [kind : {"accept", "reject"}, event : Events,
          target : Enrollments, amend : BOOLEAN]

Steps == {"load", "write", "link", "reject"}
Ended == {"succeeded", "failed"}

TypeOK ==
    /\ status \in [Events -> Statuses]
    /\ link \in [Events -> Reviewers \cup {Nothing}]
    /\ intake \in [Senders \cup Runs -> Events \cup {Nothing}]
    /\ run \in [Runs -> RunRecords]
    /\ pc \in [Reviewers \cup Graders -> {"idle"} \cup Steps \cup Ended]
    /\ call \in [Reviewers -> Calls]

Init ==
    /\ termClosed = FALSE
    /\ grade = [e \in Enrollments |-> NoGrade]
    /\ history = [e \in Enrollments |-> <<>>]
    /\ status = [v \in Events |-> "absent"]
    /\ link = [v \in Events |-> Nothing]
    /\ intake = [a \in Senders \cup Runs |-> Nothing]
    /\ run = [u \in Runs |-> [status |-> "planned", left |-> Events,
                              new |-> 0, duplicate |-> 0, unmapped |-> 0]]
    /\ pc = [r \in Reviewers \cup Graders |-> "idle"]
    /\ call \in [Reviewers -> Calls]
    /\ seen = [r \in Reviewers |-> NoGrade]

----------------------------------------------------------------------------
(***************************************************************************)
(* Intake.                                                                 *)
(***************************************************************************)

\* accept_grade_event_once: the tenant and event key admit one row, which is
\* pending from the start; a duplicate changes nothing and is not dispositioned.
AcceptEventOnce(a, v) ==
    IF status[v] = "absent"
    THEN /\ status' = [status EXCEPT ![v] = "pending"]
         /\ intake' = [intake EXCEPT ![a] = v]
    ELSE UNCHANGED <<status, intake>>

\* A signed delivery, or the redelivery of one: the sender may repeat it.
Deliver(a, v) ==
    /\ intake[a] = Nothing
    /\ AcceptEventOnce(a, v)
    /\ UNCHANGED <<ledger, link, run, review>>

\* _intake_outcome: review required leaves the evidence pending.
IntakeOutcome(disposition) ==
    CASE disposition = "accepted" -> "accepted"
      [] disposition = "rejected" -> "rejected"
      [] OTHER -> "pending"

\* mark_grade_event_outcome: the answer of ReviewRequiredGradeEvidenceReceiver
\* is stored whatever the row says by then.
MarkOutcome(a) ==
    /\ intake[a] # Nothing
    /\ status' = [status EXCEPT ![intake[a]] = IntakeOutcome("review_required")]
    /\ intake' = [intake EXCEPT ![a] = Nothing]
    /\ UNCHANGED <<ledger, link, run, review>>

\* The delivery dies between the two: the event stays as it was stored.
DropDelivery(a) ==
    /\ intake[a] # Nothing
    /\ intake' = [intake EXCEPT ![a] = Nothing]
    /\ UNCHANGED <<ledger, evidence, run, review>>

----------------------------------------------------------------------------
(***************************************************************************)
(* Reconciliation of the term.                                             *)
(***************************************************************************)

CreateRun(u) ==
    /\ run[u].status = "planned"
    /\ run' = [run EXCEPT ![u].status = "running"]
    /\ UNCHANGED <<ledger, evidence, intake, review>>

\* One observed course total of a mapped learner goes through the intake; the
\* receipt says whether the evidence is new.
Observe(u, v) ==
    /\ run[u].status = "running" /\ intake[u] = Nothing
    /\ v \in run[u].left
    /\ AcceptEventOnce(u, v)
    /\ run' = [run EXCEPT ![u].left = @ \ {v},
                          ![u].new = @ + IF status[v] = "absent" THEN 1 ELSE 0,
                          ![u].duplicate = @ + IF status[v] = "absent" THEN 0 ELSE 1]
    /\ UNCHANGED <<ledger, link, review>>

\* The learner is not mapped: counted, not guessed.
SkipUnmapped(u, v) ==
    /\ run[u].status = "running" /\ intake[u] = Nothing
    /\ v \in run[u].left
    /\ run' = [run EXCEPT ![u].left = @ \ {v}, ![u].unmapped = @ + 1]
    /\ UNCHANGED <<ledger, evidence, intake, review>>

\* Slip: a failure in the middle completes the run.
CompleteRunEarly(u) ==
    /\ run[u].status = "running" /\ intake[u] = Nothing
    /\ run' = [run EXCEPT ![u].status = "succeeded"]
    /\ UNCHANGED <<ledger, evidence, intake, review>>

CompleteRun(u) ==
    /\ run[u].status = "running" /\ intake[u] = Nothing
    /\ run[u].left = {}
    /\ run' = [run EXCEPT ![u].status = "succeeded"]
    /\ UNCHANGED <<ledger, evidence, intake, review>>

\* The gateway, the directory or the intake raises: the run is stored as failed
\* with the counts it was created with.  If the process dies it stays running.
FailRun(u) ==
    /\ run[u].status = "running"
    /\ run' = [run EXCEPT ![u] = [@ EXCEPT !.status = "failed", !.new = 0,
                                           !.duplicate = 0, !.unmapped = 0]]
    /\ intake' = [intake EXCEPT ![u] = Nothing]
    /\ UNCHANGED <<ledger, evidence, review>>

----------------------------------------------------------------------------
(***************************************************************************)
(* Review.                                                                 *)
(***************************************************************************)

Goto(r, step) == pc' = [pc EXCEPT ![r] = step]

\* The call reads its evidence, only while it is pending, resolves the
\* participation and records its intent.
GetPendingEvidence(r) ==
    /\ pc[r] = "idle"
    /\ status[call[r].event] = "pending"
    /\ Goto(r, IF call[r].kind = "accept" THEN "load" ELSE "reject")
    /\ UNCHANGED <<ledger, evidence, intake, run, call, seen>>

\* The current grade decides between recording and revising; revising needs
\* its permission and an explanation.
LoadCurrent(r) ==
    /\ pc[r] = "load"
    /\ seen' = [seen EXCEPT ![r] = grade[call[r].target]]
    /\ Goto(r, IF grade[call[r].target] # NoGrade /\ ~call[r].amend
               THEN "failed" ELSE "write")
    /\ UNCHANGED <<ledger, evidence, intake, run, call>>

Ledger == INSTANCE GradeLedger WITH
    Requests <- Authors,
    termClosed <- termClosed, grade <- grade, history <- history

\* Slip: the revision continues the grade that was loaded.
ReviseLoaded(r, e) ==
    /\ seen[r] # NoGrade
    /\ grade' = [grade EXCEPT ![e] =
          [seen[r] EXCEPT !.score = r, !.revision = seen[r].revision + 1]]
    /\ history' = [history EXCEPT ![e] = Append(@,
          [number |-> seen[r].revision + 1, previous |-> seen[r].score,
           replacement |-> r, afterClosure |-> termClosed])]
    /\ UNCHANGED termClosed

\* A revision compares the revision number it loaded and continues that grade.
ReviseExpected(r, e) ==
    /\ seen[r] # NoGrade
    /\ grade[e].revision = seen[r].revision
    /\ Ledger!Revise(e, r)

\* The grade is written under the ordinary rules: a closed term takes the
\* permission and the explanation, an initial grade is unique.
WriteGrade(r) ==
    /\ pc[r] = "write"
    /\ termClosed => call[r].amend
    /\ LET e == call[r].target IN
          \/ seen[r] = NoGrade /\ Ledger!Record(e, r)
          \/ ReviseExpected(r, e)
    /\ Goto(r, "link")
    /\ UNCHANGED <<evidence, intake, run, call, seen>>

\* Slip: evidence is resolved whatever happened to it since it was read.
IsPendingOrNot(v) == status[v] # "absent"

\* resolve_grade_evidence, under its row lock: pending evidence only.
IsPending(v) == status[v] = "pending"

\* Slip: the acceptance is recorded before the grade is written.
RecordAcceptanceEarly(r) ==
    /\ pc[r] \in {"write", "link"}
    /\ IsPending(call[r].event)
    /\ status' = [status EXCEPT ![call[r].event] = "accepted"]
    /\ link' = [link EXCEPT ![call[r].event] = r]
    /\ Goto(r, "succeeded")
    /\ UNCHANGED <<ledger, intake, run, call, seen>>

RecordAcceptance(r) ==
    /\ pc[r] = "link"
    /\ IsPending(call[r].event)
    /\ status' = [status EXCEPT ![call[r].event] = "accepted"]
    /\ link' = [link EXCEPT ![call[r].event] = r]
    /\ Goto(r, "succeeded")
    /\ UNCHANGED <<ledger, intake, run, call, seen>>

RecordRejection(r) ==
    /\ pc[r] = "reject"
    /\ IsPending(call[r].event)
    /\ status' = [status EXCEPT ![call[r].event] = "rejected"]
    /\ link' = [link EXCEPT ![call[r].event] = Nothing]
    /\ Goto(r, "succeeded")
    /\ UNCHANGED <<ledger, intake, run, call, seen>>

\* A refusal -- the grade changed, the evidence was resolved, a permission is
\* missing -- or the end of the process: what earlier steps committed stays.
EndReview(r) ==
    /\ pc[r] \in Steps
    /\ Goto(r, "failed")
    /\ UNCHANGED <<ledger, evidence, intake, run, call, seen>>

\* Grades are also recorded and revised without evidence, and the term closes.
GradeDirectly(g) ==
    /\ pc[g] = "idle"
    /\ \E e \in Enrollments : Ledger!Record(e, g) \/ Ledger!Revise(e, g)
    /\ Goto(g, "succeeded")
    /\ UNCHANGED <<evidence, intake, run, call, seen>>

CloseTerm ==
    /\ ~termClosed
    /\ Ledger!Close
    /\ UNCHANGED <<evidence, intake, run, review>>

Next ==
    \/ \E a \in Senders : \E v \in Events : Deliver(a, v)
    \/ \E a \in Senders \cup Runs : MarkOutcome(a)
    \/ \E a \in Senders : DropDelivery(a)
    \/ \E u \in Runs : CreateRun(u) \/ CompleteRun(u) \/ FailRun(u)
    \/ \E u \in Runs, v \in Events : Observe(u, v) \/ SkipUnmapped(u, v)
    \/ \E r \in Reviewers :
          \/ GetPendingEvidence(r) \/ LoadCurrent(r) \/ WriteGrade(r)
          \/ RecordAcceptance(r) \/ RecordRejection(r) \/ EndReview(r)
    \/ \E g \in Graders : GradeDirectly(g)
    \/ CloseTerm

Spec == Init /\ [][Next]_vars
----------------------------------------------------------------------------
(***************************************************************************)
(* Properties.                                                             *)
(***************************************************************************)

\* Once the delivery of an event has been dispositioned its resolution is final:
\* of any reviewers one decides it, and no redelivery, rerun or later answer
\* reopens it.
ResolutionIsFinal ==
    [][\A v \in Events :
          status[v] \in Resolved /\ (\A a \in Senders \cup Runs : intake[a] # v)
          => status'[v] = status[v] /\ link'[v] = link[v]]_<<status, link, intake>>

\* The grades call r wrote to enrollment e.
Wrote(r, e) ==
    \/ grade[e] # NoGrade /\ grade[e].recordedBy = r
    \/ \E n \in 1..Len(history[e]) : history[e][n].replacement = r

\* Accepted evidence keeps its lineage: it names a call whose grade was really
\* committed for the participation the call resolved, and rejected evidence
\* names none.  (Of well-typed states.)
LineageIsTrue ==
    /\ TypeOK
    /\ \A v \in Events :
          /\ status[v] = "accepted" =>
                link[v] # Nothing /\ call[link[v]].event = v
          /\ status[v] = "rejected" => link[v] = Nothing
          /\ link[v] # Nothing => Wrote(link[v], call[link[v]].target)

\* docs/14_OPERATIONS.md: after a crash between grade and resolution "a second
\* acceptance then produces an audited revision, never a duplicate grade".  A grade
\* accepted from evidence replaces the very grade its reviewer has read, or none if
\* there was none, whoever wrote meanwhile and whose acceptance stopped half-way.
ReviewersReplaceWhatTheyRead ==
    [][\A e \in Enrollments, r \in Reviewers :
          grade'[e] # grade[e] /\ grade'[e].score = r => grade[e] = seen[r]]_ledger

\* A run that reports success made every observation, each stored as evidence or
\* counted as unmapped, whoever else stored the same events meanwhile; and what a
\* run counts as new is stored.
RunsTellTheTruth == \A u \in Runs :
    LET stored == {v \in Events : status[v] # "absent"} IN
    /\ run[u].new <= Cardinality(stored)
    /\ run[u].status = "succeeded" =>
          /\ run[u].new + run[u].duplicate + run[u].unmapped = Cardinality(Events)
          /\ Cardinality(Events \ stored) <= run[u].unmapped

=============================================================================
