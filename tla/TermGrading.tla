---------------------------- MODULE TermGrading ----------------------------
(***************************************************************************)
(* Official grade writes against the one-way closure of their term.        *)
(*                                                                         *)
(* Two modules of the backend share a term without sharing a transaction:  *)
(* Academics closes it, Grading records and revises final grades in it.    *)
(* They meet in a PostgreSQL advisory lock (ADR-0009).  A grade request    *)
(* holds the lock in shared mode on a connection of its own while it reads *)
(* the closure flag, appends audit evidence and commits the grade, each in *)
(* a transaction of its own; closure takes it exclusively inside the       *)
(* transaction that closes the term.  Both only try, and give up.          *)
(*                                                                         *)
(* One tenant and one term are modelled: the lock key is derived from the  *)
(* pair, so other terms never meet this one.  A request is one HTTP call,  *)
(* and one step of it is one database transaction.  The raw score a request*)
(* submits is represented by the request itself.                           *)
(***************************************************************************)
EXTENDS Integers, Sequences

CONSTANTS
    Requests,      \* the calls made to the two services
    Unreliable,    \* the calls whose guard connection may drop under them
    Enrollments,   \* the course enrollments of the term
    Expectations,  \* revision numbers a client may name when it revises
    Nobody,        \* marks the exclusive lock as free
    NoGrade,       \* marks an enrollment without a final grade
    Unspecified    \* a revision call that names no expected revision

ASSUME UnreliableAssumption == Unreliable \subseteq Requests
ASSUME NobodyAssumption == Nobody \notin Requests
ASSUME ExpectationsAssumption ==
    Expectations \subseteq Nat /\ Unspecified \notin Nat

\* A call as its route hands it to the service: whether it carries a non-blank
\* explanation, and whether its actor holds grading.closed_term.revise.  A
\* revision without an explanation is refused before it reads anything.
RecordCalls == [kind : {"record"}, target : Enrollments, explained : BOOLEAN,
                amend : BOOLEAN, expected : {Unspecified}]
ReviseCalls == [kind : {"revise"}, target : Enrollments, explained : {TRUE},
                amend : BOOLEAN, expected : Expectations \cup {Unspecified}]
CloseCalls == [kind : {"close"}, target : Enrollments, explained : {TRUE},
               amend : {FALSE}, expected : {Unspecified}]
Calls == RecordCalls \cup ReviseCalls \cup CloseCalls

\* The final grade row: the current score with its revision number, and the
\* evidence of the initial recording.
Grades == [score : Requests, revision : Nat, recordedBy : Requests,
           recordedAfterClosure : BOOLEAN, recordingExplained : BOOLEAN]

ASSUME NoGradeAssumption == NoGrade \notin Grades

\* One append-only revision row.
Revisions == [number : Nat, previous : Requests, replacement : Requests,
              afterClosure : BOOLEAN]

\* One final-grade or term-closure audit event.
AuditEvents == [by : Requests, outcome : {"intent", "succeeded"},
                afterClosure : BOOLEAN]

\* Where a call is: the step it takes next.
GuardedSteps == {"check", "intent", "write", "confirm", "leave"}
GradeSteps == {"load", "enter"} \cup GuardedSteps
CloseSteps == {"term", "closeIntent", "closeLock", "closeCommit"}
Steps == GradeSteps \cup CloseSteps
Ended == {"done", "failed"}

VARIABLES
    termClosed,     \* Academics: the term's one-way flag
    gradable,       \* Academics: the enrollments a grade may target
    shared,         \* advisory lock: holders in shared mode
    exclusive,      \* advisory lock: the exclusive holder or Nobody
    grade,          \* Grading: the final grade of each enrollment
    history,        \* Grading: the revisions of each final grade
    audit,          \* Audit: the events appended so far
    pc, call,       \* each request's progress and arguments
    seen,           \* the grade a revision loaded before entering the guard
    after           \* the closure flag a request read under its guard

locks == <<shared, exclusive>>
academics == <<termClosed, gradable>>
grading == <<grade, history>>
local == <<pc, call, seen, after>>
vars == <<academics, locks, grading, audit, local>>

TypeOK ==
    /\ termClosed \in BOOLEAN
    /\ gradable \in SUBSET Enrollments
    /\ shared \in SUBSET Requests
    /\ exclusive \in Requests \cup {Nobody}
    /\ grade \in [Enrollments -> Grades \cup {NoGrade}]
    /\ history \in [Enrollments -> Seq(Revisions)]
    /\ audit \in SUBSET AuditEvents
    /\ pc \in [Requests -> {"idle"} \cup Steps \cup Ended]
    /\ call \in [Requests -> Calls]
    /\ seen \in [Requests -> Grades \cup {NoGrade}]
    /\ after \in [Requests -> BOOLEAN]

Init ==
    /\ termClosed = FALSE
    /\ gradable = Enrollments
    /\ shared = {}
    /\ exclusive = Nobody
    /\ grade = [e \in Enrollments |-> NoGrade]
    /\ history = [e \in Enrollments |-> <<>>]
    /\ audit = {}
    /\ pc = [r \in Requests |-> "idle"]
    /\ call \in [Requests -> Calls]
    /\ seen = [r \in Requests |-> NoGrade]
    /\ after = [r \in Requests |-> FALSE]

----------------------------------------------------------------------------
(***************************************************************************)
(* Steps every request takes.                                              *)
(***************************************************************************)

Goto(r, step) == pc' = [pc EXCEPT ![r] = step]

\* Both locks are owned by a transaction: ending it, however it ends, frees
\* whatever this request holds.
FreeLocks(r) ==
    /\ shared' = shared \ {r}
    /\ exclusive' = IF exclusive = r THEN Nobody ELSE exclusive

\* A refusal: the exception leaves the guard's context and ends the call.
Refuse(r) == Goto(r, "failed") /\ FreeLocks(r)

Log(r, outcome, closed) ==
    audit' = audit \cup {[by |-> r, outcome |-> outcome, afterClosure |-> closed]}

\* The call arrives and passes its permission check.
Start(r) ==
    /\ pc[r] = "idle"
    /\ Goto(r, IF call[r].kind = "close" THEN "term" ELSE "load")
    /\ UNCHANGED <<academics, locks, grading, audit, call, seen, after>>

\* An error, a cancellation or the death of the process ends the call between
\* two of its transactions, or rolls back the one it is in.
Abort(r) ==
    /\ pc[r] \in Steps
    /\ Refuse(r)
    /\ UNCHANGED <<academics, grading, audit, call, seen, after>>

----------------------------------------------------------------------------
(***************************************************************************)
(* Recording and revising a final grade.                                   *)
(***************************************************************************)

\* record_final_grade: resolve the target, which exists only for a
\* participation that is neither withdrawn nor in a withdrawn enrollment.
ResolveTarget(r) ==
    /\ pc[r] = "load" /\ call[r].kind = "record"
    /\ IF call[r].target \in gradable
       THEN Goto(r, "enter") /\ UNCHANGED locks
       ELSE Refuse(r)
    /\ UNCHANGED <<academics, grading, audit, call, seen, after>>

\* Slip: the client's expectation is dropped.
LoadGradeUnconditionally(r) ==
    /\ pc[r] = "load" /\ call[r].kind = "revise"
    /\ IF grade[call[r].target] # NoGrade
       THEN /\ Goto(r, "enter")
            /\ seen' = [seen EXCEPT ![r] = grade[call[r].target]]
            /\ UNCHANGED locks
       ELSE Refuse(r) /\ UNCHANGED seen
    /\ UNCHANGED <<academics, grading, audit, call, after>>

\* revise_final_grade: load the current grade and compare its revision with
\* the one the client names.
LoadGrade(r) ==
    LET current == grade[call[r].target]
        wanted == call[r].expected
    IN  /\ pc[r] = "load" /\ call[r].kind = "revise"
        /\ IF current # NoGrade /\ wanted \in {Unspecified, current.revision}
           THEN /\ Goto(r, "enter")
                /\ seen' = [seen EXCEPT ![r] = current]
                /\ UNCHANGED locks
           ELSE Refuse(r) /\ UNCHANGED seen
        /\ UNCHANGED <<academics, grading, audit, call, after>>

\* Slip: grade writes contend for nothing but one another.
EnterGuardBlindly(r) ==
    /\ pc[r] = "enter"
    /\ shared' = shared \cup {r}
    /\ Goto(r, "check")
    /\ UNCHANGED <<academics, exclusive, grading, audit, call, seen, after>>

\* hold_grade_write: try the shared lock on the dedicated connection.
EnterGuard(r) ==
    /\ pc[r] = "enter"
    /\ IF exclusive = Nobody
       THEN /\ shared' = shared \cup {r}
            /\ Goto(r, "check")
            /\ UNCHANGED exclusive
       ELSE Refuse(r)
    /\ UNCHANGED <<academics, grading, audit, call, seen, after>>

\* What a closed term asks of a grade write.
MayAmendClosedTerm(r) == call[r].amend /\ call[r].explained

\* Slip: amending a closed term asks for an explanation only.
CheckExplanation(r) ==
    /\ pc[r] = "check"
    /\ after' = [after EXCEPT ![r] = termClosed]
    /\ IF termClosed => call[r].explained
       THEN Goto(r, "intent") /\ UNCHANGED locks
       ELSE Refuse(r)
    /\ UNCHANGED <<academics, grading, audit, call, seen>>

\* The closure flag is read again under the guard, and decides which rules
\* apply to this write.
CheckClosure(r) ==
    /\ pc[r] = "check"
    /\ after' = [after EXCEPT ![r] = termClosed]
    /\ IF termClosed => MayAmendClosedTerm(r)
       THEN Goto(r, "intent") /\ UNCHANGED locks
       ELSE Refuse(r)
    /\ UNCHANGED <<academics, grading, audit, call, seen>>

\* Slip: the intent claims an ordinary write.
RecordOrdinaryIntent(r) ==
    /\ pc[r] = "intent"
    /\ Log(r, "intent", FALSE)
    /\ Goto(r, "write")
    /\ UNCHANGED <<academics, locks, grading, call, seen, after>>

\* The intent is audited, in a transaction of the audit sink, before the write.
RecordIntent(r) ==
    /\ pc[r] = "intent"
    /\ Log(r, "intent", after[r])
    /\ Goto(r, "write")
    /\ UNCHANGED <<academics, locks, grading, call, seen, after>>

\* create_final_grade: the unique key admits one grade per enrollment.
CreateFinalGrade(r) ==
    LET e == call[r].target IN
    /\ pc[r] = "write" /\ call[r].kind = "record"
    /\ IF grade[e] = NoGrade
       THEN /\ grade' = [grade EXCEPT ![e] =
                  [score |-> r, revision |-> 0, recordedBy |-> r,
                   recordedAfterClosure |-> after[r],
                   recordingExplained |-> after[r] /\ call[r].explained]]
            /\ Goto(r, "confirm")
            /\ UNCHANGED locks
       ELSE Refuse(r) /\ UNCHANGED grade
    /\ UNCHANGED <<academics, history, audit, call, seen, after>>

SameRecording(g, h) ==
    /\ g.recordedBy = h.recordedBy
    /\ g.recordedAfterClosure = h.recordedAfterClosure
    /\ g.recordingExplained = h.recordingExplained

\* Slip: the loaded grade is written back without comparing revisions.
ReviseWithoutComparing(r) ==
    LET e == call[r].target
        new == [seen[r] EXCEPT !.score = r, !.revision = seen[r].revision + 1]
    IN  /\ pc[r] = "write" /\ call[r].kind = "revise"
        /\ grade' = [grade EXCEPT ![e] = new]
        /\ history' = [history EXCEPT ![e] = Append(@,
              [number |-> new.revision, previous |-> seen[r].score,
               replacement |-> r, afterClosure |-> after[r]])]
        /\ Goto(r, "confirm")
        /\ UNCHANGED <<academics, locks, audit, call, seen, after>>

\* revise_final_grade of the repository: under the row lock, the grade must
\* still be the one that was loaded; the revision row and the grade commit
\* together.
ReviseFinalGrade(r) ==
    LET e == call[r].target
        old == seen[r]
        new == [old EXCEPT !.score = r, !.revision = old.revision + 1]
    IN  /\ pc[r] = "write" /\ call[r].kind = "revise"
        /\ IF /\ grade[e] # NoGrade
              /\ grade[e].revision = old.revision
              /\ SameRecording(grade[e], new)
           THEN /\ grade' = [grade EXCEPT ![e] = new]
                /\ history' = [history EXCEPT ![e] = Append(@,
                      [number |-> new.revision, previous |-> old.score,
                       replacement |-> r, afterClosure |-> after[r]])]
                /\ Goto(r, "confirm")
                /\ UNCHANGED locks
           ELSE Refuse(r) /\ UNCHANGED grading
        /\ UNCHANGED <<academics, audit, call, seen, after>>

RecordSuccess(r) ==
    /\ pc[r] = "confirm"
    /\ Log(r, "succeeded", after[r])
    /\ Goto(r, "leave")
    /\ UNCHANGED <<academics, locks, grading, call, seen, after>>

\* The guard's transaction commits; on a dropped connection that raises.
LeaveGuard(r) ==
    /\ pc[r] = "leave"
    /\ Goto(r, IF r \in shared THEN "done" ELSE "failed")
    /\ FreeLocks(r)
    /\ UNCHANGED <<academics, grading, audit, call, seen, after>>

\* The guard's connection drops.  The server frees the lock; the request uses
\* other connections until it leaves the guard, and does not notice.
LoseGuard(r) ==
    /\ r \in Unreliable \cap shared
    /\ shared' = shared \ {r}
    /\ UNCHANGED <<academics, exclusive, grading, audit, local>>

GradeStep(r) ==
    \/ ResolveTarget(r) \/ LoadGrade(r) \/ EnterGuard(r) \/ CheckClosure(r)
    \/ RecordIntent(r) \/ CreateFinalGrade(r) \/ ReviseFinalGrade(r)
    \/ RecordSuccess(r) \/ LeaveGuard(r)

----------------------------------------------------------------------------
(***************************************************************************)
(* Closing the term, and the withdrawal of a participation.                *)
(***************************************************************************)

\* close_term of the service: a closed term is returned as it is.
GetTerm(r) ==
    /\ pc[r] = "term"
    /\ Goto(r, IF termClosed THEN "done" ELSE "closeIntent")
    /\ UNCHANGED <<academics, locks, grading, audit, call, seen, after>>

RecordCloseIntent(r) ==
    /\ pc[r] = "closeIntent"
    /\ Log(r, "intent", FALSE)
    /\ Goto(r, "closeLock")
    /\ UNCHANGED <<academics, locks, grading, call, seen, after>>

\* Slip: closure contends only with other closures.
TryCloseLockBlindly(r) ==
    /\ pc[r] = "closeLock"
    /\ IF exclusive = Nobody
       THEN /\ exclusive' = r
            /\ Goto(r, "closeCommit")
            /\ UNCHANGED shared
       ELSE Refuse(r)
    /\ UNCHANGED <<academics, grading, audit, call, seen, after>>

\* close_term of the repository: try the exclusive lock ...
TryCloseLock(r) ==
    /\ pc[r] = "closeLock"
    /\ IF exclusive = Nobody /\ shared = {}
       THEN /\ exclusive' = r
            /\ Goto(r, "closeCommit")
            /\ UNCHANGED shared
       ELSE Refuse(r)
    /\ UNCHANGED <<academics, grading, audit, call, seen, after>>

\* ... and close the locked row; the commit frees the advisory lock.
CommitClose(r) ==
    /\ pc[r] = "closeCommit"
    /\ termClosed' = TRUE
    /\ Goto(r, "done")
    /\ FreeLocks(r)
    /\ UNCHANGED <<gradable, grading, audit, call, seen, after>>

CloseStep(r) ==
    GetTerm(r) \/ RecordCloseIntent(r) \/ TryCloseLock(r) \/ CommitClose(r)

\* A course withdrawal, or the withdrawal of the whole academic enrollment,
\* which cascades even after closure: either makes the target ungradable.  It
\* takes no part in the advisory-lock protocol.
Withdraw(e) ==
    /\ e \in gradable
    /\ gradable' = gradable \ {e}
    /\ UNCHANGED <<termClosed, locks, grading, audit, local>>

----------------------------------------------------------------------------

\* Every call has ended: nothing more happens.
Quiescent ==
    /\ \A r \in Requests : pc[r] \in Ended
    /\ UNCHANGED vars

Progress(r) == GradeStep(r) \/ CloseStep(r)

Next ==
    \/ \E r \in Requests :
          Start(r) \/ Progress(r) \/ Abort(r) \/ LoseGuard(r)
    \/ \E e \in Enrollments : Withdraw(e)
    \/ Quiescent

Spec == Init /\ [][Next]_vars
----------------------------------------------------------------------------
(***************************************************************************)
(* Properties.                                                             *)
(***************************************************************************)

\* The call behind a grade's current score, and the flag stored with it.
Writer(e) == grade[e].score
StoredFlag(e) ==
    IF history[e] = <<>> THEN grade[e].recordedAfterClosure
    ELSE history[e][Len(history[e])].afterClosure
GuardKept(e) == Writer(e) \notin Unreliable

\* "Revision history records the closure state observed under the guard", and
\* that state is still true when the write commits: no closure slips between
\* the check of a grade request and the commit of its grade, unless the guard's
\* own connection was lost.
ClosureFlagTrueAtCommit ==
    [][\A e \in Enrollments :
          grade'[e] # grade[e] /\ GuardKept(e)' => StoredFlag(e)' = termClosed]_vars

\* Once the term is closed no grade is created or changed by a call that lacks
\* the amendment permission or an explanation, whatever it saw before.
ClosedTermNeedsAmendment ==
    [][\A e \in Enrollments :
          grade'[e] # grade[e] /\ termClosed /\ GuardKept(e)'
             => MayAmendClosedTerm(Writer(e)')]_vars

\* Closure never commits while a grade request is between entering its guard
\* and leaving it: the property the PostgreSQL serialization tests sample.
ClosureWaitsForGuards ==
    [][~termClosed /\ termClosed'
          => \A r \in Requests \ Unreliable : pc[r] \notin GuardedSteps]_vars

\* A call that has ended, by success, refusal, error or cancellation, retains
\* neither form of the lock, and the two forms are never held together.
LocksNotRetained ==
    /\ \A r \in Requests : pc[r] \in Ended => r \notin shared /\ exclusive # r
    /\ exclusive # Nobody => shared = {}

\* A grade shows the last of its revisions, which are contiguous and each start
\* from the score the one before left.
GradeExplained(e) ==
    LET g == grade[e]
        h == history[e]
    IN  IF g = NoGrade THEN h = <<>>
        ELSE /\ g.revision = Len(h)
             /\ g.score = IF h = <<>> THEN g.recordedBy
                          ELSE h[Len(h)].replacement
             /\ \A i \in 1..Len(h) :
                   /\ h[i].number = i
                   /\ h[i].previous = IF i = 1 THEN g.recordedBy
                                      ELSE h[i - 1].replacement

\* Every grade is explained by its history: no revision computed from a stale
\* grade is ever committed over a newer one.
HistoryExplainsGrade == \A e \in Enrollments : GradeExplained(e)

\* A client that names the revision it edits never replaces any other.
ExpectedRevisionHonoured ==
    \A e \in Enrollments : \A i \in 1..Len(history[e]) :
        call[history[e][i].replacement].expected \in {Unspecified, i - 1}

\* Every grade, every revision and the closure itself were announced in the
\* audit log with the flag they were stored with, and success is only reported
\* of a write that is there.
AuditTellsTheTruth ==
    LET Announced(r, closed) ==
            [by |-> r, outcome |-> "intent", afterClosure |-> closed] \in audit
        Written(r, closed) == \E e \in Enrollments :
            \/ /\ grade[e] # NoGrade
               /\ grade[e].recordedBy = r
               /\ grade[e].recordedAfterClosure = closed
            \/ \E i \in 1..Len(history[e]) :
                  /\ history[e][i].replacement = r
                  /\ history[e][i].afterClosure = closed
    IN  /\ \A r \in Requests, closed \in BOOLEAN :
              Written(r, closed) => Announced(r, closed)
        /\ termClosed => \E r \in Requests :
              call[r].kind = "close" /\ Announced(r, FALSE)
        /\ \A event \in audit :
              event.outcome = "succeeded" => Written(event.by, event.afterClosure)

\* With guards that hold, the protocol is the atomic ledger.
Ledger == INSTANCE GradeLedger WITH
    termClosed <- termClosed, grade <- grade, history <- history
ImplementsLedger == Ledger!Spec

=============================================================================
