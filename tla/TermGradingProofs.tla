------------------------- MODULE TermGradingProofs -------------------------
(***************************************************************************)
(* Proofs about TermGrading, for any number of calls and enrollments.      *)
(***************************************************************************)
EXTENDS TermGrading, TLAPS

\* A revision past its load has a grade in hand.
Loaded ==
    \A r \in Requests :
        call[r].kind = "revise" /\ pc[r] \in {"enter"} \cup GuardedSteps
            => seen[r] \in Grades

TypeInv == TypeOK /\ Loaded

\* Types hold before any call arrives.
LEMMA TypeInit == Init => TypeInv
  <1> SUFFICES ASSUME Init PROVE TypeInv
    OBVIOUS
  <1>1. <<>> \in Seq(Revisions)
    OBVIOUS
  <1>2. history \in [Enrollments -> Seq(Revisions)]
    BY <1>1 DEF Init
  <1>3. TypeOK
    BY <1>2 DEF Init, TypeOK
  <1>4. Loaded
    BY DEF Init, Loaded, GuardedSteps
  <1>5. QED
    BY <1>3, <1>4 DEF TypeInv

\* Types are preserved by every step.
LEMMA TypeStep == TypeInv /\ [Next]_vars => TypeInv'
  <1> SUFFICES ASSUME TypeInv, [Next]_vars
               PROVE  TypeInv'
    OBVIOUS
  <1> USE UnreliableAssumption DEF TypeInv, TypeOK, Loaded, Steps, GradeSteps,
          CloseSteps, GuardedSteps, Ended, Goto, Refuse, FreeLocks, Log,
          academics, locks, grading, local
  <1>1. ASSUME NEW r \in Requests, Start(r)
        PROVE  TypeInv'
    BY <1>1 DEF Start
  <1>2. ASSUME NEW r \in Requests, Abort(r)
        PROVE  TypeInv'
    BY <1>2 DEF Abort
  <1>3. ASSUME NEW r \in Requests, LoseGuard(r)
        PROVE  TypeInv'
    BY <1>3 DEF LoseGuard
  <1>4. ASSUME NEW r \in Requests, ResolveTarget(r)
        PROVE  TypeInv'
    BY <1>4 DEF ResolveTarget
  <1>5. ASSUME NEW r \in Requests, LoadGrade(r)
        PROVE  TypeInv'
    <2>1. call[r].target \in Enrollments
      BY DEF Calls, RecordCalls, ReviseCalls, CloseCalls
    <2>2. QED
      BY <1>5, <2>1 DEF LoadGrade
  <1>6. ASSUME NEW r \in Requests, EnterGuard(r)
        PROVE  TypeInv'
    BY <1>6 DEF EnterGuard
  <1>7. ASSUME NEW r \in Requests, CheckClosure(r)
        PROVE  TypeInv'
    BY <1>7 DEF CheckClosure
  <1>8. ASSUME NEW r \in Requests, RecordIntent(r)
        PROVE  TypeInv'
    BY <1>8 DEF RecordIntent, AuditEvents
  <1>9. ASSUME NEW r \in Requests, CreateFinalGrade(r)
        PROVE  TypeInv'
    <2>1. call[r].target \in Enrollments /\ call[r].explained \in BOOLEAN
      BY DEF Calls, RecordCalls, ReviseCalls, CloseCalls
    <2>2. [score |-> r, revision |-> 0, recordedBy |-> r,
           recordedAfterClosure |-> after[r],
           recordingExplained |-> after[r] /\ call[r].explained] \in Grades
      BY <2>1 DEF Grades
    <2>3. CASE grade[call[r].target] = NoGrade
      BY <1>9, <2>1, <2>2, <2>3 DEF CreateFinalGrade
    <2>4. CASE Refuse(r) /\ UNCHANGED grade
      BY <1>9, <2>4 DEF CreateFinalGrade
    <2>5. QED
      BY <1>9, <2>3, <2>4 DEF CreateFinalGrade
  <1>10. ASSUME NEW r \in Requests, ReviseFinalGrade(r)
         PROVE  TypeInv'
    <2> DEFINE e == call[r].target
               new == [seen[r] EXCEPT !.score = r,
                                      !.revision = seen[r].revision + 1]
               row == [number |-> new.revision, previous |-> seen[r].score,
                       replacement |-> r, afterClosure |-> after[r]]
    <2>1. e \in Enrollments
      BY DEF Calls, RecordCalls, ReviseCalls, CloseCalls
    <2>2. seen[r] \in Grades
      BY <1>10 DEF ReviseFinalGrade
    <2>3. new \in Grades /\ row \in Revisions
      <3>1. /\ seen[r].score \in Requests /\ seen[r].revision + 1 \in Nat
            /\ after[r] \in BOOLEAN
        BY <2>2 DEF Grades
      <3>2. new \in Grades
        BY <2>2, <3>1 DEF Grades
      <3>3. new.revision = seen[r].revision + 1
        BY <2>2 DEF Grades
      <3>4. QED
        BY <3>1, <3>2, <3>3 DEF Revisions
    <2>4. Append(history[e], row) \in Seq(Revisions)
      BY <2>1, <2>3
    <2>5. CASE UNCHANGED grading
      BY <1>10, <2>5 DEF ReviseFinalGrade
    <2>6. CASE /\ grade' = [grade EXCEPT ![e] = new]
               /\ history' = [history EXCEPT ![e] = Append(@, row)]
               /\ Goto(r, "confirm")
      <3>1. /\ grade' \in [Enrollments -> Grades \cup {NoGrade}]
            /\ history' \in [Enrollments -> Seq(Revisions)]
        BY <2>1, <2>3, <2>4, <2>6
      <3>2. QED
        BY <1>10, <2>2, <2>6, <3>1 DEF ReviseFinalGrade
    <2>7. QED
      BY <1>10, <2>5, <2>6 DEF ReviseFinalGrade
  <1>11. ASSUME NEW r \in Requests, RecordSuccess(r)
         PROVE  TypeInv'
    BY <1>11 DEF RecordSuccess, AuditEvents
  <1>12. ASSUME NEW r \in Requests, LeaveGuard(r)
         PROVE  TypeInv'
    BY <1>12 DEF LeaveGuard
  <1>13. ASSUME NEW r \in Requests, CloseStep(r)
         PROVE  TypeInv'
    <2>1. CASE GetTerm(r)
      BY <2>1 DEF GetTerm
    <2>2. CASE RecordCloseIntent(r)
      <3>1. [by |-> r, outcome |-> "intent", afterClosure |-> FALSE]
               \in AuditEvents
        BY DEF AuditEvents
      <3>2. QED
        BY <2>2, <3>1 DEF RecordCloseIntent
    <2>3. CASE TryCloseLock(r)
      BY <2>3 DEF TryCloseLock
    <2>4. CASE CommitClose(r)
      BY <2>4 DEF CommitClose
    <2>5. QED
      BY <1>13, <2>1, <2>2, <2>3, <2>4 DEF CloseStep
  <1>14. ASSUME NEW e \in Enrollments, Withdraw(e)
         PROVE  TypeInv'
    BY <1>14 DEF Withdraw
  <1>15. CASE UNCHANGED vars
    BY <1>15 DEF vars
  <1>16. QED
    BY <1>1, <1>2, <1>3, <1>4, <1>5, <1>6, <1>7, <1>8, <1>9, <1>10, <1>11,
       <1>12, <1>13, <1>14, <1>15
    DEF Next, Progress, GradeStep, Quiescent

\* Every variable keeps its type, whatever the number of calls.
THEOREM TypeCorrect == Spec => []TypeInv
  BY TypeInit, TypeStep, PTL DEF Spec

----------------------------------------------------------------------------
(***************************************************************************)
(* The lock protocol.                                                      *)
(***************************************************************************)

\* Who holds the advisory lock is where the code says it is: an exclusive
\* holder is about to commit its closure and excludes every guard; a shared
\* holder is inside its guard, and every reliable call inside a guard holds it.
LockInv ==
    /\ exclusive # Nobody => shared = {} /\ pc[exclusive] = "closeCommit"
    /\ \A r \in Requests : pc[r] = "closeCommit" => exclusive = r
    /\ \A r \in shared : pc[r] \in GuardedSteps
    /\ \A r \in Requests \ Unreliable : pc[r] \in GuardedSteps => r \in shared

\* What a reliable call concluded from the closure flag still holds while it
\* is under its guard.
CheckInv ==
    \A r \in Requests \ Unreliable :
        pc[r] \in {"intent", "write"} =>
            /\ after[r] = termClosed
            /\ termClosed => MayAmendClosedTerm(r)

\* The lock and what is concluded under it.  The compare-and-set of a revision
\* needs none of this: see HistoryInv below.
ProtocolInv == TypeInv /\ LockInv /\ CheckInv

\* The protocol's invariant holds before any call arrives.
LEMMA ProtocolInit == Init => ProtocolInv
  BY TypeInit DEF Init, ProtocolInv, LockInv, CheckInv, GuardedSteps

\* Ownership of the lock is preserved by every step.
LEMMA LockStep == ProtocolInv /\ [Next]_vars => LockInv'
  <1> SUFFICES ASSUME ProtocolInv, [Next]_vars
               PROVE  LockInv'
    OBVIOUS
  <1> USE UnreliableAssumption, NobodyAssumption
      DEF ProtocolInv, TypeInv, TypeOK, LockInv, Steps, GradeSteps, CloseSteps,
          GuardedSteps, Ended, Goto, Refuse, FreeLocks, Log, academics, locks,
          grading, local
  <1>1. ASSUME NEW r \in Requests, Start(r)
        PROVE  LockInv'
    BY <1>1 DEF Start
  <1>2. ASSUME NEW r \in Requests, Abort(r)
        PROVE  LockInv'
    BY <1>2 DEF Abort
  <1>3. ASSUME NEW r \in Requests, LoseGuard(r)
        PROVE  LockInv'
    BY <1>3 DEF LoseGuard
  <1>4. ASSUME NEW r \in Requests, ResolveTarget(r)
        PROVE  LockInv'
    <2>1. CASE Goto(r, "enter") /\ UNCHANGED locks
      BY <1>4, <2>1 DEF ResolveTarget
    <2>2. CASE Refuse(r)
      BY <1>4, <2>2 DEF ResolveTarget
    <2>3. QED
      BY <1>4, <2>1, <2>2 DEF ResolveTarget
  <1>5. ASSUME NEW r \in Requests, LoadGrade(r)
        PROVE  LockInv'
    <2>1. CASE Goto(r, "enter") /\ UNCHANGED locks
      BY <1>5, <2>1 DEF LoadGrade
    <2>2. CASE Refuse(r)
      BY <1>5, <2>2 DEF LoadGrade
    <2>3. QED
      BY <1>5, <2>1, <2>2 DEF LoadGrade
  <1>6. ASSUME NEW r \in Requests, EnterGuard(r)
        PROVE  LockInv'
    <2>1. CASE exclusive = Nobody
      <3>1. /\ shared' = shared \cup {r} /\ exclusive' = Nobody
            /\ pc' = [pc EXCEPT ![r] = "check"]
        BY <1>6, <2>1 DEF EnterGuard
      <3>2. QED
        BY <1>6, <2>1, <3>1 DEF EnterGuard
    <2>2. CASE exclusive # Nobody
      BY <1>6, <2>2 DEF EnterGuard
    <2>3. QED
      BY <2>1, <2>2
  <1>7. ASSUME NEW r \in Requests, CheckClosure(r)
        PROVE  LockInv'
    <2>1. CASE Goto(r, "intent") /\ UNCHANGED locks
      BY <1>7, <2>1 DEF CheckClosure
    <2>2. CASE Refuse(r)
      BY <1>7, <2>2 DEF CheckClosure
    <2>3. QED
      BY <1>7, <2>1, <2>2 DEF CheckClosure
  <1>8. ASSUME NEW r \in Requests, RecordIntent(r)
        PROVE  LockInv'
    BY <1>8 DEF RecordIntent
  <1>9. ASSUME NEW r \in Requests, CreateFinalGrade(r)
        PROVE  LockInv'
    <2>1. CASE Goto(r, "confirm") /\ UNCHANGED locks
      BY <1>9, <2>1 DEF CreateFinalGrade
    <2>2. CASE Refuse(r)
      BY <1>9, <2>2 DEF CreateFinalGrade
    <2>3. QED
      BY <1>9, <2>1, <2>2 DEF CreateFinalGrade
  <1>10. ASSUME NEW r \in Requests, ReviseFinalGrade(r)
         PROVE  LockInv'
    <2>1. CASE Goto(r, "confirm") /\ UNCHANGED locks
      BY <1>10, <2>1 DEF ReviseFinalGrade
    <2>2. CASE Refuse(r)
      BY <1>10, <2>2 DEF ReviseFinalGrade
    <2>3. QED
      BY <1>10, <2>1, <2>2 DEF ReviseFinalGrade
  <1>11. ASSUME NEW r \in Requests, RecordSuccess(r)
         PROVE  LockInv'
    BY <1>11 DEF RecordSuccess
  <1>12. ASSUME NEW r \in Requests, LeaveGuard(r)
         PROVE  LockInv'
    BY <1>12 DEF LeaveGuard
  <1>13. ASSUME NEW r \in Requests, GetTerm(r) \/ RecordCloseIntent(r)
         PROVE  LockInv'
    BY <1>13 DEF GetTerm, RecordCloseIntent
  <1>14. ASSUME NEW r \in Requests, TryCloseLock(r)
         PROVE  LockInv'
    <2>1. CASE exclusive = Nobody /\ shared = {}
      <3>1. exclusive' = r /\ shared' = {} /\ pc' = [pc EXCEPT ![r] = "closeCommit"]
        BY <1>14, <2>1 DEF TryCloseLock
      <3>2. \A q \in Requests \ Unreliable : pc[q] \notin GuardedSteps
        BY <2>1
      <3>3. \A q \in Requests : pc[q] # "closeCommit"
        BY <2>1
      <3>4. QED
        BY <3>1, <3>2, <3>3
    <2>2. CASE ~(exclusive = Nobody /\ shared = {})
      BY <1>14, <2>2 DEF TryCloseLock
    <2>3. QED
      BY <2>1, <2>2
  <1>15. ASSUME NEW r \in Requests, CommitClose(r)
         PROVE  LockInv'
    <2>1. exclusive = r /\ shared = {}
      BY <1>15 DEF CommitClose
    <2>2. exclusive' = Nobody /\ shared' = {} /\ pc' = [pc EXCEPT ![r] = "done"]
      BY <1>15, <2>1 DEF CommitClose
    <2>3. QED
      BY <2>1, <2>2
  <1>16. ASSUME NEW e \in Enrollments, Withdraw(e)
         PROVE  LockInv'
    BY <1>16 DEF Withdraw
  <1>17. CASE UNCHANGED vars
    BY <1>17 DEF vars
  <1>18. QED
    BY <1>1, <1>2, <1>3, <1>4, <1>5, <1>6, <1>7, <1>8, <1>9, <1>10, <1>11,
       <1>12, <1>13, <1>14, <1>15, <1>16, <1>17
    DEF Next, Progress, GradeStep, CloseStep, Quiescent

\* A closure commits only over an empty set of guards.
LEMMA CloseFindsNoGuard ==
  ASSUME ProtocolInv, NEW r \in Requests, CommitClose(r)
  PROVE  shared = {} /\ \A q \in Requests \ Unreliable : pc[q] \notin GuardedSteps
  BY UnreliableAssumption, NobodyAssumption
  DEF ProtocolInv, LockInv, CommitClose

\* The only step that moves the closure flag is a closure's commit.
LEMMA OnlyCloseCloses ==
  ASSUME [Next]_vars, termClosed' # termClosed
  PROVE  \E r \in Requests : CommitClose(r)
  BY DEF Next, vars, academics, Start, Abort, LoseGuard, Progress, GradeStep,
         CloseStep, ResolveTarget, LoadGrade, EnterGuard, CheckClosure,
         RecordIntent, CreateFinalGrade, ReviseFinalGrade, RecordSuccess,
         LeaveGuard, GetTerm, RecordCloseIntent, TryCloseLock, Withdraw, Quiescent

\* The arguments of a call never change.
LEMMA CallsFixed == ASSUME [Next]_vars PROVE call' = call
  BY DEF Next, vars, local, Start, Abort, LoseGuard, Progress, GradeStep,
         CloseStep, ResolveTarget, LoadGrade, EnterGuard, CheckClosure,
         RecordIntent, CreateFinalGrade, ReviseFinalGrade, RecordSuccess,
         LeaveGuard, GetTerm, RecordCloseIntent, TryCloseLock, CommitClose,
         Withdraw, Quiescent

\* The conclusion drawn from the closure flag survives every step of others.
LEMMA CheckStep == ProtocolInv /\ [Next]_vars => CheckInv'
  <1> SUFFICES ASSUME ProtocolInv, [Next]_vars,
                      NEW q \in Requests \ Unreliable,
                      pc'[q] \in {"intent", "write"}
               PROVE  /\ after'[q] = termClosed'
                      /\ termClosed' => MayAmendClosedTerm(q)'
    BY DEF CheckInv
  <1>1. call' = call
    BY CallsFixed
  <1>2. CASE \E r \in Requests : CommitClose(r)
    <2>1. PICK r \in Requests : CommitClose(r)
      BY <1>2
    <2>2. pc[q] \notin GuardedSteps
      BY <2>1, CloseFindsNoGuard
    <2>3. pc'[q] = pc[q] \/ pc'[q] = "done"
      BY <2>1 DEF CommitClose, Goto, ProtocolInv, TypeInv, TypeOK
    <2>4. QED
      BY <2>2, <2>3 DEF GuardedSteps
  <1>3. CASE termClosed' = termClosed
    <2>1. \/ pc[q] \in {"intent", "write"} /\ after'[q] = after[q]
          \/ CheckClosure(q)
      <3> DEFINE Kept == pc[q] \in {"intent", "write"} /\ after'[q] = after[q]
      <3> USE DEF ProtocolInv, TypeInv, TypeOK, Goto, Refuse
      <3>1. ASSUME NEW r \in Requests,
                   Start(r) \/ Abort(r) \/ LoseGuard(r) \/ CloseStep(r)
            PROVE  Kept
        BY <3>1 DEF Start, Abort, LoseGuard, local, CloseStep, GetTerm,
                    RecordCloseIntent, TryCloseLock, CommitClose
      <3>2. ASSUME NEW r \in Requests,
                   ResolveTarget(r) \/ LoadGrade(r) \/ EnterGuard(r)
            PROVE  Kept
        BY <3>2 DEF ResolveTarget, LoadGrade, EnterGuard
      <3>3. ASSUME NEW r \in Requests,
                   RecordIntent(r) \/ RecordSuccess(r) \/ LeaveGuard(r)
            PROVE  Kept
        BY <3>3 DEF RecordIntent, RecordSuccess, LeaveGuard
      <3>4. ASSUME NEW r \in Requests, CreateFinalGrade(r)
            PROVE  Kept
        BY <3>4 DEF CreateFinalGrade
      <3>5. ASSUME NEW r \in Requests, ReviseFinalGrade(r)
            PROVE  Kept
        <4>1. after' = after /\ \E step \in {"confirm", "failed"} : Goto(r, step)
          BY <3>5 DEF ReviseFinalGrade
        <4>2. QED
          BY <4>1
      <3>6. ASSUME NEW r \in Requests, CheckClosure(r)
            PROVE  Kept \/ CheckClosure(q)
        BY <3>6 DEF CheckClosure
      <3>7. CASE UNCHANGED vars \/ \E e \in Enrollments : Withdraw(e)
        BY <3>7 DEF vars, local, Withdraw
      <3>8. QED
        BY <3>1, <3>2, <3>3, <3>4, <3>5, <3>6, <3>7
        DEF Next, Progress, GradeStep, Quiescent
    <2>2. CASE pc[q] \in {"intent", "write"} /\ after'[q] = after[q]
      BY <1>1, <1>3, <2>2 DEF ProtocolInv, CheckInv, MayAmendClosedTerm
    <2>3. CASE CheckClosure(q)
      <3>1. after'[q] = termClosed
        BY <2>3, UnreliableAssumption
        DEF CheckClosure, ProtocolInv, TypeInv, TypeOK
      <3>2. pc'[q] # "failed"
        OBVIOUS
      <3>3. termClosed => MayAmendClosedTerm(q)
        BY <2>3, <3>2, UnreliableAssumption
        DEF CheckClosure, Refuse, Goto, ProtocolInv, TypeInv, TypeOK
      <3>4. QED
        BY <1>1, <1>3, <3>1, <3>3 DEF MayAmendClosedTerm
    <2>4. QED
      BY <2>1, <2>2, <2>3
  <1>4. QED
    BY <1>2, <1>3, OnlyCloseCloses

\* The lock protocol keeps its invariant.
THEOREM ProtocolCorrect == Spec => []ProtocolInv
  <1>1. ProtocolInv /\ [Next]_vars => ProtocolInv'
    BY TypeStep, LockStep, CheckStep DEF ProtocolInv
  <1>2. QED
    BY ProtocolInit, <1>1, PTL DEF Spec

\* Types again, in the form the runs check.
THEOREM TypesHold == Spec => []TypeOK
  <1>1. TypeInv => TypeOK
    BY DEF TypeInv
  <1>2. QED
    BY TypeCorrect, <1>1, PTL

\* A call that ended holds neither form of the lock; the forms exclude one
\* another.
THEOREM LocksReleased == Spec => []LocksNotRetained
  <1>1. ProtocolInv => LocksNotRetained
    BY NobodyAssumption
    DEF ProtocolInv, LockInv, LocksNotRetained, Ended, GuardedSteps
  <1>2. QED
    BY ProtocolCorrect, <1>1, PTL

\* A closure never commits over a grade request that is inside its guard.
THEOREM ClosureExcluded == Spec => ClosureWaitsForGuards
  <1> DEFINE Waits == ~termClosed /\ termClosed'
                         => \A r \in Requests \ Unreliable : pc[r] \notin GuardedSteps
  <1>1. ProtocolInv /\ [Next]_vars => [Waits]_vars
    BY OnlyCloseCloses, CloseFindsNoGuard
  <1>2. QED
    BY ProtocolCorrect, <1>1, PTL DEF Spec, ClosureWaitsForGuards

----------------------------------------------------------------------------
(***************************************************************************)
(* The history of revisions.  Nothing here relies on the advisory lock:    *)
(* comparing the loaded revision with the stored one is enough.            *)
(***************************************************************************)

Revising(r) == call[r].kind = "revise" /\ pc[r] \in {"enter"} \cup GuardedSteps

\* The score revision k left behind.
ScoreAfter(e, k) == IF k = 0 THEN grade[e].recordedBy ELSE history[e][k].replacement

\* What a revision loaded was the grade at some earlier point of its history,
\* and is the revision its client named.
SeenInv ==
    \A r \in Requests : Revising(r) =>
        LET e == call[r].target IN
        /\ grade[e] # NoGrade
        /\ seen[r].revision \in 0..Len(history[e])
        /\ seen[r].score = ScoreAfter(e, seen[r].revision)
        /\ SameRecording(seen[r], grade[e])
        /\ call[r].expected \in {Unspecified, seen[r].revision}

HistoryInv ==
    TypeInv /\ HistoryExplainsGrade /\ SeenInv /\ ExpectedRevisionHonoured

\* Without grades there is nothing to explain.
LEMMA HistoryInit == Init => HistoryInv
  BY TypeInit
  DEF Init, HistoryInv, HistoryExplainsGrade, GradeExplained, SeenInv, Revising,
      GuardedSteps, ExpectedRevisionHonoured

Recorded(r) == CreateFinalGrade(r) /\ grade[call[r].target] = NoGrade

Revised(r) ==
    LET e == call[r].target
        new == [seen[r] EXCEPT !.score = r, !.revision = seen[r].revision + 1]
    IN  /\ ReviseFinalGrade(r)
        /\ grade[e] # NoGrade
        /\ grade[e].revision = seen[r].revision
        /\ SameRecording(grade[e], new)
        /\ grade' = [grade EXCEPT ![e] = new]
        /\ history' = [history EXCEPT ![e] = Append(@,
              [number |-> new.revision, previous |-> seen[r].score,
               replacement |-> r, afterClosure |-> after[r]])]
        /\ Goto(r, "confirm")

\* Only a recording and a revision touch the grading tables.
LEMMA GradingMoves ==
  ASSUME [Next]_vars
  PROVE  UNCHANGED grading \/ \E r \in Requests : Recorded(r) \/ Revised(r)
  <1>1. ASSUME NEW r \in Requests, CreateFinalGrade(r)
        PROVE  UNCHANGED grading \/ Recorded(r)
    BY <1>1 DEF CreateFinalGrade, Recorded, grading
  <1>2. ASSUME NEW r \in Requests, ReviseFinalGrade(r)
        PROVE  UNCHANGED grading \/ Revised(r)
    BY <1>2 DEF ReviseFinalGrade, Revised
  <1>3. ASSUME NEW r \in Requests,
               \/ Start(r) \/ Abort(r) \/ LoseGuard(r) \/ CloseStep(r)
               \/ ResolveTarget(r) \/ LoadGrade(r) \/ EnterGuard(r)
               \/ CheckClosure(r) \/ RecordIntent(r) \/ RecordSuccess(r)
               \/ LeaveGuard(r)
        PROVE  UNCHANGED grading
    BY <1>3 DEF Start, Abort, LoseGuard, CloseStep, GetTerm, RecordCloseIntent,
                TryCloseLock, CommitClose, ResolveTarget, LoadGrade, EnterGuard,
                CheckClosure, RecordIntent, RecordSuccess, LeaveGuard
  <1>4. CASE UNCHANGED vars \/ \E e \in Enrollments : Withdraw(e)
    BY <1>4 DEF vars, Withdraw
  <1>5. QED
    BY <1>1, <1>2, <1>3, <1>4 DEF Next, Progress, GradeStep, Quiescent

\* A revision under way either has just loaded its grade or still has the one
\* it loaded.
LEMMA SeenKept ==
  ASSUME TypeInv, [Next]_vars, NEW q \in Requests, Revising(q)'
  PROVE  (Revising(q) /\ seen'[q] = seen[q]) \/ LoadGrade(q)
  <1> DEFINE Kept == Revising(q) /\ seen'[q] = seen[q]
  <1>0. call' = call
    BY CallsFixed
  <1> USE <1>0 DEF TypeInv, TypeOK, Goto, Refuse, Revising, GuardedSteps
  <1>1. ASSUME NEW r \in Requests,
               Start(r) \/ Abort(r) \/ LoseGuard(r) \/ CloseStep(r)
        PROVE  Kept
    BY <1>1 DEF Start, Abort, LoseGuard, local, CloseStep, GetTerm,
                RecordCloseIntent, TryCloseLock, CommitClose
  <1>2. ASSUME NEW r \in Requests, LoadGrade(r)
        PROVE  Kept \/ LoadGrade(q)
    <2>1. CASE r = q
      BY <1>2, <2>1
    <2>2. CASE r # q
      <3>1. pc'[q] = pc[q] /\ seen'[q] = seen[q]
        BY <1>2, <2>2 DEF LoadGrade
      <3>2. QED
        BY <3>1
    <2>3. QED
      BY <2>1, <2>2
  <1>3. ASSUME NEW r \in Requests,
               ResolveTarget(r) \/ EnterGuard(r) \/ CheckClosure(r)
        PROVE  Kept
    BY <1>3 DEF ResolveTarget, EnterGuard, CheckClosure
  <1>4. ASSUME NEW r \in Requests,
               RecordIntent(r) \/ RecordSuccess(r) \/ LeaveGuard(r)
        PROVE  Kept
    BY <1>4 DEF RecordIntent, RecordSuccess, LeaveGuard
  <1>5. ASSUME NEW r \in Requests, CreateFinalGrade(r) \/ ReviseFinalGrade(r)
        PROVE  Kept
    <2>1. /\ seen' = seen /\ pc[r] = "write"
          /\ \E step \in {"confirm", "failed"} : Goto(r, step)
      BY <1>5 DEF CreateFinalGrade, ReviseFinalGrade
    <2>2. QED
      BY <2>1
  <1>6. CASE UNCHANGED vars \/ \E e \in Enrollments : Withdraw(e)
    BY <1>6 DEF vars, local, Withdraw
  <1>7. QED
    BY <1>1, <1>2, <1>3, <1>4, <1>5, <1>6 DEF Next, Progress, GradeStep, Quiescent

\* The initial recording starts a history without revisions.
LEMMA RecordedExplains ==
  ASSUME HistoryInv, NEW r \in Requests, Recorded(r)
  PROVE  /\ call[r].target \in Enrollments
         /\ history' = history /\ history[call[r].target] = <<>>
         /\ \A e \in Enrollments \ {call[r].target} : grade'[e] = grade[e]
         /\ grade'[call[r].target].score = r
         /\ grade'[call[r].target].revision = 0
         /\ grade'[call[r].target].recordedBy = r
         /\ grade'[call[r].target].recordedAfterClosure = after[r]
         /\ grade'[call[r].target].recordingExplained
               = (after[r] /\ call[r].explained)
  <1>1. call[r].target \in Enrollments
    BY DEF HistoryInv, TypeInv, TypeOK, Calls, RecordCalls, ReviseCalls, CloseCalls
  <1>2. history[call[r].target] = <<>>
    BY <1>1 DEF HistoryInv, HistoryExplainsGrade, GradeExplained, Recorded
  <1>3. /\ history' = history
        /\ grade' = [grade EXCEPT ![call[r].target] =
              [score |-> r, revision |-> 0, recordedBy |-> r,
               recordedAfterClosure |-> after[r],
               recordingExplained |-> after[r] /\ call[r].explained]]
    BY DEF Recorded, CreateFinalGrade
  <1>4. QED
    BY <1>1, <1>2, <1>3 DEF HistoryInv, TypeInv, TypeOK

\* A grade is its score, its revision number and the evidence of its recording.
LEMMA GradeIsItsFields ==
  ASSUME NEW g \in Grades, NEW h \in Grades,
         g.score = h.score, g.revision = h.revision, SameRecording(g, h)
  PROVE  g = h
  <1>1. /\ g = [score |-> g.score, revision |-> g.revision,
                recordedBy |-> g.recordedBy,
                recordedAfterClosure |-> g.recordedAfterClosure,
                recordingExplained |-> g.recordingExplained]
        /\ h = [score |-> h.score, revision |-> h.revision,
                recordedBy |-> h.recordedBy,
                recordedAfterClosure |-> h.recordedAfterClosure,
                recordingExplained |-> h.recordingExplained]
    BY DEF Grades
  <1>2. QED
    BY <1>1 DEF SameRecording

\* A committed revision continues the grade and its history where they are.
LEMMA RevisedExplains ==
  ASSUME HistoryInv, NEW r \in Requests, Revised(r)
  PROVE  /\ call[r].target \in Enrollments
         /\ grade[call[r].target] = seen[r]
         /\ seen[r] \in Grades
         /\ seen[r].revision = Len(history[call[r].target])
         /\ grade' = [grade EXCEPT ![call[r].target] =
               [seen[r] EXCEPT !.score = r, !.revision = seen[r].revision + 1]]
         /\ history' = [history EXCEPT ![call[r].target] = Append(@,
               [number |-> seen[r].revision + 1, previous |-> seen[r].score,
                replacement |-> r, afterClosure |-> after[r]])]
  <1> DEFINE e == call[r].target
             new == [seen[r] EXCEPT !.score = r, !.revision = seen[r].revision + 1]
  <1>1. e \in Enrollments
    BY DEF HistoryInv, TypeInv, TypeOK, Calls, RecordCalls, ReviseCalls, CloseCalls
  <1>2. Revising(r)
    BY DEF Revised, ReviseFinalGrade, Revising, GuardedSteps
  <1>3. seen[r] \in Grades /\ grade[e] \in Grades
    BY <1>1, <1>2 DEF HistoryInv, TypeInv, TypeOK, Loaded, Revising, Revised
  <1>4. /\ seen[r].score = ScoreAfter(e, seen[r].revision)
        /\ SameRecording(seen[r], grade[e])
    BY <1>2 DEF HistoryInv, SeenInv
  <1>5. grade[e].revision = seen[r].revision /\ grade[e].revision = Len(history[e])
    BY <1>1 DEF Revised, HistoryInv, HistoryExplainsGrade, GradeExplained
  <1>6. history[e] \in Seq(Revisions)
    BY <1>1 DEF HistoryInv, TypeInv, TypeOK
  <1>7. grade[e].score = seen[r].score
    <2>1. grade[e].score = IF history[e] = <<>> THEN grade[e].recordedBy
                           ELSE history[e][Len(history[e])].replacement
      BY <1>1 DEF HistoryInv, HistoryExplainsGrade, GradeExplained, Revised
    <2>2. history[e] = <<>> <=> Len(history[e]) = 0
      BY <1>6
    <2>3. QED
      BY <1>4, <1>5, <2>1, <2>2 DEF ScoreAfter
  <1>8. grade[e] = seen[r]
    BY <1>3, <1>4, <1>5, <1>7, GradeIsItsFields
  <1>9. new.revision = seen[r].revision + 1
    BY <1>3 DEF Grades
  <1>10. /\ grade' = [grade EXCEPT ![e] = new]
         /\ history' = [history EXCEPT ![e] = Append(@,
              [number |-> new.revision, previous |-> seen[r].score,
               replacement |-> r, afterClosure |-> after[r]])]
    BY DEF Revised
  <1>11. history' = [history EXCEPT ![e] = Append(@,
              [number |-> seen[r].revision + 1, previous |-> seen[r].score,
               replacement |-> r, afterClosure |-> after[r]])]
    BY <1>9, <1>10
  <1>12. QED
    BY <1>1, <1>3, <1>5, <1>8, <1>10, <1>11

\* Appending a row leaves the rows before it alone.
LEMMA Appended ==
  ASSUME NEW h \in Seq(Revisions), NEW row \in Revisions
  PROVE  /\ Append(h, row) \in Seq(Revisions)
         /\ Append(h, row) # <<>>
         /\ Len(h) \in Nat
         /\ Len(Append(h, row)) = Len(h) + 1
         /\ Append(h, row)[Len(h) + 1] = row
         /\ \A i \in 1..Len(h) : Append(h, row)[i] = h[i]
  OBVIOUS

\* What a revision changes in a grade, and what it leaves alone.
LEMMA NewGrade ==
  ASSUME NEW g \in Grades, NEW r \in Requests
  PROVE  LET new == [g EXCEPT !.score = r, !.revision = g.revision + 1]
         IN  /\ new \in Grades /\ new.score = r
             /\ new.revision = g.revision + 1
             /\ new.recordedBy = g.recordedBy
             /\ new.recordedAfterClosure = g.recordedAfterClosure
             /\ new.recordingExplained = g.recordingExplained
  <1> DEFINE new == [g EXCEPT !.score = r, !.revision = g.revision + 1]
  <1>1. g.revision + 1 \in Nat
    BY DEF Grades
  <1>2. new \in Grades
    BY <1>1 DEF Grades
  <1>3. new.score = r /\ new.revision = g.revision + 1
    BY DEF Grades
  <1>4. /\ new.recordedBy = g.recordedBy
        /\ new.recordedAfterClosure = g.recordedAfterClosure
        /\ new.recordingExplained = g.recordingExplained
    BY DEF Grades
  <1>5. QED
    BY <1>2, <1>3, <1>4

\* A revision leaves every other enrollment alone.
LEMMA RevisedElsewhere ==
  ASSUME HistoryInv, NEW r \in Requests, Revised(r),
         NEW f \in Enrollments, f # call[r].target
  PROVE  grade'[f] = grade[f] /\ history'[f] = history[f]
  <1>1. /\ call[r].target \in Enrollments
        /\ grade \in [Enrollments -> Grades \cup {NoGrade}]
        /\ history \in [Enrollments -> Seq(Revisions)]
    BY RevisedExplains DEF HistoryInv, TypeInv, TypeOK
  <1>2. \E g, h : /\ grade' = [grade EXCEPT ![call[r].target] = g]
                 /\ history' = [history EXCEPT ![call[r].target] = h]
    BY DEF Revised
  <1>3. QED
    BY <1>1, <1>2

\* The target of a revision, and a grade to revise, exist.
LEMMA RevisedTarget ==
  ASSUME HistoryInv, NEW r \in Requests, Revised(r)
  PROVE  /\ call[r].target \in Enrollments
         /\ grade[call[r].target] # NoGrade
         /\ Len(history[call[r].target]) \in Nat
  <1>1. /\ call[r].target \in Enrollments
        /\ grade[call[r].target] = seen[r] /\ seen[r] \in Grades
    BY RevisedExplains
  <1>2. history[call[r].target] \in Seq(Revisions)
    BY <1>1 DEF HistoryInv, TypeInv, TypeOK
  <1>3. QED
    BY <1>1, <1>2, NoGradeAssumption

\* The fields of a revised grade, and the row that was appended.
LEMMA RevisedFields ==
  ASSUME HistoryInv, NEW r \in Requests, Revised(r),
         NEW e \in Enrollments, e = call[r].target,
         NEW n \in Nat, n = Len(history[e])
  PROVE  /\ grade'[e] \in Grades /\ grade'[e] # NoGrade
         /\ grade'[e].score = r /\ grade'[e].revision = n + 1
         /\ SameRecording(grade'[e], grade[e])
  <1> DEFINE new == [seen[r] EXCEPT !.score = r, !.revision = seen[r].revision + 1]
  <1>1. /\ grade[e] = seen[r] /\ seen[r] \in Grades
        /\ seen[r].revision = n
        /\ grade' = [grade EXCEPT ![e] = new]
    BY RevisedExplains
  <1>2. grade \in [Enrollments -> Grades \cup {NoGrade}]
    BY DEF HistoryInv, TypeInv, TypeOK
  <1>3. /\ new \in Grades /\ new.score = r
        /\ new.revision = seen[r].revision + 1
        /\ new.recordedBy = seen[r].recordedBy
        /\ new.recordedAfterClosure = seen[r].recordedAfterClosure
        /\ new.recordingExplained = seen[r].recordingExplained
    BY <1>1, NewGrade, Zenon
  <1>4. grade'[e] = new
    BY <1>1, <1>2
  <1>5. SameRecording(grade'[e], grade[e])
    BY <1>1, <1>3, <1>4 DEF SameRecording
  <1>6. grade'[e] \in Grades /\ grade'[e].score = r
    BY <1>3, <1>4, Zenon
  <1>7. grade'[e].revision = seen[r].revision + 1
    BY <1>3, <1>4, Zenon
  <1>8. QED
    BY <1>1, <1>5, <1>6, <1>7, NoGradeAssumption

NewRow(e, r) == [number |-> Len(history[e]) + 1, previous |-> grade[e].score,
                 replacement |-> r, afterClosure |-> after[r]]

\* A revision appends one row to the history.
LEMMA RevisedHistory ==
  ASSUME HistoryInv, NEW r \in Requests, Revised(r),
         NEW e \in Enrollments, e = call[r].target
  PROVE  /\ history'[e] = Append(history[e], NewRow(e, r))
         /\ NewRow(e, r) \in Revisions
         /\ history[e] \in Seq(Revisions)
  <1> DEFINE row == [number |-> seen[r].revision + 1, previous |-> seen[r].score,
                     replacement |-> r, afterClosure |-> after[r]]
  <1>1. /\ grade[e] = seen[r] /\ seen[r] \in Grades
        /\ seen[r].revision = Len(history[e])
        /\ history' = [history EXCEPT ![e] = Append(@, row)]
    BY RevisedExplains
  <1>2. history \in [Enrollments -> Seq(Revisions)] /\ after[r] \in BOOLEAN
    BY DEF HistoryInv, TypeInv, TypeOK
  <1>3. row \in Revisions
    BY <1>1, <1>2 DEF Grades, Revisions
  <1>4. row = NewRow(e, r)
    BY <1>1 DEF NewRow
  <1>5. history'[e] = Append(history[e], row)
    BY <1>1, <1>2
  <1>6. QED
    BY <1>2, <1>3, <1>4, <1>5

\* What was in the history before a revision is still there.
LEMMA RevisedPrefix ==
  ASSUME HistoryInv, NEW r \in Requests, Revised(r),
         NEW e \in Enrollments, e = call[r].target,
         NEW n \in Nat, n = Len(history[e])
  PROVE  \A i \in 1..n : history'[e][i] = history[e][i]
  BY RevisedHistory, Appended

\* A revision makes the history longer by one.
LEMMA RevisedLength ==
  ASSUME HistoryInv, NEW r \in Requests, Revised(r),
         NEW e \in Enrollments, e = call[r].target,
         NEW n \in Nat, n = Len(history[e])
  PROVE  history'[e] # <<>> /\ Len(history'[e]) = n + 1
  BY RevisedHistory, Appended

\* The row a revision appends.
LEMMA RevisedRow ==
  ASSUME HistoryInv, NEW r \in Requests, Revised(r),
         NEW e \in Enrollments, e = call[r].target,
         NEW n \in Nat, n = Len(history[e])
  PROVE  history'[e][n + 1] =
            [number |-> n + 1, previous |-> grade[e].score,
             replacement |-> r, afterClosure |-> after[r]]
  BY RevisedHistory, Appended DEF NewRow

\* The history keeps explaining the grade.
LEMMA ExplainsStep == HistoryInv /\ [Next]_vars => HistoryExplainsGrade'
  <1> SUFFICES ASSUME HistoryInv, [Next]_vars
               PROVE  HistoryExplainsGrade'
    OBVIOUS
  <1>1. CASE UNCHANGED grading
    BY <1>1 DEF HistoryInv, HistoryExplainsGrade, GradeExplained, grading
  <1>2. ASSUME NEW r \in Requests, Recorded(r)
        PROVE  HistoryExplainsGrade'
    <2> DEFINE e == call[r].target
    <2>1. /\ e \in Enrollments /\ history' = history /\ history[e] = <<>>
          /\ \A f \in Enrollments \ {e} : grade'[f] = grade[f]
          /\ grade'[e].score = r /\ grade'[e].revision = 0
          /\ grade'[e].recordedBy = r
      BY <1>2, RecordedExplains
    <2>2. QED
      BY <2>1 DEF HistoryInv, HistoryExplainsGrade, GradeExplained
  <1>3. ASSUME NEW r \in Requests, Revised(r)
        PROVE  HistoryExplainsGrade'
    <2>1. PICK e \in Enrollments : e = call[r].target
      BY <1>3, RevisedTarget
    <2>2. PICK n \in Nat : n = Len(history[e])
      BY <1>3, <2>1, RevisedTarget
    <2>3. /\ grade'[e] # NoGrade
          /\ grade'[e].score = r /\ grade'[e].revision = n + 1
          /\ SameRecording(grade'[e], grade[e])
          /\ history'[e] # <<>> /\ Len(history'[e]) = n + 1
      <3>1. /\ grade'[e] # NoGrade
            /\ grade'[e].score = r /\ grade'[e].revision = n + 1
            /\ SameRecording(grade'[e], grade[e])
        BY <1>3, <2>1, <2>2, RevisedFields
      <3>2. history'[e] # <<>> /\ Len(history'[e]) = n + 1
        BY <1>3, <2>1, <2>2, RevisedLength
      <3>3. QED
        BY <3>1, <3>2
    <2>4. history'[e][n + 1] =
            [number |-> n + 1, previous |-> grade[e].score,
             replacement |-> r, afterClosure |-> after[r]]
      BY <1>3, <2>1, <2>2, RevisedRow
    <2>5. \A i \in 1..n : history'[e][i] = history[e][i]
      BY <1>3, <2>1, <2>2, RevisedPrefix
    <2>. /\ grade[e] # NoGrade
         /\ grade'[e].recordedBy = grade[e].recordedBy
      BY <1>3, <2>1, <2>3, RevisedTarget DEF SameRecording
    <2>. \A f \in Enrollments \ {e} :
            grade'[f] = grade[f] /\ history'[f] = history[f]
      BY <1>3, <2>1, RevisedElsewhere
    <2>6. /\ grade[e].score = IF history[e] = <<>> THEN grade[e].recordedBy
                              ELSE history[e][n].replacement
          /\ \A i \in 1..n :
                /\ history[e][i].number = i
                /\ history[e][i].previous = IF i = 1 THEN grade[e].recordedBy
                                            ELSE history[e][i - 1].replacement
      BY <2>2, <2>3 DEF HistoryInv, HistoryExplainsGrade, GradeExplained
    <2>7. history[e] = <<>> <=> n = 0
      BY <2>2 DEF HistoryInv, TypeInv, TypeOK
    <2>8. ASSUME NEW i \in 1..(n + 1)
          PROVE  /\ history'[e][i].number = i
                 /\ history'[e][i].previous
                      = IF i = 1 THEN grade'[e].recordedBy
                        ELSE history'[e][i - 1].replacement
      <3>1. CASE i = n + 1 /\ i = 1
        BY <2>3, <2>4, <2>6, <2>7, <3>1
      <3>2. CASE i = n + 1 /\ i # 1
        <4>1. i - 1 = n /\ n \in 1..n
          BY <3>2
        <4>2. history'[e][i - 1] = history[e][n]
          BY <2>5, <4>1
        <4>3. QED
          BY <2>4, <2>6, <2>7, <3>2, <4>1, <4>2
      <3>3. CASE i \in 1..n
        <4>1. history'[e][i] = history[e][i]
          BY <2>5, <3>3
        <4>2. i # 1 => history'[e][i - 1] = history[e][i - 1]
          BY <2>5, <3>3
        <4>3. QED
          BY <2>3, <2>6, <3>3, <4>1, <4>2
      <3>4. QED
        BY <3>1, <3>2, <3>3
    <2>9. GradeExplained(e)'
      <3>1. history'[e][Len(history'[e])].replacement = r
        BY <2>3, <2>4
      <3>2. \A i \in 1..Len(history'[e]) :
              /\ history'[e][i].number = i
              /\ history'[e][i].previous
                   = IF i = 1 THEN grade'[e].recordedBy
                     ELSE history'[e][i - 1].replacement
        BY <2>3, <2>8
      <3>3. QED
        BY <2>3, <3>1, <3>2 DEF GradeExplained
    <2>10. \A f \in Enrollments \ {e} : GradeExplained(f)'
      BY <2>3 DEF HistoryInv, HistoryExplainsGrade, GradeExplained
    <2>11. QED
      BY <2>9, <2>10 DEF HistoryExplainsGrade
  <1>4. QED
    BY <1>1, <1>2, <1>3, GradingMoves

\* What a revision loaded stays a point of the history.
LEMMA SeenStep == HistoryInv /\ [Next]_vars => SeenInv'
  <1> SUFFICES ASSUME HistoryInv, [Next]_vars
               PROVE  SeenInv'
    OBVIOUS
  <1> SUFFICES ASSUME NEW q \in Requests, Revising(q)',
                      NEW e \in Enrollments, e = call[q].target
               PROVE  /\ grade'[e] # NoGrade
                      /\ seen'[q].revision \in 0..Len(history'[e])
                      /\ seen'[q].score = ScoreAfter(e, seen[q].revision)'
                      /\ SameRecording(seen'[q], grade'[e])
                      /\ call[q].expected \in {Unspecified, seen'[q].revision}
    <2>1. call' = call
      BY CallsFixed
    <2>2. ASSUME NEW p \in Requests
          PROVE  call[p].target \in Enrollments
      BY DEF HistoryInv, TypeInv, TypeOK, Calls, RecordCalls, ReviseCalls, CloseCalls
    <2>3. QED
      BY <2>1, <2>2 DEF SeenInv, ScoreAfter
  <1>1. CASE LoadGrade(q)
    <2>1. /\ grade' = grade /\ history' = history
      BY <1>1 DEF LoadGrade, grading
    <2>2. /\ grade[e] # NoGrade /\ seen'[q] = grade[e]
          /\ call[q].expected \in {Unspecified, grade[e].revision}
      <3>1. pc'[q] # "failed"
        BY DEF Revising, GuardedSteps
      <3>2. pc' # [pc EXCEPT ![q] = "failed"]
        BY <3>1 DEF HistoryInv, TypeInv, TypeOK
      <3>3. QED
        BY <1>1, <3>2 DEF LoadGrade, Refuse, Goto, HistoryInv, TypeInv, TypeOK
    <2>3. /\ grade[e].revision = Len(history[e])
          /\ grade[e].score = IF history[e] = <<>> THEN grade[e].recordedBy
                              ELSE history[e][Len(history[e])].replacement
      BY <2>2 DEF HistoryInv, HistoryExplainsGrade, GradeExplained
    <2>4. /\ Len(history[e]) \in Nat
          /\ history[e] = <<>> <=> Len(history[e]) = 0
      BY DEF HistoryInv, TypeInv, TypeOK
    <2>5. QED
      BY <2>1, <2>2, <2>3, <2>4 DEF ScoreAfter, SameRecording
  <1>2. CASE Revising(q) /\ seen'[q] = seen[q]
    <2>1. /\ grade[e] # NoGrade
          /\ seen[q].revision \in 0..Len(history[e])
          /\ seen[q].score = ScoreAfter(e, seen[q].revision)
          /\ SameRecording(seen[q], grade[e])
          /\ call[q].expected \in {Unspecified, seen[q].revision}
      BY <1>2 DEF HistoryInv, SeenInv
    <2>2. CASE grade'[e] = grade[e] /\ history'[e] = history[e]
      BY <1>2, <2>1, <2>2 DEF ScoreAfter
    <2>3. CASE UNCHANGED grading
      BY <2>2, <2>3 DEF grading
    <2>4. ASSUME NEW r \in Requests, Recorded(r)
          PROVE  grade'[e] = grade[e] /\ history'[e] = history[e]
      <3>1. call[r].target # e
        BY <2>1, <2>4 DEF Recorded
      <3>2. QED
        BY <2>4, <3>1, RecordedExplains
    <2>5. ASSUME NEW r \in Requests, Revised(r), call[r].target # e
          PROVE  grade'[e] = grade[e] /\ history'[e] = history[e]
      BY <2>5, RevisedElsewhere
    <2>6. ASSUME NEW r \in Requests, Revised(r), call[r].target = e
          PROVE  /\ grade'[e] # NoGrade
                 /\ seen[q].revision \in 0..Len(history'[e])
                 /\ seen[q].score = ScoreAfter(e, seen[q].revision)'
                 /\ SameRecording(seen[q], grade'[e])
      <3>1. PICK n \in Nat : n = Len(history[e])
        BY <2>6, RevisedTarget
      <3>2. /\ grade'[e] # NoGrade /\ SameRecording(grade'[e], grade[e])
            /\ Len(history'[e]) = n + 1
        <4>1. grade'[e] # NoGrade /\ SameRecording(grade'[e], grade[e])
          BY <2>6, <3>1, RevisedFields
        <4>2. Len(history'[e]) = n + 1
          BY <2>6, <3>1, RevisedLength
        <4>3. QED
          BY <4>1, <4>2
      <3>3. \A i \in 1..n : history'[e][i] = history[e][i]
        BY <2>6, <3>1, RevisedPrefix
      <3>4. seen'[q].revision = seen[q].revision
        BY <1>2
      <3>5. seen[q].revision = 0 \/ seen[q].revision \in 1..n
        BY <2>1, <3>1
      <3>6. seen[q].score = IF seen[q].revision = 0 THEN grade'[e].recordedBy
                            ELSE history'[e][seen[q].revision].replacement
        BY <2>1, <3>2, <3>3, <3>5 DEF ScoreAfter, SameRecording
      <3>7. seen[q].revision \in 0..Len(history'[e])
        BY <2>1, <3>1, <3>2
      <3>8. SameRecording(seen[q], grade'[e])
        BY <2>1, <3>2 DEF SameRecording
      <3>9. QED
        BY <3>2, <3>4, <3>6, <3>7, <3>8 DEF ScoreAfter
    <2>7. QED
      BY <1>2, <2>1, <2>2, <2>3, <2>4, <2>5, <2>6, GradingMoves
  <1>3. QED
    BY <1>1, <1>2, SeenKept DEF HistoryInv

\* The revision a client named is the one its row replaced.
LEMMA ExpectedStep == HistoryInv /\ [Next]_vars => ExpectedRevisionHonoured'
  <1> SUFFICES ASSUME HistoryInv, [Next]_vars, NEW e \in Enrollments,
                      NEW i \in 1..Len(history'[e])
               PROVE  call[history'[e][i].replacement].expected
                         \in {Unspecified, i - 1}
    <2>1. [Next]_vars => call' = call
      BY CallsFixed
    <2>2. QED
      BY <2>1 DEF ExpectedRevisionHonoured
  <1>1. \A j \in 1..Len(history[e]) :
           call[history[e][j].replacement].expected \in {Unspecified, j - 1}
    BY DEF HistoryInv, ExpectedRevisionHonoured
  <1>2. CASE history'[e] = history[e]
    BY <1>1, <1>2
  <1>3. ASSUME NEW r \in Requests, Revised(r), call[r].target = e
        PROVE  call[history'[e][i].replacement].expected \in {Unspecified, i - 1}
    <2>1. PICK n \in Nat : n = Len(history[e])
      BY <1>3, RevisedTarget
    <2>2. /\ Len(history'[e]) = n + 1
          /\ history'[e][n + 1].replacement = r
          /\ \A j \in 1..n : history'[e][j] = history[e][j]
      <3>1. Len(history'[e]) = n + 1
        BY <1>3, <2>1, RevisedLength
      <3>2. history'[e][n + 1] =
              [number |-> n + 1, previous |-> grade[e].score,
               replacement |-> r, afterClosure |-> after[r]]
        BY <1>3, <2>1, RevisedRow
      <3>3. \A j \in 1..n : history'[e][j] = history[e][j]
        BY <1>3, <2>1, RevisedPrefix
      <3>4. QED
        BY <3>1, <3>2, <3>3
    <2>3. call[r].expected \in {Unspecified, n}
      <3>1. Revising(r)
        BY <1>3 DEF Revised, ReviseFinalGrade, Revising, GuardedSteps
      <3>2. call[r].expected \in {Unspecified, seen[r].revision}
        BY <3>1 DEF HistoryInv, SeenInv
      <3>3. QED
        BY <1>3, <2>1, <3>2, RevisedExplains
    <2>4. CASE i = n + 1
      BY <2>1, <2>2, <2>3, <2>4
    <2>5. CASE i \in 1..n
      BY <1>1, <2>1, <2>2, <2>5
    <2>6. QED
      BY <2>1, <2>2, <2>4, <2>5
  <1>4. ASSUME NEW r \in Requests, Recorded(r)
        PROVE  history'[e] = history[e]
    BY <1>4, RecordedExplains
  <1>5. ASSUME NEW r \in Requests, Revised(r), call[r].target # e
        PROVE  history'[e] = history[e]
    BY <1>5, RevisedElsewhere
  <1>6. QED
    BY <1>2, <1>3, <1>4, <1>5, GradingMoves DEF grading

\* The history explains every grade, by comparing revisions alone.
THEOREM HistoryCorrect == Spec => []HistoryInv
  <1>1. HistoryInv /\ [Next]_vars => HistoryInv'
    BY TypeStep, ExplainsStep, SeenStep, ExpectedStep DEF HistoryInv
  <1>2. QED
    BY HistoryInit, <1>1, PTL DEF Spec

\* No revision computed from a stale grade is committed over a newer one.
THEOREM GradesExplained == Spec => []HistoryExplainsGrade
  <1>1. HistoryInv => HistoryExplainsGrade
    BY DEF HistoryInv
  <1>2. QED
    BY HistoryCorrect, <1>1, PTL

\* A client that names a revision replaces that one or none.
THEOREM ExpectationsHonoured == Spec => []ExpectedRevisionHonoured
  <1>1. HistoryInv => ExpectedRevisionHonoured
    BY DEF HistoryInv
  <1>2. QED
    BY HistoryCorrect, <1>1, PTL

----------------------------------------------------------------------------
(***************************************************************************)
(* The audit log.  Its events are committed by transactions of their own,  *)
(* so that it can only be ahead of the grades with its intents and behind  *)
(* them with its successes.                                                *)
(***************************************************************************)

Announced(r, closed) ==
    [by |-> r, outcome |-> "intent", afterClosure |-> closed] \in audit

RecordingIn(e, r, closed) ==
    /\ grade[e] # NoGrade
    /\ grade[e].recordedBy = r
    /\ grade[e].recordedAfterClosure = closed

RevisionIn(e, r, closed) ==
    \E i \in 1..Len(history[e]) :
        /\ history[e][i].replacement = r
        /\ history[e][i].afterClosure = closed

Written(r, closed) ==
    \E e \in Enrollments : RecordingIn(e, r, closed) \/ RevisionIn(e, r, closed)

WritesAnnounced ==
    \A r \in Requests, closed \in BOOLEAN : Written(r, closed) => Announced(r, closed)

ClosureAnnounced ==
    termClosed => \E r \in Requests : call[r].kind = "close" /\ Announced(r, FALSE)

SuccessesWritten ==
    \A event \in audit :
        event.outcome = "succeeded" => Written(event.by, event.afterClosure)

\* Whoever is about to write or to close has announced it; whoever is about to
\* report success has written.
IntentsPrecede ==
    /\ \A r \in Requests : pc[r] = "write" => Announced(r, after[r])
    /\ \A r \in Requests : pc[r] \in CloseSteps => call[r].kind = "close"
    /\ \A r \in Requests : pc[r] \in {"closeLock", "closeCommit"} => Announced(r, FALSE)
    /\ \A r \in Requests : pc[r] = "confirm" => Written(r, after[r])

AuditInv ==
    /\ HistoryInv
    /\ IntentsPrecede
    /\ WritesAnnounced /\ ClosureAnnounced /\ SuccessesWritten

\* Nothing is announced, and nothing has happened, at first.
LEMMA AuditInit == Init => AuditInv
  <1> SUFFICES ASSUME Init PROVE AuditInv
    OBVIOUS
  <1>1. \A e \in Enrollments : grade[e] = NoGrade /\ Len(history[e]) = 0
    BY DEF Init
  <1>2. \A r, closed : ~Written(r, closed)
    BY <1>1 DEF Written, RecordingIn, RevisionIn
  <1>3. IntentsPrecede
    BY DEF Init, IntentsPrecede, CloseSteps
  <1>4. QED
    BY HistoryInit, <1>2, <1>3
    DEF Init, AuditInv, WritesAnnounced, ClosureAnnounced, SuccessesWritten

\* What was written stays on record, and only a recording or a revision adds
\* to it: its own row, with the flag its call has read.
LEMMA WrittenMoves ==
  ASSUME HistoryInv, [Next]_vars
  PROVE  /\ \A r, closed : Written(r, closed) => Written(r, closed)'
         /\ \A r, closed : Written(r, closed)' =>
               \/ Written(r, closed)
               \/ /\ r \in Requests /\ closed = after[r]
                  /\ Recorded(r) \/ Revised(r)
         /\ \A r \in Requests : Recorded(r) \/ Revised(r) =>
               after'[r] = after[r] /\ Written(r, after[r])'
  <1> DEFINE Kept(e) == \A q, closed :
                 /\ RecordingIn(e, q, closed)' <=> RecordingIn(e, q, closed)
                 /\ RevisionIn(e, q, closed)' <=> RevisionIn(e, q, closed)
             Added(r) == \A q, closed : Written(q, closed)' <=>
                 Written(q, closed) \/ (q = r /\ closed = after[r])
  <1>1. ASSUME NEW e \in Enrollments, grade'[e] = grade[e], history'[e] = history[e]
        PROVE  Kept(e)
    BY <1>1 DEF RecordingIn, RevisionIn
  <1>2. ASSUME UNCHANGED grading
        PROVE  \A q, closed : Written(q, closed)' <=> Written(q, closed)
    <2>1. \A e \in Enrollments : Kept(e)
      BY <1>1, <1>2 DEF grading
    <2>2. QED
      BY <2>1 DEF Written
  <1>3. ASSUME NEW r \in Requests, Recorded(r)
        PROVE  Added(r)
    <2>0. PICK f \in Enrollments : f = call[r].target
      BY <1>3, RecordedExplains
    <2>1. /\ history' = history /\ history[f] = <<>>
          /\ \A e \in Enrollments \ {f} : grade'[e] = grade[e]
          /\ grade'[f].recordedBy = r /\ grade'[f].recordedAfterClosure = after[r]
      BY <1>3, <2>0, RecordedExplains
    <2>2. grade[f] = NoGrade /\ grade'[f] # NoGrade
      <3>1. grade' = [grade EXCEPT ![f] =
              [score |-> r, revision |-> 0, recordedBy |-> r,
               recordedAfterClosure |-> after[r],
               recordingExplained |-> after[r] /\ call[r].explained]]
        BY <1>3, <2>0 DEF Recorded, CreateFinalGrade
      <3>2. [score |-> r, revision |-> 0, recordedBy |-> r,
             recordedAfterClosure |-> after[r],
             recordingExplained |-> after[r] /\ call[r].explained] \in Grades
        BY DEF HistoryInv, TypeInv, TypeOK, Calls, RecordCalls, ReviseCalls, CloseCalls,
               Grades
      <3>3. QED
        BY <1>3, <2>0, <3>1, <3>2, NoGradeAssumption
        DEF Recorded, HistoryInv, TypeInv, TypeOK
    <2>3. \A e \in Enrollments \ {f} : Kept(e)
      BY <1>1, <2>1
    <2>4. \A q, closed :
            /\ ~RecordingIn(f, q, closed) /\ ~RevisionIn(f, q, closed)
            /\ RecordingIn(f, q, closed)' <=> (q = r /\ closed = after[r])
            /\ ~RevisionIn(f, q, closed)'
      <3>1. Len(history[f]) = 0 /\ Len(history'[f]) = 0
        BY <2>1
      <3>2. \A q, closed : ~RevisionIn(f, q, closed) /\ ~RevisionIn(f, q, closed)'
        BY <3>1 DEF RevisionIn
      <3>3. \A q, closed : /\ ~RecordingIn(f, q, closed)
                           /\ RecordingIn(f, q, closed)' <=> (q = r /\ closed = after[r])
        BY <2>1, <2>2 DEF RecordingIn
      <3>4. QED
        BY <3>2, <3>3
    <2>5. ASSUME NEW q, NEW closed
          PROVE  Written(q, closed)' <=> Written(q, closed) \/ (q = r /\ closed = after[r])
      <3>1. \A e \in Enrollments : e # f =>
              /\ RecordingIn(e, q, closed)' <=> RecordingIn(e, q, closed)
              /\ RevisionIn(e, q, closed)' <=> RevisionIn(e, q, closed)
        BY <2>3
      <3>2. QED
        BY <2>4, <3>1 DEF Written
    <2>6. QED
      BY <2>5
  <1>4. ASSUME NEW r \in Requests, Revised(r)
        PROVE  Added(r)
    <2>1. PICK f \in Enrollments : f = call[r].target
      BY <1>4, RevisedTarget
    <2>2. PICK n \in Nat : n = Len(history[f])
      BY <1>4, <2>1, RevisedTarget
    <2>3. \A e \in Enrollments \ {f} : Kept(e)
      BY <1>1, <1>4, <2>1, RevisedElsewhere
    <2>4. \A q, closed : RecordingIn(f, q, closed)' <=> RecordingIn(f, q, closed)
      <3>1. /\ grade'[f] # NoGrade /\ grade[f] # NoGrade
            /\ SameRecording(grade'[f], grade[f])
        BY <1>4, <2>1, <2>2, RevisedFields, RevisedTarget
      <3>2. QED
        BY <3>1 DEF RecordingIn, SameRecording
    <2>5. \A q, closed : RevisionIn(f, q, closed)' <=>
            RevisionIn(f, q, closed) \/ (q = r /\ closed = after[r])
      <3>1. Len(history'[f]) = n + 1 /\ \A i \in 1..n : history'[f][i] = history[f][i]
        BY <1>4, <2>1, <2>2, RevisedLength, RevisedPrefix
      <3>2. history'[f][n + 1].replacement = r /\ history'[f][n + 1].afterClosure = after[r]
        <4>1. history'[f][n + 1] =
                [number |-> n + 1, previous |-> grade[f].score,
                 replacement |-> r, afterClosure |-> after[r]]
          BY <1>4, <2>1, <2>2, RevisedRow
        <4>2. QED
          BY <4>1
      <3>3. 1..(n + 1) = 1..n \cup {n + 1}
        OBVIOUS
      <3>4. QED
        BY <2>2, <3>1, <3>2, <3>3 DEF RevisionIn
    <2>6. QED
      BY <2>3, <2>4, <2>5 DEF Written
  <1>5. \A r \in Requests : Recorded(r) \/ Revised(r) => Added(r) /\ after' = after
    BY <1>3, <1>4 DEF Recorded, CreateFinalGrade, Revised, ReviseFinalGrade
  <1>6. ASSUME NEW r \in Requests, Recorded(r) \/ Revised(r)
        PROVE  after'[r] = after[r] /\ Written(r, after[r])'
    <2>1. PICK flag : flag = after[r] /\ flag = after'[r]
      BY <1>5, <1>6
    <2>2. Written(r, flag)'
      BY <1>5, <1>6, <2>1
    <2>3. QED
      BY <2>1, <2>2 DEF Written, RecordingIn, RevisionIn
  <1>7. CASE UNCHANGED grading
    BY <1>2, <1>6, <1>7
  <1>8. ASSUME NEW r \in Requests, Recorded(r) \/ Revised(r)
        PROVE  Added(r)
    BY <1>5, <1>8
  <1>9. QED
    BY <1>6, <1>7, <1>8, GradingMoves

\* Who is about to write, close or report is where it was, or has just taken
\* the step before.
LEMMA WriterMoves ==
  ASSUME TypeInv, [Next]_vars, NEW q \in Requests
  PROVE  /\ pc'[q] = "write" =>
               (pc[q] = "write" /\ after'[q] = after[q]) \/ RecordIntent(q)
         /\ pc'[q] = "confirm" =>
               \/ pc[q] = "confirm" /\ after'[q] = after[q]
               \/ (Recorded(q) \/ Revised(q)) /\ after'[q] = after[q]
         /\ pc'[q] \in CloseSteps =>
               pc[q] \in CloseSteps \/ (Start(q) /\ call[q].kind = "close")
         /\ pc'[q] \in {"closeLock", "closeCommit"} =>
               pc[q] \in {"closeLock", "closeCommit"} \/ RecordCloseIntent(q)
  <1> DEFINE Same == pc'[q] = pc[q] /\ after'[q] = after[q]
             Fails == pc'[q] \notin {"write", "confirm"} \cup CloseSteps
  <1> USE DEF TypeInv, TypeOK, Goto, CloseSteps
  <1>1. ASSUME NEW r \in Requests, r # q,
               Start(r) \/ Progress(r) \/ Abort(r) \/ LoseGuard(r)
        PROVE  Same
    <2>1. \A step : Goto(r, step) => pc'[q] = pc[q]
      BY <1>1
    <2>2. CASE Start(r) \/ Abort(r) \/ LoseGuard(r) \/ CloseStep(r)
      BY <2>1, <2>2
      DEF Start, Abort, LoseGuard, local, CloseStep, GetTerm, RecordCloseIntent,
          TryCloseLock, CommitClose, Refuse
    <2>3. CASE CheckClosure(r)
      BY <1>1, <2>1, <2>3 DEF CheckClosure, Refuse
    <2>4. CASE GradeStep(r) /\ ~CheckClosure(r)
      BY <2>1, <2>4
      DEF GradeStep, ResolveTarget, LoadGrade, EnterGuard, RecordIntent,
          CreateFinalGrade, ReviseFinalGrade, RecordSuccess, LeaveGuard, Refuse
    <2>5. QED
      BY <1>1, <2>2, <2>3, <2>4 DEF Progress
  <1>2. CASE Start(q)
    BY <1>2 DEF Start
  <1>3. CASE Abort(q) \/ LeaveGuard(q) \/ ResolveTarget(q) \/ LoadGrade(q) \/ EnterGuard(q)
    <2>1. Fails
      BY <1>3 DEF Abort, LeaveGuard, ResolveTarget, LoadGrade, EnterGuard, Refuse
    <2>2. QED
      BY <2>1
  <1>4. CASE LoseGuard(q)
    BY <1>4 DEF LoseGuard, local
  <1>5. CASE CheckClosure(q)
    <2>1. pc'[q] \in {"intent", "failed"}
      BY <1>5 DEF CheckClosure, Refuse
    <2>2. QED
      BY <2>1
  <1>6. CASE RecordIntent(q)
    BY <1>6 DEF RecordIntent
  <1>7. CASE CreateFinalGrade(q) \/ ReviseFinalGrade(q)
    <2>1. /\ after'[q] = after[q] /\ pc'[q] \in {"confirm", "failed"}
          /\ pc'[q] = "confirm" => Recorded(q) \/ Revised(q)
      BY <1>7 DEF CreateFinalGrade, ReviseFinalGrade, Recorded, Revised, Refuse
    <2>2. QED
      BY <2>1
  <1>8. CASE RecordSuccess(q)
    BY <1>8 DEF RecordSuccess
  <1>9. CASE CloseStep(q)
    <2>1. CASE GetTerm(q)
      BY <2>1 DEF GetTerm
    <2>2. CASE RecordCloseIntent(q)
      BY <2>2 DEF RecordCloseIntent
    <2>3. CASE TryCloseLock(q)
      <3>1. pc[q] = "closeLock" /\ pc'[q] \in {"closeCommit", "failed"}
        BY <2>3 DEF TryCloseLock, Refuse
      <3>2. QED
        BY <3>1
    <2>4. CASE CommitClose(q)
      BY <2>4 DEF CommitClose
    <2>5. QED
      BY <1>9, <2>1, <2>2, <2>3, <2>4 DEF CloseStep
  <1>10. CASE UNCHANGED vars \/ \E e \in Enrollments : Withdraw(e)
    BY <1>10 DEF vars, local, Withdraw
  <1>11. CASE Same
    BY <1>11
  <1>12. QED
    BY <1>1, <1>2, <1>3, <1>4, <1>5, <1>6, <1>7, <1>8, <1>9, <1>10, <1>11
    DEF Next, Progress, GradeStep, Quiescent

\* The audit log only grows: by an intent before a write or a closure, or by the
\* success of what was written.
LEMMA AuditMoves ==
  ASSUME [Next]_vars
  PROVE  /\ audit \subseteq audit'
         /\ \A event \in audit' \ audit : event.outcome = "succeeded" =>
               \E r \in Requests : /\ pc[r] = "confirm"
                                   /\ event.by = r /\ event.afterClosure = after[r]
         /\ \A r \in Requests :
               /\ RecordIntent(r) => Announced(r, after[r])'
               /\ RecordCloseIntent(r) => Announced(r, FALSE)'
  <1>1. \A r \in Requests : /\ RecordIntent(r) => Announced(r, after[r])'
                            /\ RecordCloseIntent(r) => Announced(r, FALSE)'
    BY DEF RecordIntent, RecordCloseIntent, Announced, Log
  <1>2. ASSUME NEW r \in Requests, RecordIntent(r) \/ RecordCloseIntent(r)
        PROVE  /\ audit \subseteq audit'
               /\ \A event \in audit' \ audit : event.outcome # "succeeded"
    BY <1>2 DEF RecordIntent, RecordCloseIntent, Log
  <1>3. ASSUME NEW r \in Requests, RecordSuccess(r)
        PROVE  /\ pc[r] = "confirm" /\ audit \subseteq audit'
               /\ \A event \in audit' \ audit :
                     event.by = r /\ event.afterClosure = after[r]
    BY <1>3 DEF RecordSuccess, Log
  <1>4. \/ audit' = audit
        \/ \E r \in Requests : RecordIntent(r) \/ RecordCloseIntent(r) \/ RecordSuccess(r)
    BY DEF Next, vars, Start, Abort, LoseGuard, Progress, GradeStep, CloseStep,
       ResolveTarget, LoadGrade, EnterGuard, CheckClosure, CreateFinalGrade,
       ReviseFinalGrade, LeaveGuard, GetTerm, TryCloseLock, CommitClose, Withdraw,
       Quiescent
  <1>5. QED
    BY <1>1, <1>2, <1>3, <1>4

\* The audit log keeps up with every step.
LEMMA AuditStep == AuditInv /\ [Next]_vars => AuditInv'
  <1> SUFFICES ASSUME AuditInv, [Next]_vars PROVE AuditInv'
    OBVIOUS
  <1>1. HistoryInv /\ TypeInv
    BY DEF AuditInv, HistoryInv
  <1>2. HistoryInv'
    BY <1>1, TypeStep, ExplainsStep, SeenStep, ExpectedStep DEF HistoryInv
  <1>3. /\ audit \subseteq audit' /\ call' = call
        /\ \A r, closed : Announced(r, closed) => Announced(r, closed)'
    BY AuditMoves, CallsFixed DEF Announced
  <1>4. /\ \A r, closed : Written(r, closed) => Written(r, closed)'
        /\ \A r, closed : Written(r, closed)' =>
              \/ Written(r, closed)
              \/ /\ r \in Requests /\ closed = after[r]
                 /\ Recorded(r) \/ Revised(r)
        /\ \A r \in Requests : Recorded(r) \/ Revised(r) =>
              after'[r] = after[r] /\ Written(r, after[r])'
    BY <1>1, WrittenMoves
  <1>5. \A r \in Requests : Recorded(r) \/ Revised(r) => pc[r] = "write"
    BY DEF Recorded, CreateFinalGrade, Revised, ReviseFinalGrade
  <1>6. IntentsPrecede'
    <2> SUFFICES ASSUME NEW r \in Requests
                 PROVE  /\ pc'[r] = "write" => Announced(r, after[r])'
                        /\ pc'[r] \in CloseSteps => call[r].kind = "close"
                        /\ pc'[r] \in {"closeLock", "closeCommit"} => Announced(r, FALSE)'
                        /\ pc'[r] = "confirm" => Written(r, after[r])'
      BY <1>3 DEF IntentsPrecede
    <2>1. ASSUME after'[r] = after[r], Announced(r, after[r])
          PROVE  Announced(r, after[r])'
      BY <1>3, <2>1 DEF Announced
    <2>2. ASSUME after'[r] = after[r], Written(r, after[r])
          PROVE  Written(r, after[r])'
      BY <1>4, <2>2 DEF Written, RecordingIn, RevisionIn
    <2>3. pc'[r] = "write" => Announced(r, after[r])'
      <3>1. RecordIntent(r) => Announced(r, after[r])'
        BY AuditMoves
      <3>2. QED
        BY <1>1, <2>1, <3>1, WriterMoves DEF AuditInv, IntentsPrecede
    <2>4. pc'[r] = "confirm" => Written(r, after[r])'
      BY <1>1, <1>4, <2>2, WriterMoves DEF AuditInv, IntentsPrecede
    <2>5. pc'[r] \in CloseSteps => call[r].kind = "close"
      BY <1>1, WriterMoves DEF AuditInv, IntentsPrecede
    <2>6. pc'[r] \in {"closeLock", "closeCommit"} => Announced(r, FALSE)'
      <3>1. RecordCloseIntent(r) => Announced(r, FALSE)'
        BY AuditMoves
      <3>2. QED
        BY <1>1, <1>3, <3>1, WriterMoves DEF AuditInv, IntentsPrecede
    <2>7. QED
      BY <2>3, <2>4, <2>5, <2>6
  <1>7. WritesAnnounced'
    <2> SUFFICES ASSUME NEW r \in Requests, NEW closed \in BOOLEAN, Written(r, closed)'
                 PROVE  Announced(r, closed)'
      BY DEF WritesAnnounced
    <2>1. CASE Written(r, closed)
      BY <1>3, <2>1 DEF AuditInv, WritesAnnounced
    <2>2. CASE closed = after[r] /\ pc[r] = "write"
      BY <1>3, <2>2 DEF AuditInv, IntentsPrecede
    <2>3. QED
      BY <1>4, <1>5, <2>1, <2>2
  <1>8. ClosureAnnounced'
    <2>1. CASE termClosed' = termClosed
      BY <1>3, <2>1 DEF AuditInv, ClosureAnnounced
    <2>2. CASE termClosed' # termClosed
      <3>1. PICK r \in Requests : pc[r] = "closeCommit"
        BY <2>2, OnlyCloseCloses DEF CommitClose
      <3>2. call[r].kind = "close" /\ Announced(r, FALSE)
        BY <3>1 DEF AuditInv, IntentsPrecede, CloseSteps
      <3>3. QED
        BY <1>3, <3>2 DEF ClosureAnnounced
    <2>3. QED
      BY <2>1, <2>2
  <1>9. SuccessesWritten'
    <2> SUFFICES ASSUME NEW event \in audit', event.outcome = "succeeded"
                 PROVE  Written(event.by, event.afterClosure)'
      BY DEF SuccessesWritten
    <2>1. Written(event.by, event.afterClosure)
      <3>1. CASE event \in audit
        BY <3>1 DEF AuditInv, SuccessesWritten
      <3>2. CASE event \notin audit
        <4>1. PICK r \in Requests : /\ pc[r] = "confirm"
                                    /\ event.by = r /\ event.afterClosure = after[r]
          BY <3>2, AuditMoves
        <4>2. QED
          BY <4>1 DEF AuditInv, IntentsPrecede
      <3>3. QED
        BY <3>1, <3>2
    <2>2. QED
      BY <1>4, <2>1, Zenon
  <1>10. QED
    BY <1>2, <1>6, <1>7, <1>8, <1>9 DEF AuditInv

\* Every grade, every revision and the closure were announced with the flag they
\* are stored with, and success is reported of what is stored: four transactions of
\* three modules, in whatever order those of other calls come between.
THEOREM AuditIsTrue == Spec => []AuditTellsTheTruth
  <1>1. AuditInv => AuditTellsTheTruth
    BY DEF AuditInv, WritesAnnounced, ClosureAnnounced, SuccessesWritten, Written,
       RecordingIn, RevisionIn, Announced, AuditTellsTheTruth
  <1>2. QED
    BY AuditInit, AuditStep, <1>1, PTL DEF Spec

----------------------------------------------------------------------------
(***************************************************************************)
(* Grades against closure, and the atomic ledger.                          *)
(***************************************************************************)

\* A grade is written with a flag, and a permission, that hold at that moment.
LEMMA WriteIsChecked ==
  ASSUME ProtocolInv, NEW r \in Requests \ Unreliable, Recorded(r) \/ Revised(r)
  PROVE  /\ after[r] = termClosed
         /\ termClosed => MayAmendClosedTerm(r)
  <1>1. pc[r] = "write"
    BY DEF Recorded, CreateFinalGrade, Revised, ReviseFinalGrade
  <1>2. QED
    BY <1>1 DEF ProtocolInv, CheckInv

\* Only the target of the write changes, and it names its writer and the flag
\* the writer read.
LEMMA WriteShowsItsFlag ==
  ASSUME HistoryInv, NEW r \in Requests, Recorded(r) \/ Revised(r),
         NEW e \in Enrollments, grade'[e] # grade[e]
  PROVE  Writer(e)' = r /\ StoredFlag(e)' = after[r]
  <1>1. CASE Recorded(r)
    <2>1. e = call[r].target
      BY <1>1, RecordedExplains
    <2>2. /\ history'[e] = <<>> /\ grade'[e].score = r
          /\ grade'[e].recordedAfterClosure = after[r]
      BY <1>1, <2>1, RecordedExplains
    <2>3. QED
      BY <2>2 DEF Writer, StoredFlag
  <1>2. CASE Revised(r)
    <2>1. e = call[r].target
      BY <1>2, RevisedElsewhere
    <2>2. PICK n \in Nat : n = Len(history[e])
      BY <1>2, <2>1, RevisedTarget
    <2>3. grade'[e].score = r
      BY <1>2, <2>1, <2>2, RevisedFields
    <2>4. history'[e] # <<>> /\ Len(history'[e]) = n + 1
      BY <1>2, <2>1, <2>2, RevisedLength
    <2>5. history'[e][n + 1] =
            [number |-> n + 1, previous |-> grade[e].score,
             replacement |-> r, afterClosure |-> after[r]]
      BY <1>2, <2>1, <2>2, RevisedRow
    <2>6. history'[e][n + 1].afterClosure = after[r]
      BY <2>5
    <2>7. QED
      BY <2>3, <2>4, <2>6 DEF Writer, StoredFlag
  <1>3. QED
    BY <1>1, <1>2

\* No closure slips between the check of a grade request and its commit.
THEOREM FlagHolds == Spec => ClosureFlagTrueAtCommit
  <1> DEFINE FlagTrue == \A e \in Enrollments :
               grade'[e] # grade[e] /\ GuardKept(e)' => StoredFlag(e)' = termClosed
  <1>1. ASSUME ProtocolInv, HistoryInv, [Next]_vars
        PROVE  FlagTrue
    <2>1. ASSUME NEW e \in Enrollments, grade'[e] # grade[e], GuardKept(e)'
          PROVE  StoredFlag(e)' = termClosed
      <3>1. PICK r \in Requests : Recorded(r) \/ Revised(r)
        BY <1>1, <2>1, GradingMoves DEF grading
      <3>2. Writer(e)' = r /\ StoredFlag(e)' = after[r]
        BY <1>1, <2>1, <3>1, WriteShowsItsFlag
      <3>3. r \notin Unreliable
        BY <2>1, <3>2 DEF GuardKept
      <3>4. QED
        BY <1>1, <3>1, <3>2, <3>3, WriteIsChecked
    <2>2. QED
      BY <2>1
  <1>2. QED
    BY ProtocolCorrect, HistoryCorrect, <1>1, PTL DEF Spec, ClosureFlagTrueAtCommit

\* A closed term is only amended with the permission and an explanation.
THEOREM AmendmentNeeded == Spec => ClosedTermNeedsAmendment
  <1> DEFINE Amends == \A e \in Enrollments :
               grade'[e] # grade[e] /\ termClosed /\ GuardKept(e)'
                  => MayAmendClosedTerm(Writer(e)')
  <1>1. ASSUME ProtocolInv, HistoryInv, [Next]_vars
        PROVE  Amends
    <2>1. ASSUME NEW e \in Enrollments, grade'[e] # grade[e], termClosed,
                 GuardKept(e)'
          PROVE  MayAmendClosedTerm(Writer(e)')
      <3>1. PICK r \in Requests : Recorded(r) \/ Revised(r)
        BY <1>1, <2>1, GradingMoves DEF grading
      <3>2. Writer(e)' = r
        BY <1>1, <2>1, <3>1, WriteShowsItsFlag
      <3>3. r \notin Unreliable
        BY <2>1, <3>2 DEF GuardKept
      <3>4. MayAmendClosedTerm(r)
        BY <1>1, <2>1, <3>1, <3>3, WriteIsChecked
      <3>5. QED
        BY <3>2, <3>4
    <2>2. QED
      BY <2>1
  <1>2. QED
    BY ProtocolCorrect, HistoryCorrect, <1>1, PTL DEF Spec, ClosedTermNeedsAmendment

\* With guards that hold, every step of the protocol is a step of the ledger,
\* or none.
LEMMA LedgerStep ==
  ASSUME Unreliable = {}, ProtocolInv, HistoryInv, [Next]_vars
  PROVE  [Ledger!Next]_(Ledger!ledger)
  <1> USE DEF Ledger!ledger
  <1>1. CASE UNCHANGED grading /\ termClosed' = termClosed
    BY <1>1 DEF grading
  <1>2. CASE termClosed' # termClosed
    <2>1. PICK r \in Requests : CommitClose(r)
      BY <1>2, OnlyCloseCloses
    <2>2. Ledger!Close
      BY <2>1 DEF CommitClose, grading, Ledger!Close
    <2>3. QED
      BY <2>2 DEF Ledger!Next
  <1>3. ASSUME NEW r \in Requests, Recorded(r), termClosed' = termClosed
        PROVE  Ledger!Next
    <2>1. PICK e \in Enrollments : e = call[r].target
      BY <1>3, RecordedExplains
    <2>2. after[r] = termClosed /\ (termClosed => call[r].explained)
      BY <1>3, WriteIsChecked DEF MayAmendClosedTerm
    <2>3. after[r] \in BOOLEAN /\ call[r].explained \in BOOLEAN
      BY DEF HistoryInv, TypeInv, TypeOK, Calls, RecordCalls, ReviseCalls, CloseCalls
    <2>4. (after[r] /\ call[r].explained) = termClosed
      BY <2>2, <2>3
    <2>5. /\ grade[e] = NoGrade /\ history' = history
          /\ grade' = [grade EXCEPT ![e] =
                [score |-> r, revision |-> 0, recordedBy |-> r,
                 recordedAfterClosure |-> after[r],
                 recordingExplained |-> after[r] /\ call[r].explained]]
      BY <1>3, <2>1 DEF Recorded, CreateFinalGrade
    <2>6. Ledger!Record(e, r)
      BY <1>3, <2>2, <2>4, <2>5 DEF Ledger!Record
    <2>7. QED
      BY <2>6 DEF Ledger!Next
  <1>4. ASSUME NEW r \in Requests, Revised(r), termClosed' = termClosed
        PROVE  Ledger!Next
    <2>1. PICK e \in Enrollments : e = call[r].target
      BY <1>4, RevisedTarget
    <2>2. grade[e] # NoGrade
      BY <1>4, <2>1, RevisedTarget
    <2>3. after[r] = termClosed
      BY <1>4, WriteIsChecked
    <2>4. /\ grade[e] = seen[r]
          /\ grade' = [grade EXCEPT ![e] =
               [seen[r] EXCEPT !.score = r, !.revision = seen[r].revision + 1]]
          /\ history' = [history EXCEPT ![e] = Append(@,
               [number |-> seen[r].revision + 1, previous |-> seen[r].score,
                replacement |-> r, afterClosure |-> after[r]])]
      BY <1>4, <2>1, RevisedExplains
    <2>5. Ledger!Revise(e, r)
      BY <1>4, <2>2, <2>3, <2>4 DEF Ledger!Revise
    <2>6. QED
      BY <2>5 DEF Ledger!Next
  <1>5. QED
    BY <1>1, <1>2, <1>3, <1>4, GradingMoves

\* The protocol of locks, re-reads and separate transactions implements the
\* atomic ledger when no guard connection is lost.
THEOREM LedgerImplemented ==
  ASSUME Unreliable = {}
  PROVE  Spec => ImplementsLedger
  <1>1. Init => Ledger!Init
    BY DEF Init, Ledger!Init
  <1>2. ProtocolInv /\ HistoryInv /\ [Next]_vars
           => [Ledger!Next]_(Ledger!ledger)
    BY LedgerStep
  <1>3. QED
    BY ProtocolCorrect, HistoryCorrect, <1>1, <1>2, PTL
    DEF Spec, ImplementsLedger, Ledger!Spec
=============================================================================
