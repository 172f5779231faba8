-------------------------- MODULE CourseSelection --------------------------
(***************************************************************************)
(* Course selection and enrollment transitions of one term.                *)
(*                                                                         *)
(* A submission plans without locks, records its intent, then evaluates    *)
(* again and saves in one transaction; a decision evaluates and saves in   *)
(* one transaction.  Both hold the student's academic enrollment and the   *)
(* curriculum of the program exclusively, and the term and the selection   *)
(* policy in share mode, from the evaluation to the commit; the offerings  *)
(* are locked only while the enrollments are saved.  A student transition  *)
(* takes the academic enrollment, a course transition only its own row and *)
(* the term, so it may commit between an evaluation and its commit.        *)
(***************************************************************************)
EXTENDS Integers, FiniteSets, FiniteSetsExt, Functions

CONSTANTS
    Students,      \* student academic enrollments
    Programs,      \* programs, each with a policy and a curriculum
    ProgramOf,     \* the program of each student
    Offerings,     \* course offerings of the term, one per course
    Capacity,      \* the seats of each offering, fixed at its creation
    Clashes,       \* sets of two offerings whose meeting windows overlap
    Curricula,     \* each program's curriculum versions: credits, prerequisites
    Policies,      \* each program's policies: credit limit, approval required
    Requests,      \* submissions, each naming its request
    StudentOf,     \* the student of each request
    Selected,      \* the offerings of each request
    Decisions,     \* calls that approve or reject
    RequestOf,     \* the request each decision is about
    Approves       \* the decisions that approve

ASSUME CapacityAssumption ==
    /\ IsFiniteSet(Students) /\ IsFiniteSet(Offerings)
    /\ Capacity \in [Offerings -> Nat] /\ Clashes \subseteq SUBSET Offerings
ASSUME CallsAssumption ==
    /\ Requests \cap Decisions = {}
    /\ ProgramOf \in [Students -> Programs]
    /\ StudentOf \in [Requests -> Students]
    /\ Selected \in [Requests -> (SUBSET Offerings) \ {{}}]
    /\ RequestOf \in [Decisions -> Requests] /\ Approves \subseteq Decisions

\* No course is its own prerequisite; one outside the curriculum has no credits.
ASSUME CurriculaAssumption == \A p \in Programs : \A version \in Curricula[p] :
    /\ version.credits \in [Offerings -> Nat]
    /\ version.requires \in [Offerings -> SUBSET Offerings]
    /\ \A o \in Offerings : /\ o \notin version.requires[o]
                             /\ version.credits[o] = 0 => version.requires[o] = {}
ASSUME PoliciesAssumption == \A p \in Programs : \A rules \in Policies[p] : rules.limit \in Nat

VARIABLES
    academic,      \* StudentAcademicEnrollment.status
    course,        \* each student's CourseEnrollment in each offering
    request,       \* CourseSelectionRequest by identity
    curriculum, policy,  \* the configuration of each program
    closed, late,  \* the term is closed; the registration deadline has passed
    pc,            \* the progress of each submission and decision
    plan           \* what each submission planned

setup == <<curriculum, policy, closed, late>>
calls == <<pc, plan>>
vars == <<academic, course, request, setup, calls>>

AcademicStatuses == {"none", "active", "withdrawn", "completed"}
CourseStatuses == {"none", "enrolled", "withdrawn", "completed"}
RequestStatuses == {"none", "pending", "approved", "rejected"}

\* A rule that failed and the courses or offerings it failed for.
Violations == [code : {"deadline", "credits", "prerequisite", "clash"},
               related : SUBSET Offerings]

TypeOK ==
    /\ academic \in [Students -> AcademicStatuses]
    /\ \A s \in Students, o \in Offerings :
          course[s][o].status \in CourseStatuses /\ course[s][o].credits \in Nat
    /\ \A r \in Requests : request[r].status \in RequestStatuses
                           /\ request[r].override \subseteq Violations
    /\ \A p \in Programs : curriculum[p] \in Curricula[p] /\ policy[p] \in Policies[p]
    /\ closed \in BOOLEAN /\ late \in BOOLEAN
    /\ pc \in [Requests \cup Decisions -> {"idle", "planned", "open", "saved", "failed"}]

NoCourse == [status |-> "none", credits |-> 0]
NoRequest == [status |-> "none", credits |-> 0, override |-> {}]
NoPlan == [late |-> FALSE, policy |-> {}, curriculum |-> {}, violations |-> {}]

Init ==
    /\ academic = [s \in Students |-> "none"]
    /\ course = [s \in Students |-> [o \in Offerings |-> NoCourse]]
    /\ request = [r \in Requests |-> NoRequest]
    /\ curriculum \in [Programs -> UNION Range(Curricula)]
    /\ policy \in [Programs -> UNION Range(Policies)]
    /\ \A p \in Programs : curriculum[p] \in Curricula[p] /\ policy[p] \in Policies[p]
    /\ closed = FALSE /\ late = FALSE
    /\ pc = [x \in Requests \cup Decisions |-> "idle"]
    /\ plan = [r \in Requests |-> NoPlan]

----------------------------------------------------------------------------
(***************************************************************************)
(* The rules of a selection.                                               *)
(***************************************************************************)

In(s, status) == {o \in Offerings : course[s][o].status = status}

\* requested_credits: what the program's curriculum gives the selected courses.
\* A course outside the curriculum has no credits there.
CreditsOf(offerings, version) == MapThenSumSet(LAMBDA o : version.credits[o], offerings)

ActiveCredits(s) == MapThenSumSet(LAMBDA o : course[s][o].credits, In(s, "enrolled"))

\* evaluate_course_selection.
Evaluate(s, offerings, version, rules, pastDeadline) ==
    {v \in Violations : v.code = "deadline" /\ v.related = {} /\ pastDeadline}
    \cup {[code |-> "prerequisite",
           related |-> {o} \cup (version.requires[o] \ In(s, "completed"))] :
             o \in {p \in offerings : \/ version.credits[p] = 0
                                      \/ ~(version.requires[p] \subseteq In(s, "completed"))}}
    \cup {v \in Violations : v.code = "credits" /\ v.related = {}
             /\ ActiveCredits(s) + CreditsOf(offerings, version) > rules.limit}
    \cup {[code |-> "clash", related |-> pair] :
             pair \in {c \in Clashes : /\ c \cap offerings # {}
                                       /\ c \subseteq offerings \cup In(s, "enrolled")}}
    \cup {[code |-> "clash", related |-> {o}] : o \in offerings \cap In(s, "enrolled")}

\* The override as it is stored and read back: one row per related identifier,
\* regrouped by rule code.
Persisted(override) ==
    {[code |-> v.code, related |-> UNION {w.related : w \in
        {u \in override : u.code = v.code}}] : v \in override}

\* _selection_violation_is_covered.
Covered(v, override) ==
    \E w \in Persisted(override) : w.code = v.code /\ v.related \subseteq w.related

\* _check_and_lock_capacity, and the unique row of a student in an offering: a
\* student who left a course does not select it again.
Seated(o) == {s \in Students : course[s][o].status = "enrolled"}

HasSeats(s, offerings) == \A o \in offerings :
    course[s][o].status = "none" /\ Cardinality(Seated(o)) < Capacity[o]

\* Slip: the offerings that are full are left out.
EnrollWhereSeats(s, offerings, version) ==
    course' = [course EXCEPT ![s] = [o \in Offerings |->
        IF o \in offerings /\ HasSeats(s, {o})
        THEN [status |-> "enrolled", credits |-> version.credits[o]] ELSE @[o]]]

\* _build_course_enrollments, saved with the request: all of them or none.
Enroll(s, offerings, version) ==
    /\ \A o \in offerings : version.credits[o] > 0
    /\ HasSeats(s, offerings)
    /\ course' = [course EXCEPT ![s] = [o \in Offerings |->
          IF o \in offerings
          THEN [status |-> "enrolled", credits |-> version.credits[o]] ELSE @[o]]]

----------------------------------------------------------------------------
(***************************************************************************)
(* Locks.  An open transaction holds what its evaluation read.             *)
(***************************************************************************)

RequestIn(x) == IF x \in Requests THEN x ELSE RequestOf[x]
StudentIn(x) == StudentOf[RequestIn(x)]
ProgramIn(x) == ProgramOf[StudentIn(x)]

Open == {x \in Requests \cup Decisions : pc[x] = "open"}

\* A rejection evaluates nothing and so locks neither term nor configuration.
Evaluating == {x \in Open : x \in Requests \cup Approves}

RequestFree(r) == \A x \in Open : RequestIn(x) # r

\* Slip: a selection does not lock the academic enrollment.
StudentFreeAlways(s) == s \in Students

StudentFree(s) == \A x \in Open : StudentIn(x) # s
ProgramFree(p) == \A x \in Evaluating : ProgramIn(x) # p

\* Slip: selections read the term without its share lock.
TermFreeAlways == Open \subseteq Requests \cup Decisions

TermFree == Evaluating = {}

Goto(x, step) == pc' = [pc EXCEPT ![x] = step]

----------------------------------------------------------------------------
(***************************************************************************)
(* Submission.                                                             *)
(***************************************************************************)

CanSelect(s) == academic[s] = "active" /\ ~closed

Plan(r, pastDeadline) ==
    LET s == StudentOf[r]
        p == ProgramOf[s] IN
    [late |-> pastDeadline, policy |-> policy[p], curriculum |-> curriculum[p],
     violations |-> Evaluate(s, Selected[r], curriculum[p], policy[p], pastDeadline)]

\* The unlocked evaluation.  A failed rule needs an actor with the override
\* permission, who gives a reason; the intent is recorded before any lock.
PlanSubmission(r, mayOverride) ==
    /\ pc[r] = "idle"
    /\ CanSelect(StudentOf[r])
    /\ Plan(r, late).violations # {} => mayOverride
    /\ plan' = [plan EXCEPT ![r] = Plan(r, late)]
    /\ Goto(r, "planned")
    /\ UNCHANGED <<academic, course, request, setup>>

\* submission_transaction and _require_stable_submission_plan: locked, the
\* evaluation at the submission time comes out as planned.
OpenSubmission(r) ==
    /\ pc[r] = "planned"
    /\ StudentFree(StudentIn(r)) /\ ProgramFree(ProgramIn(r))
    /\ CanSelect(StudentIn(r))
    /\ Plan(r, plan[r].late) = plan[r]
    /\ Goto(r, "open")
    /\ UNCHANGED <<academic, course, request, setup, plan>>

\* save_submission: a policy that requires approval leaves the request pending,
\* otherwise it is approved and its courses are enrolled with it.
SaveSubmission(r) ==
    /\ pc[r] = "open"
    /\ LET version == plan[r].curriculum
           pending == plan[r].policy.approval IN
       /\ request' = [request EXCEPT ![r] =
             [status |-> IF pending THEN "pending" ELSE "approved",
              credits |-> CreditsOf(Selected[r], version),
              override |-> plan[r].violations]]
       /\ IF pending THEN UNCHANGED course
          ELSE Enroll(StudentOf[r], Selected[r], version)
    /\ plan' = [plan EXCEPT ![r] = NoPlan]
    /\ Goto(r, "saved")
    /\ UNCHANGED <<academic, setup>>

----------------------------------------------------------------------------
(***************************************************************************)
(* Decision.                                                               *)
(***************************************************************************)

\* _require_current_approval_rules.
StillApprovable(r) ==
    LET s == StudentOf[r]
        p == ProgramOf[s] IN
    /\ CreditsOf(Selected[r], curriculum[p]) = request[r].credits
    /\ \A v \in Evaluate(s, Selected[r], curriculum[p], policy[p], late) :
          Covered(v, request[r].override)

\* Slip: an approval accepts what was valid at the submission.
OpenDecisionAsSubmitted(d) ==
    LET r == RequestOf[d] IN
    /\ pc[d] = "idle" /\ request[r].status = "pending"
    /\ RequestFree(r) /\ StudentFree(StudentOf[r])
    /\ d \in Approves => ProgramFree(ProgramIn(d)) /\ CanSelect(StudentOf[r])
    /\ Goto(d, "open")
    /\ UNCHANGED <<academic, course, request, setup, plan>>

\* decision_transaction: the request row, then the academic enrollment; an
\* approval is evaluated as of the decision.
OpenDecision(d) ==
    LET r == RequestOf[d] IN
    /\ pc[d] = "idle" /\ request[r].status = "pending"
    /\ RequestFree(r) /\ StudentFree(StudentOf[r])
    /\ d \in Approves => /\ ProgramFree(ProgramIn(d))
                         /\ CanSelect(StudentOf[r])
                         /\ StillApprovable(r)
    /\ Goto(d, "open")
    /\ UNCHANGED <<academic, course, request, setup, plan>>

\* save_decision: the request, its approval record and its courses together.
SaveDecision(d) ==
    LET r == RequestOf[d]
        s == StudentOf[r] IN
    /\ pc[d] = "open"
    /\ request' = [request EXCEPT ![r].status =
          IF d \in Approves THEN "approved" ELSE "rejected"]
    /\ IF d \in Approves THEN Enroll(s, Selected[r], curriculum[ProgramOf[s]])
       ELSE UNCHANGED course
    /\ Goto(d, "saved")
    /\ UNCHANGED <<academic, setup, plan>>

\* A refusal, a full offering or the end of the process: the transaction rolls
\* back.  The caller of a refused decision may try again.
Abandon(x) ==
    /\ pc[x] \in {"planned", "open"}
    /\ Goto(x, IF x \in Decisions THEN "idle" ELSE "failed")
    /\ plan' = [r \in Requests |-> IF r = x THEN NoPlan ELSE plan[r]]
    /\ UNCHANGED <<academic, course, request, setup>>

----------------------------------------------------------------------------
(***************************************************************************)
(* Enrollment transitions.                                                 *)
(***************************************************************************)

EnrollStudent(s) ==
    /\ academic[s] = "none"
    /\ academic' = [academic EXCEPT ![s] = "active"]
    /\ UNCHANGED <<course, request, setup, calls>>

\* withdraw_student_enrollment: the enrolled courses go with it, whatever the term.
WithdrawStudent(s) ==
    /\ academic[s] = "active" /\ StudentFree(s)
    /\ academic' = [academic EXCEPT ![s] = "withdrawn"]
    /\ course' = [course EXCEPT ![s] = [o \in Offerings |->
          IF @[o].status = "enrolled" THEN [@[o] EXCEPT !.status = "withdrawn"]
          ELSE @[o]]]
    /\ UNCHANGED <<request, setup, calls>>

CompleteStudent(s) ==
    /\ academic[s] = "active" /\ StudentFree(s)
    /\ In(s, "enrolled") = {}
    /\ academic' = [academic EXCEPT ![s] = "completed"]
    /\ UNCHANGED <<course, request, setup, calls>>

\* A course withdraws while its term is open.
WithdrawCourse(s, o) ==
    /\ course[s][o].status = "enrolled" /\ ~closed
    /\ course' = [course EXCEPT ![s][o].status = "withdrawn"]
    /\ UNCHANGED <<academic, request, setup, calls>>

\* Completion is a finalization and survives closure.
CompleteCourse(s, o) ==
    /\ course[s][o].status = "enrolled"
    /\ course' = [course EXCEPT ![s][o].status = "completed"]
    /\ UNCHANGED <<academic, request, setup, calls>>

----------------------------------------------------------------------------
(***************************************************************************)
(* Term and configuration.                                                 *)
(***************************************************************************)

\* close_term waits for the share locks of the selections.
CloseTerm ==
    /\ ~closed /\ TermFree
    /\ closed' = TRUE
    /\ UNCHANGED <<academic, course, request, curriculum, policy, late, calls>>

PassDeadline ==
    /\ ~late
    /\ late' = TRUE
    /\ UNCHANGED <<academic, course, request, curriculum, policy, closed, calls>>

ConfigureCurriculum(p, version) ==
    /\ version # curriculum[p] /\ ProgramFree(p)
    /\ curriculum' = [curriculum EXCEPT ![p] = version]
    /\ UNCHANGED <<academic, course, request, policy, closed, late, calls>>

ConfigurePolicy(p, rules) ==
    /\ rules # policy[p] /\ ProgramFree(p)
    /\ policy' = [policy EXCEPT ![p] = rules]
    /\ UNCHANGED <<academic, course, request, curriculum, closed, late, calls>>

Next ==
    \/ \E r \in Requests :
          \/ \E mayOverride \in BOOLEAN : PlanSubmission(r, mayOverride)
          \/ OpenSubmission(r) \/ SaveSubmission(r)
    \/ \E d \in Decisions : OpenDecision(d) \/ SaveDecision(d)
    \/ \E x \in Requests \cup Decisions : Abandon(x)
    \/ \E s \in Students : EnrollStudent(s) \/ WithdrawStudent(s) \/ CompleteStudent(s)
    \/ \E s \in Students, o \in Offerings : WithdrawCourse(s, o) \/ CompleteCourse(s, o)
    \/ CloseTerm \/ PassDeadline
    \/ \E p \in Programs : \/ \E version \in Curricula[p] : ConfigureCurriculum(p, version)
                           \/ \E rules \in Policies[p] : ConfigurePolicy(p, rules)

Spec == Init /\ [][Next]_vars
----------------------------------------------------------------------------
(***************************************************************************)
(* Properties.                                                             *)
(***************************************************************************)

\* Whatever submissions, approvals and transitions overlap, an enrolled student
\* has a seat within the capacity of the offering and is active in the program:
\* no approval slips in between a withdrawal or completion and its courses.
EnrolledIsEntitled ==
    /\ \A o \in Offerings : Cardinality(Seated(o)) <= Capacity[o]
    /\ \A s \in Students : In(s, "enrolled") # {} => academic[s] = "active"

\* A request is approved with all of its courses or not at all, a student has a
\* course from one request only, and a request is decided by one decision.  (Of well-typed
\* states.)
SelectionsAreWhole ==
    /\ TypeOK
    /\ \A s \in Students, o \in Offerings :
          LET granted == {r \in Requests : /\ StudentOf[r] = s /\ o \in Selected[r]
                                          /\ request[r].status = "approved"} IN
          Cardinality(granted) = IF course[s][o].status = "none" THEN 0 ELSE 1
    /\ \A d, e \in Decisions :
          pc[d] = "saved" =>
             /\ request[RequestOf[d]].status =
                   IF d \in Approves THEN "approved" ELSE "rejected"
             /\ RequestOf[e] = RequestOf[d] /\ pc[e] = "saved" => e = d

\* docs/11_FIRST_RELEASE_SCOPE.md: "Course-selection approval is a new current-state
\* decision": when the courses are enrolled the term is open, the student active
\* and every rule, as configured at that moment, holds or was overridden.  Only
\* the deadline is the one of the evaluation.
ApprovalIsCurrent ==
    [][\A r \in Requests :
          request[r].status # "approved" /\ request'[r].status = "approved" =>
             LET s == StudentOf[r]
                 p == ProgramOf[s]
                 overridden == {v.code : v \in request'[r].override} IN
             /\ CanSelect(s)
             /\ CreditsOf(Selected[r], curriculum[p]) = request'[r].credits
             /\ \A v \in Evaluate(s, Selected[r], curriculum[p], policy[p], FALSE) :
                   v.code \in overridden]_vars

\* After closure a course only completes, or goes with its withdrawn student: a
\* selection that evaluated the open term cannot commit behind the closure.
ClosedTermSettles ==
    [][\A s \in Students, o \in Offerings :
          closed /\ course'[s][o] # course[s][o] =>
             \/ course'[s][o].status = "completed"
             \/ course'[s][o].status = "withdrawn" /\ academic'[s] = "withdrawn"]_vars

=============================================================================
