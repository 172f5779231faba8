------------------------------ MODULE Admissions ------------------------------
(***************************************************************************)
(* Admissions: applications are reviewed, decided, given a seat of a quota *)
(* and converted into a student with an academic enrollment.               *)
(*                                                                         *)
(* Every call reads the application first and writes it last, in different *)
(* transactions, with other reads, audit appends and the registrations in  *)
(* People and Academics in between.  What it read is only trusted as far as*)
(* the write compares it: the application's status must be the one that was*)
(* read (_lock_application), the quota is recounted under its row lock, and*)
(* a conversion is keyed by its application.  One step of a call is one    *)
(* transaction; the transaction of an acceptance is two, its recount and   *)
(* its commit, for completing a conversion takes no lock of the quota and  *)
(* may come in between.  One program, intake and seat category are         *)
(* modelled, with a fixed policy.  A deposit that is not satisfied ends a  *)
(* conversion before it begins, like any other error (Abort).              *)
(*                                                                         *)
(* Definitions marked "Slip" are mistakes the code does not make; they show*)
(* that the properties would notice.                                       *)
(***************************************************************************)
EXTENDS Integers, FiniteSets, Sequences

CONSTANTS
    Requests,      \* the calls served at a time; a call that has ended makes
                   \* room for the next
    Applications,  \* the applications to the quota
    Stages,        \* the review stages the policy requires
    Outcomes,      \* the decisions that are asked for
    MaxReviews,    \* bound on the review calls
    MaxCapacity,   \* bound on the capacity of the quota
    Nothing        \* an argument or a conversion that is not there

ASSUME BoundsAssumption == MaxReviews \in Nat /\ MaxCapacity \in Nat \ {0}
ASSUME ApplicationsAssumption == IsFiniteSet(Applications)
ASSUME NothingAssumption == Nothing \notin Requests

Statuses == {"draft", "submitted", "under_review", "waitlisted", "accepted",
             "rejected", "enrolled"}
Decisions == {"accepted", "rejected", "waitlisted"}
ASSUME OutcomesAssumption == Outcomes \subseteq Decisions
ReviewOutcomes == {"passed", "not_passed"}
Reviews == [stage : Stages, outcome : ReviewOutcomes, at : 1..MaxReviews]

\* A conversion: its identifiers are drawn by the call that begins it.
Conversions == [id : Requests, completed : BOOLEAN]
NoConversion == [id |-> Nothing, completed |-> FALSE]

VARIABLES
    status,        \* the lifecycle state of each application
    reviews,       \* its reviews, each with the time it was completed at
    decisions,     \* its append-only decision history
    seat,          \* its reservation
    expired,       \* the applications whose reservation has run out
    conversion,    \* its enrollment conversion
    capacity,      \* the seats of the quota
    students,      \* People: student profiles, by application and conversion
    enrollments,   \* Academics: academic enrollments, likewise
    intakeClosed,  \* Academics: the intake term is closed
    audit,         \* decision events
    clock,         \* the completion times handed out
    op             \* what each call is doing, and what it has read

records == <<status, reviews, decisions, seat, conversion, capacity>>
world == <<expired, students, enrollments, intakeClosed, audit, clock>>
vars == <<records, world, op>>

\* What a call does next; no two kinds of calls have a step in common.
Steps == {"submit", "review",
          "intake", "reviews", "intent", "decide", "commit", "confirm",
          "conversion", "seat", "begin", "student", "term", "enrollment", "complete"}

\* A call works with the status it has read, the review it stores, the outcome
\* and the time (as the reservations expired by then) of its decision, the
\* applications whose seats its recount has found, or the conversion it has found
\* or begun.
Idle == [step |-> "idle", app |-> Nothing, seen |-> Nothing, review |-> Nothing,
         outcome |-> Nothing, expired |-> {}, counted |-> {}, held |-> NoConversion]
Operations ==
    [step : Steps, app : Applications, seen : Statuses \cup {Nothing},
     review : Reviews \cup {Nothing}, outcome : Decisions \cup {Nothing},
     expired : SUBSET Applications, counted : SUBSET Applications,
     held : Conversions \cup {NoConversion}]

TypeOK ==
    /\ status \in [Applications -> Statuses]
    /\ reviews \in [Applications -> SUBSET Reviews]
    /\ decisions \in [Applications -> Seq(Decisions)]
    /\ seat \in [Applications -> {"none", "active", "consumed"}]
    /\ expired \in SUBSET Applications
    /\ conversion \in [Applications -> Conversions \cup {NoConversion}]
    /\ capacity \in 1..MaxCapacity
    /\ students \in SUBSET (Applications \X Requests)
    /\ enrollments \in SUBSET (Applications \X Requests)
    /\ intakeClosed \in BOOLEAN
    /\ audit \in SUBSET (Applications \X Decisions \X {"intent", "succeeded"})
    /\ clock \in 0..MaxReviews
    /\ op \in [Requests -> Operations \cup {Idle}]

Init ==
    /\ status = [a \in Applications |-> "draft"]
    /\ reviews = [a \in Applications |-> {}]
    /\ decisions = [a \in Applications |-> <<>>]
    /\ seat = [a \in Applications |-> "none"]
    /\ expired = {}
    /\ conversion = [a \in Applications |-> NoConversion]
    /\ capacity \in 1..MaxCapacity
    /\ students = {}
    /\ enrollments = {}
    /\ intakeClosed = FALSE
    /\ audit = {}
    /\ clock = 0
    /\ op = [r \in Requests |-> Idle]

----------------------------------------------------------------------------

App(r) == op[r].app
At(r, step) == op[r].step = step
Goto(r, step) == op' = [op EXCEPT ![r].step = step]
End(r) == op' = [op EXCEPT ![r] = Idle]

\* A call begins by reading its application; a call that is refused then has
\* changed nothing and is no step.
Start(r, a, step) ==
    /\ At(r, "idle")
    /\ op' = [op EXCEPT ![r] = [Idle EXCEPT !.step = step, !.app = a, !.seen = status[a]]]

\* An error, a cancellation or the death of the process.
Abort(r) == ~At(r, "idle") /\ End(r) /\ UNCHANGED <<records, world>>

\* Slip: the quota is read without its lock.
QuotaRead == TRUE

\* An acceptance locks its application and the quota until it commits; whoever
\* locks either waits.
Accepting(r) == At(r, "commit")
ApplicationFree(a) == \A r \in Requests : Accepting(r) => App(r) # a
QuotaFree == \A r \in Requests : ~Accepting(r)

\* _lock_application: the row is locked and has the status that was read.
Unchanged(r) == status[App(r)] = op[r].seen

SetStatus(r, s) == status' = [status EXCEPT ![App(r)] = s]

----------------------------------------------------------------------------
(***************************************************************************)
(* Submission and review.                                                  *)
(***************************************************************************)

LoadToSubmit(r, a) ==
    /\ status[a] = "draft"
    /\ Start(r, a, "submit")
    /\ UNCHANGED <<records, world>>

Submit(r) ==
    /\ At(r, "submit") /\ ApplicationFree(App(r))
    /\ IF Unchanged(r) THEN SetStatus(r, "submitted") ELSE UNCHANGED status
    /\ End(r)
    /\ UNCHANGED <<reviews, decisions, seat, conversion, capacity, world>>

\* record_review: the application is open for review; the completion time is
\* taken now.
LoadToReview(r, a, stage, outcome) ==
    /\ At(r, "idle")
    /\ status[a] \in {"submitted", "under_review"}
    /\ clock < MaxReviews
    /\ clock' = clock + 1
    /\ op' = [op EXCEPT ![r] = [Idle EXCEPT
                  !.step = "review", !.app = a, !.seen = status[a],
                  !.review = [stage |-> stage, outcome |-> outcome, at |-> clock + 1]]]
    /\ UNCHANGED <<records, expired, students, enrollments, intakeClosed, audit>>

\* save_review
SaveReview(r) ==
    /\ At(r, "review") /\ ApplicationFree(App(r))
    /\ IF Unchanged(r)
       THEN /\ reviews' = [reviews EXCEPT ![App(r)] = @ \cup {op[r].review}]
            /\ SetStatus(r, "under_review")
       ELSE UNCHANGED <<reviews, status>>
    /\ End(r)
    /\ UNCHANGED <<decisions, seat, conversion, capacity, world>>

\* The latest result of a stage, by completion time, is a pass.
StagePassed(rs, s) ==
    \E v \in rs : /\ v.stage = s /\ v.outcome = "passed"
                  /\ \A w \in rs : w.stage = s => w.at <= v.at

\* Slip: only results that are there can be in the way.
NoStageFailed(rs) ==
    \A v \in rs : (\A w \in rs : w.stage = v.stage => w.at <= v.at)
                     => v.outcome = "passed"

\* _require_passing_reviews
ReviewsPass(rs) == \A s \in Stages : StagePassed(rs, s)

----------------------------------------------------------------------------
(***************************************************************************)
(* Decision.                                                               *)
(***************************************************************************)

\* decide_application: the application is ready for a decision and the
\* decision is a transition.  The time of the decision is taken now.
LoadToDecide(r, a, outcome) ==
    /\ At(r, "idle")
    /\ \/ status[a] \in {"submitted", "under_review"}
       \/ status[a] = "waitlisted" /\ outcome # "waitlisted"
    /\ op' = [op EXCEPT ![r] = [Idle EXCEPT
                  !.step = IF outcome = "accepted" THEN "intake" ELSE "intent",
                  !.app = a, !.seen = status[a], !.outcome = outcome,
                  !.expired = IF outcome = "accepted" THEN expired ELSE {}]]
    /\ UNCHANGED <<records, world>>

CheckIntake(r) ==
    /\ At(r, "intake")
    /\ IF intakeClosed THEN End(r) ELSE Goto(r, "reviews")
    /\ UNCHANGED <<records, world>>

CheckReviews(r) ==
    /\ At(r, "reviews")
    /\ IF ReviewsPass(reviews[App(r)]) THEN Goto(r, "intent") ELSE End(r)
    /\ UNCHANGED <<records, world>>

Log(r, outcome) ==
    /\ audit' = audit \cup {<<App(r), op[r].outcome, outcome>>}
    /\ UNCHANGED <<expired, students, enrollments, intakeClosed, clock>>

RecordIntent(r) ==
    /\ At(r, "intent")
    /\ Log(r, "intent")
    /\ Goto(r, "decide")
    /\ UNCHANGED records

\* The seats that count at a time when these reservations have run out.
Occupied(gone) ==
    {a \in Applications : seat[a] = "consumed" \/ (seat[a] = "active" /\ a \notin gone)}

Decide(r) ==
    LET d == op[r].outcome IN
    /\ decisions' = [decisions EXCEPT ![App(r)] = Append(@, d)]
    /\ SetStatus(r, d)
    /\ op' = [op EXCEPT ![r] = [Idle EXCEPT !.step = "confirm", !.app = App(r),
                                             !.outcome = d]]

\* decide_with_reservation: the recount under the quota's lock, at the time of the
\* decision,
Recount(r) ==
    LET counted == Occupied(op[r].expired) IN
    /\ At(r, "decide") /\ op[r].outcome = "accepted"
    /\ ApplicationFree(App(r)) /\ QuotaFree
    /\ IF Unchanged(r) /\ Cardinality(counted) < capacity
       THEN op' = [op EXCEPT ![r].step = "commit", ![r].counted = counted]
       ELSE End(r)
    /\ UNCHANGED <<records, world>>

\* and the commit of the decision with its reservation.
Accept(r) ==
    /\ Accepting(r)
    /\ Decide(r)
    /\ seat' = [seat EXCEPT ![App(r)] = "active"]
    /\ UNCHANGED <<reviews, conversion, capacity, world>>

\* Slip: a decision that needs no seat needs no lock either.
DeclineUnchecked(r) ==
    /\ At(r, "decide") /\ op[r].outcome # "accepted"
    /\ Decide(r)
    /\ UNCHANGED <<reviews, seat, conversion, capacity, world>>

\* save_decision
Decline(r) ==
    /\ At(r, "decide") /\ op[r].outcome # "accepted" /\ ApplicationFree(App(r))
    /\ IF Unchanged(r)
       THEN Decide(r)
       ELSE End(r) /\ UNCHANGED <<decisions, status>>
    /\ UNCHANGED <<reviews, seat, conversion, capacity, world>>

RecordSuccess(r) ==
    /\ At(r, "confirm")
    /\ Log(r, "succeeded")
    /\ End(r)
    /\ UNCHANGED records

----------------------------------------------------------------------------
(***************************************************************************)
(* Conversion of an accepted application into an enrolled student.  A call *)
(* that was interrupted anywhere is resumed by calling again: the          *)
(* conversion holds the identifiers every later step is keyed by.          *)
(***************************************************************************)

\* The conversion is looked up before the status that was read is judged; of
\* an application that was not accepted then, nothing is done either way.
LoadToEnroll(r, a) ==
    /\ status[a] = "accepted"
    /\ Start(r, a, "conversion")
    /\ UNCHANGED <<records, world>>

FindConversion(r) ==
    /\ At(r, "conversion")
    /\ IF conversion[App(r)].completed
       THEN End(r)
       ELSE op' = [op EXCEPT ![r].step = "seat", ![r].held = conversion[App(r)]]
    /\ UNCHANGED <<records, world>>

\* A conversion that has begun is not asked whether its reservation still runs.
FindSeat(r) ==
    /\ At(r, "seat")
    /\ CASE seat[App(r)] # "active" -> End(r)
         [] op[r].held # NoConversion -> Goto(r, "student")
         [] OTHER -> IF App(r) \in expired THEN End(r) ELSE Goto(r, "begin")
    /\ UNCHANGED <<records, world>>

Requested(r) == [id |-> r, completed |-> FALSE]

\* Slip: the caller goes on with the identifiers it asked for.
BeginAnother(r) ==
    /\ At(r, "begin")
    /\ IF conversion[App(r)] = NoConversion
       THEN conversion' = [conversion EXCEPT ![App(r)] = Requested(r)]
       ELSE UNCHANGED conversion
    /\ op' = [op EXCEPT ![r].step = "student", ![r].held = Requested(r)]
    /\ UNCHANGED <<status, reviews, decisions, seat, capacity, world>>

\* begin_conversion: the first one wins, under the application's lock.
BeginConversion(r) ==
    LET kept == IF conversion[App(r)] = NoConversion
                THEN Requested(r) ELSE conversion[App(r)]
    IN  /\ At(r, "begin") /\ ApplicationFree(App(r))
        /\ conversion' = [conversion EXCEPT ![App(r)] = kept]
        /\ IF kept.completed
           THEN End(r)
           ELSE op' = [op EXCEPT ![r].step = "student", ![r].held = kept]
        /\ UNCHANGED <<status, reviews, decisions, seat, capacity, world>>

Held(r) == <<App(r), op[r].held.id>>

\* register_accepted_student, in People: once per conversion.
RegisterStudent(r) ==
    /\ At(r, "student")
    /\ students' = students \cup {Held(r)}
    /\ Goto(r, "term")
    /\ UNCHANGED <<records, expired, enrollments, intakeClosed, audit, clock>>

\* enroll_accepted_student, in Academics: the intake's term is asked first.
CheckTerm(r) ==
    /\ At(r, "term")
    /\ CASE Held(r) \in enrollments -> Goto(r, "complete")
         [] OTHER -> IF intakeClosed THEN End(r) ELSE Goto(r, "enrollment")
    /\ UNCHANGED <<records, world>>

\* register_admissions_enrollment: once per conversion.
RegisterEnrollment(r) ==
    /\ At(r, "enrollment")
    /\ enrollments' = enrollments \cup {Held(r)}
    /\ Goto(r, "complete")
    /\ UNCHANGED <<records, expired, students, intakeClosed, audit, clock>>

\* complete_conversion
CompleteConversion(r) ==
    LET a == App(r) IN
    /\ At(r, "complete") /\ ApplicationFree(App(r))
    /\ IF /\ conversion[a] = op[r].held
          /\ status[a] = "accepted" /\ seat[a] = "active"
       THEN /\ conversion' = [conversion EXCEPT ![a].completed = TRUE]
            /\ SetStatus(r, "enrolled")
            /\ seat' = [seat EXCEPT ![a] = "consumed"]
       ELSE UNCHANGED <<conversion, status, seat>>
    /\ End(r)
    /\ UNCHANGED <<reviews, decisions, capacity, world>>

----------------------------------------------------------------------------
(***************************************************************************)
(* The rest of the school, and time.                                       *)
(***************************************************************************)

\* close_term, in Academics.
CloseIntake ==
    /\ ~intakeClosed /\ intakeClosed' = TRUE
    /\ UNCHANGED <<records, expired, students, enrollments, audit, clock, op>>

\* save_quota, under the quota's lock: the capacity may fall below the seats that
\* are taken.
ConfigureQuota ==
    /\ QuotaFree
    /\ capacity' \in 1..MaxCapacity
    /\ UNCHANGED <<status, reviews, decisions, seat, conversion, world, op>>

\* A reservation runs out.  Nothing is written: readers compare times.
Expire(a) ==
    /\ seat[a] = "active" /\ a \notin expired
    /\ expired' = expired \cup {a}
    /\ UNCHANGED <<records, students, enrollments, intakeClosed, audit, clock, op>>

Next ==
    \/ \E r \in Requests, a \in Applications :
          \/ LoadToSubmit(r, a)
          \/ \E s \in Stages, o \in ReviewOutcomes : LoadToReview(r, a, s, o)
          \/ \E d \in Outcomes : LoadToDecide(r, a, d)
          \/ LoadToEnroll(r, a)
    \/ \E r \in Requests :
          \/ Abort(r) \/ Submit(r) \/ SaveReview(r)
          \/ CheckIntake(r) \/ CheckReviews(r) \/ RecordIntent(r)
          \/ Recount(r) \/ Accept(r) \/ Decline(r) \/ RecordSuccess(r)
          \/ FindConversion(r) \/ FindSeat(r) \/ BeginConversion(r)
          \/ RegisterStudent(r) \/ CheckTerm(r) \/ RegisterEnrollment(r)
          \/ CompleteConversion(r)
    \/ CloseIntake
    \/ ConfigureQuota
    \/ \E a \in Applications : Expire(a)

Spec == Init /\ [][Next]_vars

----------------------------------------------------------------------------
(***************************************************************************)
(* Properties.                                                             *)
(***************************************************************************)

SeatsTaken == Cardinality(Occupied(expired))

\* The seats whose reservation had run out when a conversion used them, though the
\* recount of this call had not found them taken.
UsedLate(r) == {a \in expired : seat[a] = "consumed"} \ op[r].counted

\* An acceptance never takes a seat beyond the quota's capacity, whatever happens
\* between the reads of a decision and its commit: quotas are shrunk, reservations
\* run out, conversions are resumed, other applicants are accepted.  Only a seat that
\* a conversion uses after its reservation ran out, and after the recount, is beside
\* the count (see QuotaLimitsSeats).
AcceptanceFitsQuota ==
    [][\A a \in Applications :
          status[a] # "accepted" /\ status'[a] = "accepted" =>
             \E r \in Requests :
                /\ Accepting(r) /\ App(r) = a
                /\ Cardinality(Occupied(expired)' \ UsedLate(r)) <= capacity']_vars

\* "Limit seats for a program intake and configured seat category."
\* Not kept: a conversion completed after its reservation ran out uses a seat again
\* that may have been given away.
QuotaLimitsSeats == [][SeatsTaken' > SeatsTaken => SeatsTaken' <= capacity']_vars

\* No decision without an audited intent, and no audited success without the
\* decision, wherever calls are cut short and whichever call wins.
IsAnnounced(a, d) ==
    LET taken == \E i \in 1..Len(decisions[a]) : decisions[a][i] = d IN
    /\ taken => <<a, d, "intent">> \in audit
    /\ <<a, d, "succeeded">> \in audit => taken

\* The application, its decision history, its reservation and the audit evidence
\* tell one story: the status is the last decision (or what follows from it), only
\* a waitlisted application is decided again, a seat is kept for accepted ones
\* alone, and every decision is announced.
DecisionsAgree ==
    \A a \in Applications :
        LET n == Len(decisions[a]) IN
        /\ IF n = 0
           THEN status[a] \in {"draft", "submitted", "under_review"}
           ELSE \/ status[a] = decisions[a][n]
                \/ status[a] = "enrolled" /\ decisions[a][n] = "accepted"
        /\ n <= 2 /\ \A i \in 1..(n - 1) : decisions[a][i] = "waitlisted"
        /\ seat[a] # "none" <=> status[a] \in {"accepted", "enrolled"}
        /\ \A d \in Decisions : IsAnnounced(a, d)

\* However often conversions are begun, interrupted and resumed at a time, an
\* application has at most one student and one enrollment, those its conversion
\* names; an enrolled one has both, and its seat is used up.  (Of well-typed
\* applications.)
IsWhole(a) ==
    LET kept == conversion[a]
        whole == {<<a, kept.id>>}
        of(registered) == {x \in registered : x[1] = a}
    IN  /\ of(enrollments) \subseteq of(students)
        /\ of(students) \subseteq whole
        /\ kept.completed <=> status[a] = "enrolled"
        /\ kept.completed <=> seat[a] = "consumed"
        /\ kept.completed => of(enrollments) = whole
        /\ kept # NoConversion => status[a] \in {"accepted", "enrolled"}
ConversionIsWhole == TypeOK /\ \A a \in Applications : IsWhole(a)

\* Nobody is accepted, or enrolled, without a passed review of every stage.
ReviewedBeforeAcceptance ==
    \A a \in Applications :
        status[a] \in {"accepted", "enrolled"} =>
            \A s \in Stages : \E v \in reviews[a] : v.stage = s /\ v.outcome = "passed"

=============================================================================
