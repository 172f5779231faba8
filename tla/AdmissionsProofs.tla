-------------------------- MODULE AdmissionsProofs --------------------------
(***************************************************************************)
(* What holds of Admissions for any number of applications, calls, stages  *)
(* and seats: the types, and the four properties of AdmissionsDecided.     *)
(*                                                                         *)
(* What a call remembers says what was true when it read it; most of the   *)
(* work is to show that it is still true, or compared, when the call       *)
(* writes.                                                                 *)
(***************************************************************************)
EXTENDS Admissions, FiniteSetTheorems, TLAPS

OpenStatuses == {"submitted", "under_review", "waitlisted"}
Undecided == {"intake", "reviews", "intent", "decide", "commit"}
Converting == {"student", "term", "enrollment", "complete"}

\* What a call remembers at each of its steps.
CallFits(o) ==
    /\ o \in Operations \cup {Idle}
    /\ o.step = "submit" => o.seen = "draft"
    /\ o.step = "review" => o.seen \in OpenStatuses \ {"waitlisted"} /\ o.review \in Reviews
    /\ o.step \in {"intake", "reviews", "commit"} => o.outcome = "accepted"
    /\ o.step \in Undecided => /\ o.seen \in OpenStatuses
                               /\ o.outcome = "waitlisted" => o.seen # "waitlisted"
    /\ o.step \in Undecided \cup {"confirm"} => o.outcome \in Decisions
    /\ o.step \in Converting => o.held \in Conversions
    /\ ~o.held.completed

RecordsFit ==
    /\ status \in [Applications -> Statuses]
    /\ reviews \in [Applications -> SUBSET Reviews]
    /\ decisions \in [Applications -> Seq(Decisions)]
    /\ seat \in [Applications -> {"none", "active", "consumed"}]
    /\ conversion \in [Applications -> Conversions \cup {NoConversion}]
    /\ capacity \in 1..MaxCapacity

WorldFits ==
    /\ expired \in SUBSET Applications
    /\ students \in SUBSET (Applications \X Requests)
    /\ enrollments \in SUBSET (Applications \X Requests)
    /\ intakeClosed \in BOOLEAN
    /\ audit \in SUBSET (Applications \X Decisions \X {"intent", "succeeded"})
    /\ clock \in 0..MaxReviews

\* While an acceptance has its locks, its application stays as it was compared, and no
\* other acceptance has its own.
LocksHold ==
    \A r \in Requests : Accepting(r) =>
        Unchanged(r) /\ \A q \in Requests : Accepting(q) => q = r

TypeInv ==
    /\ RecordsFit
    /\ WorldFits
    /\ op \in [Requests -> Operations \cup {Idle}]
    /\ \A r \in Requests : CallFits(op[r])
    /\ LocksHold

----------------------------------------------------------------------------
\* A call that has ended remembers nothing.
LEMMA IdleFits == CallFits(Idle)
BY DEF CallFits, Idle, NoConversion, Converting, Undecided

\* Everything is well-formed before any call arrives.
LEMMA TypeInit == Init => TypeInv
<1> SUFFICES ASSUME Init PROVE TypeInv
  OBVIOUS
<1>1. RecordsFit
  <2>1. decisions \in [Applications -> Seq(Decisions)]
    BY DEF Init
  <2> QED  BY <2>1 DEF Init, RecordsFit, Statuses
<1>2. WorldFits
  <2>1. clock \in 0..MaxReviews
    BY BoundsAssumption DEF Init
  <2> QED  BY <2>1 DEF Init, WorldFits
<1>3. /\ op \in [Requests -> Operations \cup {Idle}]
      /\ \A r \in Requests : CallFits(op[r])
  BY IdleFits DEF Init
<1>4. LocksHold
  BY DEF Init, LocksHold, Accepting, At, Idle
<1> QED  BY <1>1, <1>2, <1>3, <1>4 DEF TypeInv

\* A bounded count stays within its bound when it is raised below it.
LEMMA ClockTicks ==
    ASSUME NEW m \in Nat, NEW c \in 0..m, c < m
    PROVE  c + 1 \in 1..m /\ c + 1 \in 0..m
OBVIOUS

\* A call that is under way has the record of one.
LEMMA UnderWay ==
    ASSUME TypeInv, NEW r \in Requests, op[r].step # "idle"
    PROVE  op[r] \in Operations
BY DEF TypeInv, Idle

\* A call that goes on to its next step, or ends.
LEMMA GoingOnFits ==
    ASSUME TypeInv, NEW r \in Requests,
           \/ CheckIntake(r) \/ CheckReviews(r) \/ RecordIntent(r)
           \/ RegisterStudent(r) \/ CheckTerm(r) \/ RegisterEnrollment(r)
    PROVE  \E o : CallFits(o) /\ op' = [op EXCEPT ![r] = o]
<1>1. op[r] \in Operations
  BY UnderWay DEF CheckIntake, CheckReviews, RecordIntent, RegisterStudent, CheckTerm,
                  RegisterEnrollment, At
<1>2. CASE op' = [op EXCEPT ![r] = Idle]
  BY <1>2, IdleFits
<1>3. ASSUME NEW s \in Steps, Goto(r, s),
             \/ /\ op[r].step \in {"intake", "reviews", "intent"}
                /\ s \in {"reviews", "intent", "decide"}
                /\ (s = "reviews" => op[r].step = "intake")
             \/ op[r].step \in Converting /\ s \in Converting
      PROVE  \E o : CallFits(o) /\ op' = [op EXCEPT ![r] = o]
  <2>1. CallFits(op[r])
    BY DEF TypeInv
  <2>2. CallFits([op[r] EXCEPT !.step = s])
    BY <1>1, <1>3, <2>1 DEF CallFits, Operations, Undecided, Converting
  <2> QED  BY <1>3, <2>2 DEF Goto, TypeInv
<1> QED
  BY <1>2, <1>3 DEF CheckIntake, CheckReviews, RecordIntent, RegisterStudent, CheckTerm,
                    RegisterEnrollment, At, End, Steps, Converting

\* A call that begins.
LEMMA StartingFits ==
    ASSUME TypeInv, NEW r \in Requests, NEW a \in Applications,
           \/ LoadToSubmit(r, a) \/ LoadToEnroll(r, a)
           \/ \E s \in Stages, x \in ReviewOutcomes : LoadToReview(r, a, s, x)
           \/ \E d \in Outcomes : LoadToDecide(r, a, d)
    PROVE  \E o : CallFits(o) /\ op' = [op EXCEPT ![r] = o]
<1> USE DEF CallFits, Operations, Idle, NoConversion, Steps, Converting, Undecided, OpenStatuses
<1>0. /\ status[a] \in Statuses /\ expired \in SUBSET Applications
      /\ clock \in 0..MaxReviews
  BY DEF TypeInv, RecordsFit, WorldFits
<1>1. CASE LoadToSubmit(r, a) \/ LoadToEnroll(r, a)
  BY <1>0, <1>1 DEF LoadToSubmit, LoadToEnroll, Start
<1>2. ASSUME NEW s \in Stages, NEW x \in ReviewOutcomes, LoadToReview(r, a, s, x)
      PROVE  \E o : CallFits(o) /\ op' = [op EXCEPT ![r] = o]
  <2>1. [stage |-> s, outcome |-> x, at |-> clock + 1] \in Reviews
    <3>1. clock + 1 \in 1..MaxReviews
      <4>1. clock < MaxReviews
        BY <1>2 DEF LoadToReview
      <4> QED  BY <1>0, <4>1, BoundsAssumption, ClockTicks
    <3> QED  BY <1>2, <3>1 DEF Reviews
  <2> DEFINE o == [Idle EXCEPT !.step = "review", !.app = a, !.seen = status[a],
                     !.review = [stage |-> s, outcome |-> x, at |-> clock + 1]]
  <2>2. CallFits(o)
    BY <1>0, <1>2, <2>1 DEF LoadToReview
  <2> HIDE DEF CallFits
  <2> QED  BY <1>2, <2>2 DEF LoadToReview
<1>3. ASSUME NEW d \in Outcomes, LoadToDecide(r, a, d)
      PROVE  \E o : CallFits(o) /\ op' = [op EXCEPT ![r] = o]
  <2> DEFINE o == [Idle EXCEPT
                     !.step = IF d = "accepted" THEN "intake" ELSE "intent",
                     !.app = a, !.seen = status[a], !.outcome = d,
                     !.expired = IF d = "accepted" THEN expired ELSE {}]
  <2>1. d \in Decisions
    BY OutcomesAssumption
  <2>2. CallFits(o)
    <3>1. CASE d = "accepted"
      BY <1>0, <1>3, <2>1, <3>1 DEF LoadToDecide
    <3>2. CASE d # "accepted"
      BY <1>0, <1>3, <2>1, <3>2 DEF LoadToDecide
    <3> QED  BY <3>1, <3>2
  <2> HIDE DEF CallFits
  <2> QED  BY <1>3, <2>2 DEF LoadToDecide
<1> QED  BY <1>1, <1>2, <1>3

\* A call that finds or begins its conversion.
LEMMA ConvertingFits ==
    ASSUME TypeInv, NEW r \in Requests,
           FindConversion(r) \/ FindSeat(r) \/ BeginConversion(r)
    PROVE  \E o : CallFits(o) /\ op' = [op EXCEPT ![r] = o]
<1> USE DEF Steps, Converting, Undecided
<1>1. op[r] \in Operations /\ CallFits(op[r])
  BY UnderWay DEF FindConversion, FindSeat, BeginConversion, At, TypeInv
<1>2. CASE op' = [op EXCEPT ![r] = Idle]
  BY <1>2, IdleFits
<1>3. ASSUME NEW s \in {"seat", "begin", "student"},
             NEW held \in Conversions \cup {NoConversion}, ~held.completed,
             s = "student" => held \in Conversions,
             op' = [op EXCEPT ![r] = [op[r] EXCEPT !.step = s, !.held = held]]
      PROVE  \E o : CallFits(o) /\ op' = [op EXCEPT ![r] = o]
  <2>1. CallFits([op[r] EXCEPT !.step = s, !.held = held])
    <3> DEFINE o == [op[r] EXCEPT !.step = s, !.held = held]
    <3>1. o \in Operations /\ o.step = s /\ o.held = held
      BY <1>1, <1>3 DEF Operations
    <3>2. s = "student" => o.held \in Conversions
      BY <1>3, <3>1
    <3> HIDE DEF o
    <3>3. CallFits(o)
      BY <1>3, <3>1, <3>2 DEF CallFits
    <3> QED  BY <3>3 DEF o
  <2> QED  BY <1>3, <2>1
<1>4. CASE FindConversion(r)
  BY <1>1, <1>2, <1>3, <1>4 DEF FindConversion, End, App, Operations, TypeInv, RecordsFit
<1>5. CASE FindSeat(r)
  <2>1. ASSUME NEW s \in {"begin", "student"}, Goto(r, s),
               s = "student" => op[r].held # NoConversion
        PROVE  \E o : CallFits(o) /\ op' = [op EXCEPT ![r] = o]
    <3>1. CallFits([op[r] EXCEPT !.step = s])
      BY <1>1, <2>1, <1>5 DEF CallFits, Operations, FindSeat, At
    <3> QED  BY <2>1, <3>1 DEF Goto, TypeInv
  <2> QED  BY <1>2, <1>5, <2>1 DEF FindSeat, End
<1>6. CASE BeginConversion(r)
  <2> DEFINE kept == IF conversion[App(r)] = NoConversion
                     THEN Requested(r) ELSE conversion[App(r)]
  <2>1. kept \in Conversions
    BY <1>1 DEF Operations, App, Requested, Conversions, TypeInv, RecordsFit
  <2> QED  BY <1>2, <1>3, <1>6, <2>1 DEF BeginConversion, End, TypeInv
<1> QED  BY <1>4, <1>5, <1>6

\* A call that has counted the seats, decides, or is refused.
LEMMA DecidingFits ==
    ASSUME TypeInv, NEW r \in Requests, Recount(r) \/ Accept(r) \/ Decline(r)
    PROVE  \E o : CallFits(o) /\ op' = [op EXCEPT ![r] = o]
<1>1. op[r] \in Operations /\ CallFits(op[r])
  BY UnderWay DEF Recount, Accept, Accepting, Decline, At, TypeInv
<1>2. CASE Accept(r) \/ Decline(r)
  <2>1. CallFits([Idle EXCEPT !.step = "confirm", !.app = App(r), !.outcome = op[r].outcome])
    BY <1>1, <1>2 DEF Accept, Accepting, Decline, At, CallFits, Operations, Idle, NoConversion,
                      App, Steps, Undecided, Converting
  <2> QED  BY <1>2, <2>1, IdleFits DEF Accept, Decline, Decide, End
<1>3. CASE Recount(r)
  <2> DEFINE counted == Occupied(op[r].expired)
  <2>1. counted \in SUBSET Applications
    BY DEF Occupied
  <2> HIDE DEF counted
  <2>2. CallFits([op[r] EXCEPT !.step = "commit", !.counted = counted])
    BY <1>1, <1>3, <2>1 DEF Recount, At, CallFits, Operations, Steps, Undecided, Converting
  <2>3. \/ op' = [op EXCEPT ![r] = Idle]
        \/ op' = [op EXCEPT ![r].step = "commit", ![r].counted = counted]
    BY <1>3 DEF Recount, End, counted
  <2>4. [op EXCEPT ![r].step = "commit", ![r].counted = counted]
           = [op EXCEPT ![r] = [op[r] EXCEPT !.step = "commit", !.counted = counted]]
    BY DEF TypeInv
  <2> QED  BY <2>2, <2>3, <2>4, IdleFits
<1> QED  BY <1>2, <1>3

\* Every step is a step of one call at most, and leaves that call as it should be.
LEMMA CallsFit ==
    ASSUME TypeInv, [Next]_vars
    PROVE  \/ op' = op
           \/ \E r \in Requests : \E o : CallFits(o) /\ op' = [op EXCEPT ![r] = o]
<1>1. CASE UNCHANGED vars
  BY <1>1 DEF vars
<1>2. ASSUME NEW r \in Requests,
             \/ Abort(r) \/ Submit(r) \/ SaveReview(r) \/ RecordSuccess(r)
             \/ CompleteConversion(r)
      PROVE  \E o : CallFits(o) /\ op' = [op EXCEPT ![r] = o]
  BY <1>2, IdleFits DEF Abort, Submit, SaveReview, RecordSuccess, CompleteConversion, End
<1>3. CASE CloseIntake \/ ConfigureQuota \/ \E a \in Applications : Expire(a)
  BY <1>3 DEF CloseIntake, ConfigureQuota, Expire
<1> QED
  BY <1>1, <1>2, <1>3, GoingOnFits, StartingFits, ConvertingFits, DecidingFits DEF Next

\* The rows of Admissions keep their types.
LEMMA RecordsFitStep ==
    ASSUME TypeInv, [Next]_vars
    PROVE  RecordsFit'
<1> USE DEF TypeInv, RecordsFit
<1>1. CASE UNCHANGED records
  BY <1>1 DEF records
<1>2. ASSUME NEW r \in Requests,
             \/ Submit(r) \/ SaveReview(r) \/ Accept(r) \/ Decline(r)
             \/ BeginConversion(r) \/ CompleteConversion(r)
      PROVE  RecordsFit'
  <2>1. op[r] \in Operations /\ CallFits(op[r]) /\ App(r) \in Applications
    BY <1>2, UnderWay DEF Submit, SaveReview, Accept, Accepting, Decline, BeginConversion,
                          CompleteConversion, At, Operations, App, TypeInv
  <2>2. CASE Submit(r)
    BY <2>1, <2>2 DEF Submit, SetStatus, world, Statuses
  <2>3. CASE SaveReview(r)
    <3>1. op[r].review \in Reviews
      BY <2>1, <2>3 DEF SaveReview, At, CallFits
    <3>2. reviews[App(r)] \cup {op[r].review} \in SUBSET Reviews
      BY <2>1, <3>1
    <3>3. reviews' \in [Applications -> SUBSET Reviews]
      BY <2>1, <2>3, <3>2 DEF SaveReview
    <3>4. status' \in [Applications -> Statuses]
      BY <2>1, <2>3 DEF SaveReview, SetStatus, Statuses
    <3> QED  BY <2>3, <3>3, <3>4 DEF SaveReview
  <2>4. CASE Accept(r) \/ Decline(r)
    <3>1. op[r].outcome \in Decisions
      BY <2>1, <2>4 DEF Accept, Accepting, Decline, At, CallFits, Undecided
    <3>2. Append(decisions[App(r)], op[r].outcome) \in Seq(Decisions)
      BY <2>1, <3>1
    <3>3. CASE Decide(r)
      BY <2>1, <2>4, <3>1, <3>2, <3>3 DEF Accept, Decline, Decide, SetStatus, Statuses,
                                          Decisions
    <3>4. CASE UNCHANGED <<status, decisions>>
      BY <2>1, <2>4, <3>4 DEF Accept, Decline
    <3> QED  BY <2>4, <3>3, <3>4 DEF Accept, Decline
  <2>5. CASE BeginConversion(r)
    <3>1. Requested(r) \in Conversions
      BY DEF Requested, Conversions
    <3> QED  BY <2>1, <2>5, <3>1 DEF BeginConversion
  <2>6. CASE CompleteConversion(r)
    <3>1. op[r].held \in Conversions
      BY <2>1, <2>6 DEF CompleteConversion, At, CallFits, Converting
    <3>2. [op[r].held EXCEPT !.completed = TRUE] \in Conversions
      BY <3>1 DEF Conversions
    <3>3. conversion' \in [Applications -> Conversions \cup {NoConversion}]
      <4>1. CASE /\ conversion[App(r)] = op[r].held
                 /\ conversion' = [conversion EXCEPT ![App(r)].completed = TRUE]
        <5>1. conversion' = [conversion EXCEPT ![App(r)] = [op[r].held EXCEPT !.completed = TRUE]]
          BY <2>1, <4>1
        <5> QED  BY <2>1, <3>2, <5>1
      <4>2. CASE conversion' = conversion
        BY <4>2
      <4> QED  BY <2>6, <4>1, <4>2 DEF CompleteConversion
    <3>4. /\ status' \in [Applications -> Statuses]
          /\ seat' \in [Applications -> {"none", "active", "consumed"}]
      BY <2>1, <2>6 DEF CompleteConversion, SetStatus, Statuses
    <3> QED  BY <2>6, <3>3, <3>4 DEF CompleteConversion
  <2> QED  BY <1>2, <2>2, <2>3, <2>4, <2>5, <2>6
<1>3. CASE ConfigureQuota
  BY <1>3 DEF ConfigureQuota
<1> QED
  BY <1>1, <1>2, <1>3
     DEF Next, vars, LoadToSubmit, LoadToReview, LoadToDecide, LoadToEnroll, Abort, CheckIntake,
         CheckReviews, RecordIntent, RecordSuccess, Recount, FindConversion, FindSeat,
         RegisterStudent, CheckTerm, RegisterEnrollment, CloseIntake, Expire

\* A request logs and registers in the name of its application.
LEMMA WorldFitsStep ==
    ASSUME TypeInv, [Next]_vars
    PROVE  WorldFits'
<1> USE DEF TypeInv, WorldFits
<1>1. CASE UNCHANGED world
  BY <1>1 DEF world
<1>2. ASSUME NEW r \in Requests, NEW a \in Applications, NEW s \in Stages,
             NEW x \in ReviewOutcomes, LoadToReview(r, a, s, x)
      PROVE  WorldFits'
  BY <1>2, ClockTicks, BoundsAssumption DEF LoadToReview
<1>3. ASSUME NEW r \in Requests, RecordIntent(r) \/ RecordSuccess(r)
      PROVE  WorldFits'
  <2>1. op[r] \in Operations /\ CallFits(op[r])
    BY <1>3, UnderWay DEF RecordIntent, RecordSuccess, At
  <2>2. App(r) \in Applications /\ op[r].outcome \in Decisions
    BY <1>3, <2>1 DEF RecordIntent, RecordSuccess, At, CallFits, Operations, App, Undecided
  <2>3. ASSUME NEW kind \in {"intent", "succeeded"}, Log(r, kind)
        PROVE  WorldFits'
    <3>1. <<App(r), op[r].outcome, kind>> \in Applications \X Decisions \X {"intent", "succeeded"}
      BY <2>2
    <3> QED  BY <2>3, <3>1 DEF Log
  <2> QED  BY <1>3, <2>3 DEF RecordIntent, RecordSuccess
<1>4. ASSUME NEW r \in Requests, RegisterStudent(r) \/ RegisterEnrollment(r)
      PROVE  WorldFits'
  <2>1. op[r] \in Operations /\ CallFits(op[r])
    BY <1>4, UnderWay DEF RegisterStudent, RegisterEnrollment, At
  <2>2. Held(r) \in Applications \X Requests
    BY <1>4, <2>1 DEF RegisterStudent, RegisterEnrollment, At, CallFits, Operations, App, Held,
                      Converting, Conversions
  <2> QED  BY <1>4, <2>2 DEF RegisterStudent, RegisterEnrollment
<1>5. CASE CloseIntake \/ \E a \in Applications : Expire(a)
  BY <1>5 DEF CloseIntake, Expire
<1> QED
  BY <1>1, <1>2, <1>3, <1>4, <1>5
     DEF Next, vars, LoadToSubmit, LoadToDecide, LoadToEnroll, Start, Abort, Submit, SaveReview,
         CheckIntake, CheckReviews, Recount, Accept, Decline, FindConversion, FindSeat,
         BeginConversion, CheckTerm, CompleteConversion, ConfigureQuota

\* The steps of one call, those that end it aside.
Loading(r) ==
    \E a \in Applications :
       \/ LoadToSubmit(r, a) \/ LoadToEnroll(r, a)
       \/ \E s \in Stages, o \in ReviewOutcomes : LoadToReview(r, a, s, o)
       \/ \E d \in Outcomes : LoadToDecide(r, a, d)
Deciding(r) ==
    \/ CheckIntake(r) \/ CheckReviews(r) \/ RecordIntent(r)
    \/ Recount(r) \/ Accept(r) \/ Decline(r)
Enrolling(r) ==
    \/ FindConversion(r) \/ FindSeat(r) \/ BeginConversion(r) \/ RegisterStudent(r)
    \/ CheckTerm(r) \/ RegisterEnrollment(r)

\* A call only changes by a step of its own.
LEMMA OwnStep ==
    ASSUME TypeInv, [Next]_vars, NEW r \in Requests
    PROVE  \/ op'[r] = op[r]
           \/ op'[r] = Idle
           \/ Loading(r) \/ Deciding(r) \/ Enrolling(r)
<1>1. CASE UNCHANGED op
  BY <1>1
<1>2. ASSUME NEW q \in Requests,
             \/ Abort(q) \/ Submit(q) \/ SaveReview(q) \/ RecordSuccess(q)
             \/ CompleteConversion(q)
      PROVE  op'[r] \in {op[r], Idle}
  BY <1>2 DEF Abort, Submit, SaveReview, RecordSuccess, CompleteConversion, End, TypeInv
<1>3. ASSUME NEW q \in Requests, Loading(q), q # r
      PROVE  op'[r] = op[r]
  BY <1>3 DEF Loading, LoadToSubmit, LoadToEnroll, LoadToReview, LoadToDecide, Start, TypeInv
<1>4. ASSUME NEW q \in Requests, Deciding(q), q # r
      PROVE  op'[r] = op[r]
  BY <1>4 DEF Deciding, CheckIntake, CheckReviews, RecordIntent, Recount, Accept, Decline,
              Decide, Goto, End, TypeInv
<1>5. ASSUME NEW q \in Requests, Enrolling(q), q # r
      PROVE  op'[r] = op[r]
  BY <1>5 DEF Enrolling, FindConversion, FindSeat, BeginConversion, RegisterStudent, CheckTerm,
              RegisterEnrollment, Goto, End, TypeInv
<1>6. CASE CloseIntake \/ ConfigureQuota \/ \E a \in Applications : Expire(a)
  BY <1>1, <1>6 DEF CloseIntake, ConfigureQuota, Expire
<1> QED
  BY <1>1, <1>2, <1>3, <1>4, <1>5, <1>6 DEF Next, vars, Loading, Deciding, Enrolling

\* A call begins with one of the first steps.
LEMMA LoadingSteps ==
    ASSUME TypeInv, NEW r \in Requests, Loading(r)
    PROVE  /\ op'[r].step \in {"submit", "conversion", "review", "intake", "intent"}
           /\ op'[r].step = "intent" => op'[r].outcome # "accepted"
           /\ op'[r].step = "conversion" => status[op'[r].app] = "accepted"
<1> PICK a \in Applications :
         \/ LoadToSubmit(r, a) \/ LoadToEnroll(r, a)
         \/ \E s \in Stages, o \in ReviewOutcomes : LoadToReview(r, a, s, o)
         \/ \E d \in Outcomes : LoadToDecide(r, a, d)
  BY DEF Loading
<1>1. CASE LoadToSubmit(r, a) \/ LoadToEnroll(r, a)
  <2>1. CASE LoadToSubmit(r, a)
    BY <2>1 DEF LoadToSubmit, Start, Idle, TypeInv
  <2>2. CASE LoadToEnroll(r, a)
    BY <2>2 DEF LoadToEnroll, Start, Idle, TypeInv
  <2> QED  BY <1>1, <2>1, <2>2
<1>2. CASE \E s \in Stages, o \in ReviewOutcomes : LoadToReview(r, a, s, o)
  <2>1. PICK s \in Stages, o \in ReviewOutcomes : LoadToReview(r, a, s, o)
    BY <1>2
  <2>2. op'[r].step = "review"
    BY <2>1 DEF LoadToReview, Idle, TypeInv
  <2> QED  BY <2>2
<1>3. CASE \E d \in Outcomes : LoadToDecide(r, a, d)
  <2>1. PICK d \in Outcomes : LoadToDecide(r, a, d)
    BY <1>3
  <2>2. /\ op'[r].outcome = d
        /\ op'[r].step = IF d = "accepted" THEN "intake" ELSE "intent"
    BY <2>1 DEF LoadToDecide, Idle, TypeInv
  <2> QED  BY <2>2
<1> QED  BY <1>1, <1>2, <1>3

\* Only a recount begins to accept.
LEMMA NewlyAccepting ==
    ASSUME TypeInv, [Next]_vars, NEW q \in Requests, op'[q].step = "commit"
    PROVE  op'[q] = op[q] \/ Recount(q)
<1>1. CASE op'[q] = Idle
  BY <1>1 DEF Idle
<1>2. CASE Loading(q)
  BY <1>2, LoadingSteps
<1>3. CASE Deciding(q)
  <2>1. op[q] \in Operations
    BY <1>3, UnderWay DEF Deciding, CheckIntake, CheckReviews, RecordIntent, Recount, Accept,
                          Accepting, Decline, At
  <2>2. CASE CheckIntake(q) \/ CheckReviews(q) \/ RecordIntent(q)
    BY <2>1, <2>2 DEF CheckIntake, CheckReviews, RecordIntent, Goto, End, Idle, Operations,
                          TypeInv
  <2>3. CASE Accept(q) \/ Decline(q)
    <3>1. Decide(q) \/ End(q)
      BY <2>3 DEF Accept, Decline
    <3>2. ~Decide(q)
      BY DEF Decide, Idle, TypeInv
    <3>3. ~End(q)
      BY DEF End, Idle, TypeInv
    <3> QED  BY <3>1, <3>2, <3>3
  <2> QED  BY <1>3, <2>2, <2>3 DEF Deciding
<1>4. CASE Enrolling(q)
  BY <1>4, UnderWay
     DEF Enrolling, FindConversion, FindSeat, BeginConversion, RegisterStudent, CheckTerm,
         RegisterEnrollment, Goto, End, Idle, Operations, At, TypeInv
<1> QED  BY <1>1, <1>2, <1>3, <1>4, OwnStep

\* Whoever takes the locks of an acceptance finds them free, and whoever would change its
\* application waits for them.
LEMMA LocksStep ==
    ASSUME TypeInv, [Next]_vars
    PROVE  LocksHold'
<1>2. ASSUME NEW q \in Requests, op'[q].step = "commit", op'[q] = op[q]
      PROVE  status'[App(q)] = status[App(q)] /\ Unchanged(q)'
  <2>1. Accepting(q) /\ Unchanged(q)
    BY <1>2 DEF Accepting, At, TypeInv, LocksHold
  <2>2. App(q) \in Applications /\ App(q)' = App(q)
    BY <1>2, UnderWay DEF Operations, App
  <2>3. ASSUME NEW r \in Requests,
               Submit(r) \/ SaveReview(r) \/ Decline(r) \/ CompleteConversion(r)
        PROVE  status'[App(q)] = status[App(q)]
    <3>1. App(r) # App(q)
      BY <2>1, <2>3 DEF Submit, SaveReview, Decline, CompleteConversion, ApplicationFree
    <3> QED
      BY <2>2, <2>3, <3>1 DEF Submit, SaveReview, Decline, Decide, CompleteConversion,
                              SetStatus, TypeInv, RecordsFit
  <2>4. ASSUME NEW r \in Requests, Accept(r)
        PROVE  FALSE
    <3>1. r = q
      BY <2>1, <2>4 DEF Accept, TypeInv, LocksHold
    <3> QED  BY <1>2, <2>4, <3>1 DEF Accept, Decide, Idle, TypeInv
  <2>5. status'[App(q)] = status[App(q)]
    <3>1. CASE UNCHANGED status
      BY <3>1
    <3> QED
      BY <2>3, <2>4, <3>1
         DEF Next, vars, records, LoadToSubmit, LoadToReview, LoadToDecide, LoadToEnroll, Abort,
             CheckIntake, CheckReviews, RecordIntent, RecordSuccess, Recount, FindConversion,
             FindSeat, BeginConversion, RegisterStudent, CheckTerm, RegisterEnrollment,
             CloseIntake, ConfigureQuota, Expire
  <2> QED  BY <1>2, <2>1, <2>2, <2>5 DEF Unchanged
<1>3. ASSUME NEW q \in Requests, op'[q].step = "commit", Recount(q)
      PROVE  /\ Unchanged(q)'
             /\ \A r \in Requests : op'[r].step = "commit" => r = q
  <2>1. op[q] \in Operations
    BY <1>3, UnderWay DEF Recount, At
  <2>2. op' # [op EXCEPT ![q] = Idle]
    BY <1>3 DEF Idle, TypeInv
  <2>3. Unchanged(q) /\ op'[q].app = op[q].app /\ op'[q].seen = op[q].seen
    BY <1>3, <2>1, <2>2 DEF Recount, End, Operations, TypeInv
  <2>4. \A r \in Requests : r # q => op'[r] = op[r] /\ op[r].step # "commit"
    BY <1>3 DEF Recount, QuotaFree, Accepting, At, End, TypeInv
  <2> QED  BY <1>3, <2>3, <2>4 DEF Recount, records, Unchanged, App
<1>4. ASSUME NEW q \in Requests, op'[q].step = "commit"
      PROVE  Unchanged(q)' /\ \A r \in Requests : op'[r].step = "commit" => r = q
  <2>1. CASE Recount(q)
    BY <1>3, <1>4, <2>1
  <2>2. CASE op'[q] = op[q]
    <3>1. ASSUME NEW r \in Requests, op'[r].step = "commit", r # q
          PROVE  FALSE
      <4>1. CASE op'[r] = op[r]
        BY <1>4, <2>2, <3>1, <4>1 DEF TypeInv, LocksHold, Accepting, At
      <4>2. CASE Recount(r)
        BY <1>3, <1>4, <3>1, <4>2
      <4> QED  BY <3>1, <4>1, <4>2, NewlyAccepting
    <3> QED  BY <1>2, <1>4, <2>2, <3>1
  <2> QED  BY <1>4, <2>1, <2>2, NewlyAccepting
<1> QED  BY <1>4 DEF LocksHold, Accepting, At

\* The invariant of the types is kept by every step.
LEMMA TypeStep == TypeInv /\ [Next]_vars => TypeInv'
<1> SUFFICES ASSUME TypeInv, [Next]_vars PROVE TypeInv'
  OBVIOUS
<1>1. RecordsFit' /\ WorldFits'
  BY RecordsFitStep, WorldFitsStep
<1>2. (\A r \in Requests : CallFits(op[r]))'
  BY CallsFit DEF TypeInv
<1>3. (op \in [Requests -> Operations \cup {Idle}])'
  BY <1>2, CallsFit DEF TypeInv, CallFits
<1> QED  BY <1>1, <1>2, <1>3, LocksStep DEF TypeInv

\* It holds in every reachable state.
LEMMA Typed == Spec => []TypeInv
BY TypeInit, TypeStep, PTL DEF Spec

\* Whatever interleaves, the records, the world and the calls stay well-formed.
THEOREM AdmissionsAreTyped == Spec => []TypeOK
<1>1. TypeInv => TypeOK
  BY DEF TypeInv, RecordsFit, WorldFits, TypeOK
<1> QED  BY <1>1, Typed, PTL

----------------------------------------------------------------------------
(***************************************************************************)
(* The quota.  The reservations a decision took for expired are still      *)
(* expired when it counts the seats: no reservation is ever renewed.       *)
(***************************************************************************)
ExpiredThen == \A r \in Requests : op[r].expired \subseteq expired

\* No call has read anything at first.
LEMMA ExpiredInit == Init => ExpiredThen
BY DEF Init, ExpiredThen, Idle

\* A reservation that has expired stays so, whichever call goes on.
LEMMA ExpiredStep == TypeInv /\ ExpiredThen /\ [Next]_vars => ExpiredThen'
<1> SUFFICES ASSUME TypeInv, ExpiredThen, [Next]_vars PROVE ExpiredThen'
  OBVIOUS
<1> USE DEF ExpiredThen, TypeInv, Idle, world
<1>1. CASE UNCHANGED vars
  BY <1>1 DEF vars
<1>2. ASSUME NEW r \in Requests, NEW a \in Applications,
             \/ LoadToSubmit(r, a) \/ LoadToEnroll(r, a)
             \/ \E s \in Stages, x \in ReviewOutcomes : LoadToReview(r, a, s, x)
             \/ \E d \in Outcomes : LoadToDecide(r, a, d)
      PROVE  ExpiredThen'
  <2>1. /\ op'[r].expired \in {expired, {}} /\ UNCHANGED expired
        /\ \A q \in Requests \ {r} : op'[q] = op[q]
    <3>1. CASE LoadToSubmit(r, a) \/ LoadToEnroll(r, a)
      BY <3>1 DEF LoadToSubmit, LoadToEnroll, Start
    <3>2. CASE \E s \in Stages, x \in ReviewOutcomes : LoadToReview(r, a, s, x)
      BY <3>2 DEF LoadToReview
    <3>3. CASE \E d \in Outcomes : LoadToDecide(r, a, d)
      BY <3>3 DEF LoadToDecide
    <3> QED  BY <1>2, <3>1, <3>2, <3>3
  <2> QED  BY <2>1
<1>3. ASSUME NEW r \in Requests,
             \/ Abort(r) \/ Submit(r) \/ SaveReview(r) \/ Accept(r) \/ Decline(r)
             \/ RecordSuccess(r) \/ CompleteConversion(r)
      PROVE  ExpiredThen'
  <2>1. /\ op'[r].expired = {} /\ UNCHANGED expired
        /\ \A q \in Requests \ {r} : op'[q] = op[q]
    <3>1. CASE End(r) /\ UNCHANGED expired
      BY <3>1 DEF End
    <3>2. CASE Decide(r) /\ UNCHANGED expired
      BY <3>2 DEF Decide
    <3> QED
      BY <1>3, <3>1, <3>2 DEF Abort, Submit, SaveReview, Accept, Decline, RecordSuccess, Log,
                              CompleteConversion
  <2> QED  BY <2>1
<1>4. ASSUME NEW r \in Requests,
             \/ CheckIntake(r) \/ CheckReviews(r) \/ RecordIntent(r)
             \/ RegisterStudent(r) \/ CheckTerm(r) \/ RegisterEnrollment(r)
             \/ FindConversion(r) \/ FindSeat(r) \/ BeginConversion(r) \/ Recount(r)
      PROVE  ExpiredThen'
  <2>1. op[r] \in Operations
    BY <1>4, UnderWay DEF CheckIntake, CheckReviews, RecordIntent, RegisterStudent, CheckTerm,
         RegisterEnrollment, FindConversion, FindSeat, BeginConversion, Recount, At
  <2>2. op'[r].expired \in {op[r].expired, {}} /\ UNCHANGED expired
        /\ \A q \in Requests \ {r} : op'[q] = op[q]
    BY <1>4, <2>1 DEF CheckIntake, CheckReviews, RecordIntent, Log, RegisterStudent, CheckTerm,
         RegisterEnrollment, FindConversion, FindSeat, BeginConversion, Recount, Goto, End,
         Operations
  <2> QED  BY <2>2
<1>5. CASE CloseIntake \/ ConfigureQuota \/ \E a \in Applications : Expire(a)
  BY <1>5 DEF CloseIntake, ConfigureQuota, Expire
<1> QED  BY <1>1, <1>2, <1>3, <1>4, <1>5 DEF Next

\* Nothing but an acceptance makes an application accepted.
LEMMA OnlyAccepting ==
    ASSUME TypeInv, [Next]_vars, NEW a \in Applications,
           status[a] # "accepted", status'[a] = "accepted"
    PROVE  \E r \in Requests :
              /\ Accept(r) /\ App(r) = a /\ App(r) \in Applications
              /\ seat' = [seat EXCEPT ![a] = "active"]
              /\ UNCHANGED <<expired, capacity>>
<1>1. status' # status
  OBVIOUS
<1>2. ASSUME NEW r \in Requests, Submit(r) \/ SaveReview(r) \/ CompleteConversion(r)
      PROVE  FALSE
  BY <1>2 DEF Submit, SaveReview, CompleteConversion, SetStatus, TypeInv, RecordsFit
<1>3. ASSUME NEW r \in Requests, Decline(r)
      PROVE  FALSE
  BY <1>3 DEF Decline, Decide, SetStatus, TypeInv, RecordsFit
<1>4. ASSUME NEW r \in Requests, Accept(r)
      PROVE  /\ Accept(r) /\ App(r) = a /\ App(r) \in Applications
             /\ seat' = [seat EXCEPT ![a] = "active"]
             /\ UNCHANGED <<expired, capacity>>
  BY <1>4 DEF Accept, Decide, SetStatus, TypeInv, RecordsFit, world
<1> QED
  BY <1>1, <1>2, <1>3, <1>4
     DEF Next, vars, records, LoadToSubmit, LoadToReview, LoadToDecide, LoadToEnroll, Abort,
         CheckIntake, CheckReviews, RecordIntent, RecordSuccess, Recount, FindConversion,
         FindSeat, BeginConversion, RegisterStudent, CheckTerm, RegisterEnrollment,
         CloseIntake, ConfigureQuota, Expire

\* What an acceptance has counted is below the capacity, and is every seat that is taken,
\* those used after their reservation ran out aside.
CountInv ==
    \A r \in Requests : Accepting(r) =>
        /\ op[r].counted \subseteq Applications
        /\ Cardinality(op[r].counted) < capacity
        /\ Occupied(expired) \ UsedLate(r) \subseteq op[r].counted

\* No call has counted anything at first.
LEMMA CountInit == Init => CountInv
BY DEF Init, CountInv, Accepting, At, Idle

\* While an acceptance has its locks, seats are given back or used, none is newly taken.
LEMMA SeatsWhileLocked ==
    ASSUME TypeInv, [Next]_vars, NEW r \in Requests, Accepting(r), op'[r] = op[r]
    PROVE  /\ capacity' = capacity
           /\ Occupied(expired)' \ UsedLate(r)'
                 \subseteq (Occupied(expired) \ UsedLate(r)) \cup op[r].counted
<1>1. ASSUME NEW q \in Requests, Accept(q)
      PROVE  FALSE
  <2>1. q = r
    BY <1>1 DEF Accept, TypeInv, LocksHold
  <2> QED  BY <1>1, <2>1 DEF Accept, Accepting, At, Decide, Idle, TypeInv
<1>2. ~ConfigureQuota
  BY DEF ConfigureQuota, QuotaFree
<1>3. ASSUME NEW q \in Requests, CompleteConversion(q)
      PROVE  /\ capacity' = capacity
             /\ Occupied(expired)' \ UsedLate(r)'
                   \subseteq (Occupied(expired) \ UsedLate(r)) \cup op[r].counted
  <2>1. \A a \in Applications :
           \/ seat'[a] = seat[a]
           \/ seat[a] = "active" /\ seat'[a] = "consumed"
    BY <1>3 DEF CompleteConversion, TypeInv, RecordsFit
  <2>2. UNCHANGED <<expired, capacity>>
    BY <1>3 DEF CompleteConversion, world
  <2>3. expired' = expired /\ op'[r].counted = op[r].counted
    BY <2>2
  <2>4. ASSUME NEW a \in Occupied(expired)', a \notin UsedLate(r)', a \notin op[r].counted
        PROVE  a \in Occupied(expired) /\ a \notin UsedLate(r)
    <3>1. a \in Applications
          /\ (seat'[a] = "consumed" \/ (seat'[a] = "active" /\ a \notin expired))
      BY <2>3, <2>4 DEF Occupied
    <3>2. ~(a \in expired /\ seat'[a] = "consumed")
      BY <2>3, <2>4 DEF UsedLate
    <3> QED  BY <2>1, <3>1, <3>2 DEF Occupied, UsedLate
  <2> QED  BY <2>2, <2>4
<1>4. ASSUME NEW a \in Applications, Expire(a)
      PROVE  /\ capacity' = capacity
             /\ Occupied(expired)' \ UsedLate(r)'
                   \subseteq (Occupied(expired) \ UsedLate(r)) \cup op[r].counted
  BY <1>4 DEF Expire, records, Occupied, UsedLate
<1>5. CASE UNCHANGED <<seat, expired, capacity>>
  BY <1>5 DEF Occupied, UsedLate
<1> QED
  BY <1>1, <1>2, <1>3, <1>4, <1>5
     DEF Next, vars, records, world, LoadToSubmit, LoadToReview, LoadToDecide, LoadToEnroll,
         Start, Abort, Submit, SaveReview, CheckIntake, CheckReviews, RecordIntent,
         RecordSuccess, Recount, Decline, Log, FindConversion, FindSeat, BeginConversion,
         RegisterStudent, CheckTerm, RegisterEnrollment, CloseIntake

\* The recount finds every seat that is taken, for it counts at an earlier time.
LEMMA CountStep == TypeInv /\ ExpiredThen /\ CountInv /\ [Next]_vars => CountInv'
<1> SUFFICES ASSUME TypeInv, ExpiredThen, CountInv, [Next]_vars,
                    NEW r \in Requests, op'[r].step = "commit"
             PROVE  /\ op'[r].counted \subseteq Applications
                    /\ Cardinality(op'[r].counted) < capacity'
                    /\ Occupied(expired)' \ UsedLate(r)' \subseteq op'[r].counted
  BY DEF CountInv, Accepting, At
<1>1. CASE op'[r] = op[r]
  BY <1>1, SeatsWhileLocked DEF CountInv, Accepting, At
<1>2. CASE Recount(r)
  <2>1. op' # [op EXCEPT ![r] = Idle]
    BY DEF Idle, TypeInv
  <2>2. /\ op'[r].counted = Occupied(op[r].expired)
        /\ Cardinality(Occupied(op[r].expired)) < capacity
    BY <1>2, <2>1, UnderWay DEF Recount, At, End, Operations, TypeInv
  <2>3. Occupied(expired) \subseteq Occupied(op[r].expired)
    BY DEF Occupied, ExpiredThen
  <2>4. Occupied(op[r].expired) \subseteq Applications
    BY DEF Occupied
  <2>5. capacity' = capacity /\ Occupied(expired)' = Occupied(expired)
    BY <1>2 DEF Recount, records, world, Occupied
  <2> QED  BY <2>2, <2>3, <2>4, <2>5
<1> QED  BY <1>1, <1>2, NewlyAccepting

\* The seats an acceptance has counted, and its own, are all that are taken when it commits,
\* those used after their reservation ran out aside.
LEMMA SeatsFit ==
    ASSUME TypeInv, CountInv, NEW r \in Requests, App(r) \in Applications, Accepting(r),
           seat' = [seat EXCEPT ![App(r)] = "active"], UNCHANGED <<expired, capacity>>
    PROVE  Cardinality(Occupied(expired)' \ UsedLate(r)) <= capacity'
<1> DEFINE before == op[r].counted
           after == Occupied(expired)' \ UsedLate(r)
<1>1. before \subseteq Applications /\ Cardinality(before) < capacity
  BY DEF CountInv
<1>2. after \subseteq before \cup {App(r)}
  BY DEF CountInv, Occupied, TypeInv, RecordsFit
<1>3. IsFiniteSet(before)
  BY <1>1, ApplicationsAssumption, FS_Subset
<1> HIDE DEF before, after
<1>4. /\ IsFiniteSet(before \cup {App(r)})
      /\ Cardinality(before \cup {App(r)})
            = IF App(r) \in before THEN Cardinality(before) ELSE Cardinality(before) + 1
  BY <1>3, FS_AddElement
<1>5. Cardinality(after) <= Cardinality(before \cup {App(r)})
  BY <1>2, <1>4, FS_Subset
<1>6. /\ Cardinality(before) \in Nat /\ Cardinality(after) \in Nat
      /\ Cardinality(before \cup {App(r)}) \in Nat
  BY <1>2, <1>3, <1>4, FS_Subset, FS_CardinalityType
<1>7. capacity \in Nat /\ capacity' = capacity
  BY BoundsAssumption DEF TypeInv, RecordsFit
<1> QED  BY <1>1, <1>4, <1>5, <1>6, <1>7 DEF after

\* An acceptance takes no seat beyond the capacity, however many applications, calls and
\* seats there are, whatever happened since the decision took its time, and whichever
\* conversion completes between its recount and its commit.
THEOREM AcceptancesFit == Spec => AcceptanceFitsQuota
<1> DEFINE Fits == \A a \in Applications :
             status[a] # "accepted" /\ status'[a] = "accepted" =>
                \E r \in Requests :
                   /\ Accepting(r) /\ App(r) = a
                   /\ Cardinality(Occupied(expired)' \ UsedLate(r)) <= capacity'
<1>1. TypeInv /\ CountInv /\ [Next]_vars => Fits
  <2> SUFFICES ASSUME TypeInv, CountInv, [Next]_vars, NEW a \in Applications,
                      status[a] # "accepted", status'[a] = "accepted"
               PROVE  \E r \in Requests :
                         /\ Accepting(r) /\ App(r) = a
                         /\ Cardinality(Occupied(expired)' \ UsedLate(r)) <= capacity'
    OBVIOUS
  <2>1. PICK r \in Requests :
           /\ Accept(r) /\ App(r) = a /\ App(r) \in Applications
           /\ seat' = [seat EXCEPT ![a] = "active"]
           /\ UNCHANGED <<expired, capacity>>
    BY OnlyAccepting
  <2>2. Accepting(r)
    BY <2>1 DEF Accept
  <2> QED  BY <2>1, <2>2, SeatsFit
<1>2. TypeInv /\ CountInv /\ [Next]_vars => [Fits]_vars
  BY <1>1
<1>3. Spec => [][Fits]_vars
  <2> HIDE DEF Fits
  <2> QED
    BY <1>2, Typed, ExpiredInit, ExpiredStep, CountInit, CountStep, TypeInit, TypeStep, PTL
       DEF Spec
<1> QED  BY <1>3 DEF AcceptanceFitsQuota

----------------------------------------------------------------------------
(***************************************************************************)
(* What a call has read of an application stays true of it: reviews, audit *)
(* events, decisions, registrations and conversions are never taken back,  *)
(* and an accepted application stays accepted or becomes enrolled.         *)
(***************************************************************************)
Admitted == {"accepted", "enrolled"}

Kept ==
    /\ audit \subseteq audit' /\ students \subseteq students' /\ enrollments \subseteq enrollments'
    /\ \A a \in Applications :
          /\ reviews[a] \subseteq reviews'[a]
          /\ status[a] \in Admitted => status'[a] \in Admitted
          /\ conversion[a] # NoConversion =>
                conversion'[a] # NoConversion /\ conversion'[a].id = conversion[a].id
          /\ Len(decisions'[a]) >= Len(decisions[a])
          /\ \A i \in 1..Len(decisions[a]) : decisions'[a][i] = decisions[a][i]

\* A decision appends to the history of an application that is still open.
LEMMA DecidingKeeps ==
    ASSUME TypeInv, NEW r \in Requests, Accept(r) \/ Decline(r)
    PROVE  Kept
<1>1. op[r] \in Operations /\ CallFits(op[r]) /\ App(r) \in Applications
  BY UnderWay DEF Accept, Accepting, Decline, At, Operations, App, TypeInv
<1>2. op[r].seen \in OpenStatuses
  BY <1>1 DEF Accept, Accepting, Decline, At, CallFits, Undecided
<1>3. CASE Decide(r) /\ Unchanged(r)
  <2>1. \A a \in Applications : status[a] \in Admitted => status'[a] \in Admitted
    BY <1>1, <1>2, <1>3 DEF Decide, SetStatus, Unchanged, OpenStatuses, Admitted, TypeInv,
                            RecordsFit
  <2>2. \A a \in Applications :
          /\ Len(decisions'[a]) >= Len(decisions[a])
          /\ \A i \in 1..Len(decisions[a]) : decisions'[a][i] = decisions[a][i]
    <3>1. op[r].outcome \in Decisions
      BY <1>1 DEF Accept, Accepting, Decline, At, CallFits, Undecided
    <3>2. TAKE a \in Applications
    <3>3. decisions[a] \in Seq(Decisions)
      BY DEF TypeInv, RecordsFit
    <3>4. decisions'[a] \in {decisions[a], Append(decisions[a], op[r].outcome)}
      BY <1>1, <1>3 DEF Decide, TypeInv, RecordsFit
    <3> QED  BY <3>1, <3>3, <3>4
  <2> QED  BY <2>1, <2>2 DEF Accept, Decline, Kept, world
<1>4. CASE UNCHANGED <<status, decisions>>
  BY <1>4 DEF Accept, Decline, Kept, world, TypeInv, RecordsFit
<1> QED  BY <1>3, <1>4 DEF Accept, Decline, TypeInv, LocksHold

\* No step takes back what a call may have read.
LEMMA StepKeeps ==
    ASSUME TypeInv, [Next]_vars
    PROVE  Kept
<1>1. CASE /\ UNCHANGED <<reviews, status, conversion, decisions>>
           /\ audit \subseteq audit' /\ students \subseteq students'
           /\ enrollments \subseteq enrollments'
  BY <1>1 DEF Kept, TypeInv, RecordsFit
<1>2. ASSUME NEW r \in Requests, Submit(r) \/ SaveReview(r)
      PROVE  Kept
  <2>1. op[r] \in Operations /\ CallFits(op[r]) /\ App(r) \in Applications
    BY <1>2, UnderWay DEF Submit, SaveReview, At, Operations, App, TypeInv
  <2>2. op[r].seen \notin Admitted
    BY <1>2, <2>1 DEF Submit, SaveReview, At, CallFits, OpenStatuses, Admitted
  <2>3. \A a \in Applications : status[a] \in Admitted => status'[a] \in Admitted
    BY <1>2, <2>1, <2>2 DEF Submit, SaveReview, SetStatus, Unchanged, TypeInv, RecordsFit
  <2>4. \A a \in Applications : reviews[a] \subseteq reviews'[a]
    BY <1>2, <2>1 DEF Submit, SaveReview, TypeInv, RecordsFit
  <2> QED  BY <1>2, <2>3, <2>4 DEF Submit, SaveReview, Kept, world, TypeInv, RecordsFit
<1>3. ASSUME NEW r \in Requests, BeginConversion(r) \/ CompleteConversion(r)
      PROVE  Kept
  <2>1. App(r) \in Applications
    BY <1>3, UnderWay DEF BeginConversion, CompleteConversion, At, Operations, App
  <2>2. \A a \in Applications : status[a] \in Admitted => status'[a] \in Admitted
    BY <1>3, <2>1 DEF BeginConversion, CompleteConversion, SetStatus, Admitted, TypeInv,
                      RecordsFit
  <2>3. \A a \in Applications : conversion[a] # NoConversion =>
           conversion'[a] # NoConversion /\ conversion'[a].id = conversion[a].id
    <3>1. TAKE a \in Applications
    <3>2. HAVE conversion[a] # NoConversion
    <3>3. conversion[a] \in Conversions
      BY <3>2 DEF TypeInv, RecordsFit
    <3>4. conversion'[a] \in {conversion[a], [conversion[a] EXCEPT !.completed = TRUE]}
      BY <1>3, <2>1, <3>2 DEF BeginConversion, CompleteConversion, TypeInv, RecordsFit
    <3> QED  BY <3>2, <3>3, <3>4, NothingAssumption DEF Conversions, NoConversion
  <2> QED
    BY <1>3, <2>2, <2>3 DEF BeginConversion, CompleteConversion, Kept, world, TypeInv,
                            RecordsFit
<1>4. CASE CloseIntake \/ ConfigureQuota \/ \E a \in Applications : Expire(a)
  BY <1>1, <1>4 DEF CloseIntake, ConfigureQuota, Expire, records, world
<1> QED
  BY <1>1, <1>2, <1>3, <1>4, DecidingKeeps
     DEF Next, vars, records, world, LoadToSubmit, LoadToReview, LoadToDecide, LoadToEnroll,
         Start, Abort, CheckIntake, CheckReviews, RecordIntent, RecordSuccess, Recount, Log,
         FindConversion, FindSeat, RegisterStudent, CheckTerm, RegisterEnrollment

----------------------------------------------------------------------------
(***************************************************************************)
(* Reviews.  An acceptance that has passed the review check is of an       *)
(* application whose stages are passed, and they stay so.                  *)
(***************************************************************************)
Passed(a) == \A s \in Stages : \E v \in reviews[a] : v.stage = s /\ v.outcome = "passed"

ReviewInv ==
    /\ \A a \in Applications : status[a] \in Admitted => Passed(a)
    /\ \A r \in Requests :
          op[r].step \in {"intent", "decide", "commit"} /\ op[r].outcome = "accepted" =>
             Passed(App(r))

\* No application is accepted at first.
LEMMA ReviewInit == Init => ReviewInv
BY DEF Init, ReviewInv, Admitted, Idle

\* Reviews are checked before a call intends to accept, and never lost.
LEMMA ReviewStep == TypeInv /\ ReviewInv /\ [Next]_vars => ReviewInv'
<1> SUFFICES ASSUME TypeInv, ReviewInv, [Next]_vars PROVE ReviewInv'
  OBVIOUS
<1>1. \A a \in Applications : Passed(a) => Passed(a)'
  BY StepKeeps DEF Kept, Passed
<1>2. ASSUME NEW r \in Requests, op'[r].step \in {"intent", "decide", "commit"},
             op'[r].outcome = "accepted"
      PROVE  Passed(App(r))'
  <2>1. CASE op'[r] = op[r]
    <3>1. App(r) \in Applications
      BY <1>2, <2>1, UnderWay DEF Operations, App
    <3> QED  BY <1>1, <1>2, <2>1, <3>1 DEF ReviewInv, App, Passed
  <2>2. CASE Loading(r)
    BY <1>2, <2>2, LoadingSteps
  <2>3. CASE Deciding(r)
    <3>1. op[r] \in Operations /\ App(r) \in Applications
      BY <2>3, UnderWay DEF Deciding, CheckIntake, CheckReviews, RecordIntent, Recount,
                            Accept, Accepting, Decline, At, Operations, App
    <3>2. CASE CheckReviews(r)
      BY <1>2, <3>1, <3>2 DEF CheckReviews, ReviewsPass, StagePassed, Passed, Goto, End, Idle,
                              App, Operations, records, TypeInv
    <3>3. CASE RecordIntent(r)
      <4>1. op[r].step = "intent" /\ op[r].outcome = "accepted" /\ App(r)' = App(r)
        BY <1>2, <3>1, <3>3 DEF RecordIntent, At, Goto, App, Operations, TypeInv
      <4> QED  BY <1>1, <3>1, <4>1 DEF ReviewInv, Passed
    <3>5. CASE Recount(r)
      <4>1. op[r].step = "decide" /\ op[r].outcome = "accepted" /\ App(r)' = App(r)
        BY <1>2, <3>1, <3>5 DEF Recount, At, End, Idle, App, Operations, TypeInv
      <4> QED  BY <1>1, <3>1, <4>1 DEF ReviewInv, Passed
    <3>4. CASE CheckIntake(r) \/ Accept(r) \/ Decline(r)
      <4>1. op'[r].step \in {"idle", "reviews", "confirm"}
        <5>1. CASE Decide(r)
          BY <5>1 DEF Decide, Idle, TypeInv
        <5>2. CASE End(r)
          BY <5>2 DEF End, Idle, TypeInv
        <5>3. CASE Goto(r, "reviews")
          BY <3>1, <5>3 DEF Goto, Operations, TypeInv
        <5> QED  BY <3>4, <5>1, <5>2, <5>3 DEF CheckIntake, Accept, Decline
      <4> QED  BY <1>2, <4>1
    <3> QED  BY <2>3, <3>2, <3>3, <3>4, <3>5 DEF Deciding
  <2>4. CASE Enrolling(r)
    BY <1>2, <2>4, UnderWay
       DEF Enrolling, FindConversion, FindSeat, BeginConversion, RegisterStudent, CheckTerm,
           RegisterEnrollment, Goto, End, Idle, Operations, At, TypeInv
  <2> QED  BY <1>2, <2>1, <2>2, <2>3, <2>4, OwnStep DEF Idle
<1>3. ASSUME NEW a \in Applications, status'[a] \in Admitted
      PROVE  Passed(a)'
  <2>1. CASE status[a] \in Admitted
    BY <1>1, <2>1 DEF ReviewInv
  <2>2. CASE status[a] \notin Admitted /\ status'[a] = "accepted"
    <3>1. PICK r \in Requests : Accept(r) /\ App(r) = a
      BY <2>2, OnlyAccepting DEF Admitted
    <3>2. op[r].step = "commit" /\ op[r].outcome = "accepted"
      BY <3>1 DEF Accept, Accepting, At, TypeInv, CallFits
    <3> QED  BY <1>1, <3>1, <3>2 DEF ReviewInv
  <2>3. CASE status[a] \notin Admitted /\ status'[a] = "enrolled"
    <3>1. ASSUME NEW r \in Requests, Submit(r) \/ SaveReview(r) \/ CompleteConversion(r)
          PROVE  FALSE
      BY <2>3, <3>1 DEF Submit, SaveReview, CompleteConversion, SetStatus, Admitted, TypeInv,
                        RecordsFit
    <3>2. ASSUME NEW r \in Requests, Accept(r) \/ Decline(r)
          PROVE  FALSE
      <4>1. op[r].outcome \in Decisions
        BY <3>2 DEF Accept, Accepting, Decline, At, TypeInv, CallFits, Undecided
      <4> QED
        BY <2>3, <3>2, <4>1 DEF Accept, Decline, Decide, SetStatus, Admitted, Decisions,
                                TypeInv, RecordsFit
    <3>3. status' # status
      BY <2>3 DEF Admitted
    <3> QED
      BY <3>1, <3>2, <3>3
         DEF Next, vars, records, LoadToSubmit, LoadToReview, LoadToDecide, LoadToEnroll,
             Abort, CheckIntake, CheckReviews, RecordIntent, RecordSuccess, Recount,
             FindConversion, FindSeat, BeginConversion, RegisterStudent, CheckTerm,
             RegisterEnrollment, CloseIntake, ConfigureQuota, Expire
  <2> QED  BY <1>3, <2>1, <2>2, <2>3 DEF Admitted
<1> QED  BY <1>2, <1>3 DEF ReviewInv

\* Nobody is accepted or enrolled without a passed review of every stage, however many
\* stages and reviews there are and whatever is reviewed and decided at a time.
THEOREM AcceptedAreReviewed == Spec => []ReviewedBeforeAcceptance
<1>1. ReviewInv => ReviewedBeforeAcceptance
  BY DEF ReviewInv, ReviewedBeforeAcceptance, Passed, Admitted
<1> QED  BY <1>1, TypeInit, TypeStep, ReviewInit, ReviewStep, PTL DEF Spec

----------------------------------------------------------------------------
(***************************************************************************)
(* Decisions.  The history of an application is at most one waiting list   *)
(* decision and a final one, and the call that decides has its intent      *)
(* audited, the call that confirms its decision taken.                     *)
(***************************************************************************)
Taken(a, d) == \E i \in 1..Len(decisions[a]) : decisions[a][i] = d

Tells(a) ==
    LET n == Len(decisions[a]) IN
    /\ n = 0 => status[a] \in {"draft", "submitted", "under_review"}
    /\ n > 0 => \/ status[a] = decisions[a][n]
                \/ status[a] = "enrolled" /\ decisions[a][n] = "accepted"
    /\ n <= 2
    /\ n = 2 => decisions[a][1] = "waitlisted" /\ decisions[a][2] # "waitlisted"
    /\ seat[a] # "none" <=> status[a] \in Admitted

StoryInv == \A a \in Applications : Tells(a)

AnnouncedInv ==
    /\ \A a \in Applications, d \in Decisions : IsAnnounced(a, d)
    /\ \A r \in Requests :
          /\ op[r].step \in {"decide", "commit"} => <<App(r), op[r].outcome, "intent">> \in audit
          /\ op[r].step = "confirm" => Taken(App(r), op[r].outcome)

\* An application begins as a draft without decision or seat.
LEMMA StoryInit == Init => StoryInv
BY DEF Init, StoryInv, Tells, Admitted

\* A decision is taken of an application that is open, and waits only once.
LEMMA DecidingTells ==
    ASSUME TypeInv, StoryInv, NEW r \in Requests, Accept(r) \/ Decline(r), Decide(r),
           Unchanged(r)
    PROVE  StoryInv'
<1> DEFINE d == op[r].outcome
<1>1. op[r] \in Operations /\ CallFits(op[r]) /\ App(r) \in Applications
  BY UnderWay DEF Accept, Accepting, Decline, At, Operations, App, TypeInv
<1>2. /\ op[r].seen \in OpenStatuses /\ d \in Decisions
      /\ d = "waitlisted" => op[r].seen # "waitlisted"
  BY <1>1 DEF Accept, Accepting, Decline, At, CallFits, Undecided
<1>3. ASSUME NEW a \in Applications, a = App(r)
      PROVE  Tells(a)'
  <2> DEFINE h == decisions[a]
  <2>1. h \in Seq(Decisions) /\ Len(h) \in Nat
    BY DEF TypeInv, RecordsFit
  <2>2. decisions'[a] = Append(h, d) /\ status'[a] = d
    BY <1>1, <1>3 DEF Decide, SetStatus, TypeInv, RecordsFit
  <2>3. /\ Len(Append(h, d)) = Len(h) + 1
        /\ Append(h, d)[Len(h) + 1] = d
        /\ \A i \in 1..Len(h) : Append(h, d)[i] = h[i]
    BY <1>2, <2>1
  <2>4. status[a] \in OpenStatuses /\ (d = "waitlisted" => status[a] # "waitlisted")
    BY <1>2, <1>3 DEF Unchanged
  <2>5. Len(h) \in {0, 1} /\ (Len(h) = 1 => h[1] = "waitlisted" /\ d # "waitlisted")
    <3>1. Len(h) > 0 => h[Len(h)] \in Decisions
      BY <2>1
    <3>2. /\ Len(h) <= 2
          /\ Len(h) > 0 => \/ status[a] = h[Len(h)]
                           \/ status[a] = "enrolled"
          /\ Len(h) = 2 => h[2] # "waitlisted"
      BY DEF StoryInv, Tells
    <3>3. Len(h) > 0 => status[a] = h[Len(h)] /\ h[Len(h)] = "waitlisted"
      BY <2>4, <3>1, <3>2 DEF OpenStatuses, Decisions
    <3> HIDE DEF h
    <3>4. Len(h) # 2
      BY <3>2, <3>3
    <3>5. Len(h) \in {0, 1}
      <4> DEFINE n == Len(h)
      <4>1. n \in Nat /\ n <= 2 /\ n # 2
        BY <2>1, <3>2, <3>4
      <4> HIDE DEF n
      <4>2. n \in {0, 1}
        BY <4>1
      <4> QED  BY <4>2 DEF n
    <3> QED  BY <2>4, <3>3, <3>5
  <2>6. seat'[a] # "none" <=> d = "accepted"
    <3>1. status[a] \notin Admitted
      BY <2>4 DEF OpenStatuses, Admitted
    <3>2. seat[a] = "none"
      BY <3>1 DEF StoryInv, Tells
    <3>3. CASE Accept(r)
      <4>1. d = "accepted"
        BY <1>1, <3>3 DEF Accept, Accepting, At, CallFits
      <4>2. seat' = [seat EXCEPT ![App(r)] = "active"]
        BY <3>3 DEF Accept
      <4> QED  BY <1>3, <4>1, <4>2 DEF TypeInv, RecordsFit
    <3>4. CASE Decline(r)
      BY <3>2, <3>4 DEF Decline
    <3> QED  BY <3>3, <3>4
  <2>7. Len(decisions'[a]) = Len(h) + 1 /\ decisions'[a][Len(h) + 1] = status'[a]
    BY <2>2, <2>3
  <2>8. status'[a] \in Decisions
    BY <1>2, <2>2
  <2>9. seat'[a] # "none" <=> status'[a] \in Admitted
    BY <2>2, <2>6, <2>8 DEF Decisions, Admitted
  <2>10. CASE Len(h) = 0
    <3>1. Len(decisions'[a]) = 1
      BY <2>7, <2>10
    <3> HIDE DEF h
    <3> QED  BY <2>7, <2>9, <2>10, <3>1 DEF Tells
  <2>11. CASE Len(h) = 1
    <3>1. Len(decisions'[a]) = 2
      BY <2>7, <2>11
    <3>2. decisions'[a][1] = "waitlisted" /\ decisions'[a][2] = status'[a]
          /\ status'[a] # "waitlisted"
      BY <2>2, <2>3, <2>5, <2>7, <2>11
    <3> HIDE DEF h
    <3> QED  BY <2>9, <3>1, <3>2 DEF Tells
  <2> QED  BY <2>5, <2>10, <2>11
<1>4. ASSUME NEW a \in Applications, a # App(r)
      PROVE  Tells(a)'
  BY <1>1, <1>4 DEF StoryInv, Tells, Accept, Decline, Decide, SetStatus, TypeInv, RecordsFit
<1> QED  BY <1>3, <1>4 DEF StoryInv

\* Every write of a status compares the one that was read.
LEMMA StoryStep == TypeInv /\ StoryInv /\ [Next]_vars => StoryInv'
<1> SUFFICES ASSUME TypeInv, StoryInv, [Next]_vars PROVE StoryInv'
  OBVIOUS
<1>1. CASE UNCHANGED <<decisions, status, seat>>
  BY <1>1 DEF StoryInv, Tells
<1>2. ASSUME NEW r \in Requests, Accept(r) \/ Decline(r)
      PROVE  StoryInv'
  BY <1>1, <1>2, DecidingTells DEF Accept, Decline, TypeInv, LocksHold
<1>3. ASSUME NEW r \in Requests, Submit(r) \/ SaveReview(r)
      PROVE  StoryInv'
  <2>1. op[r] \in Operations /\ CallFits(op[r]) /\ App(r) \in Applications
    BY <1>3, UnderWay DEF Submit, SaveReview, At, Operations, App, TypeInv
  <2>2. op[r].seen \in {"draft", "submitted", "under_review"}
    BY <1>3, <2>1 DEF Submit, SaveReview, At, CallFits, OpenStatuses
  <2>3. CASE Unchanged(r)
    <3>1. Len(decisions[App(r)]) = 0
      <4>1. decisions[App(r)] \in Seq(Decisions)
        BY <2>1 DEF TypeInv, RecordsFit
      <4> QED  BY <2>1, <2>2, <2>3, <4>1 DEF StoryInv, Tells, Unchanged, Decisions
    <3>2. \E s \in {"submitted", "under_review"} : SetStatus(r, s)
      BY <1>3, <2>3 DEF Submit, SaveReview
    <3> QED
      BY <1>3, <2>1, <2>2, <2>3, <3>1, <3>2
         DEF Submit, SaveReview, StoryInv, Tells, SetStatus, Unchanged, Admitted, TypeInv,
             RecordsFit
  <2> QED  BY <1>1, <1>3, <2>3 DEF Submit, SaveReview
<1>4. ASSUME NEW r \in Requests, CompleteConversion(r)
      PROVE  StoryInv'
  <2>1. App(r) \in Applications
    BY <1>4, UnderWay DEF CompleteConversion, At, Operations, App
  <2> QED
    <3>1. CASE /\ status[App(r)] = "accepted" /\ seat[App(r)] = "active"
               /\ SetStatus(r, "enrolled") /\ seat' = [seat EXCEPT ![App(r)] = "consumed"]
      <4>1. ASSUME NEW a \in Applications, a = App(r)
            PROVE  Tells(a)'
        <5>1. status'[a] = "enrolled" /\ seat'[a] = "consumed" /\ decisions' = decisions
          BY <1>4, <3>1, <4>1 DEF CompleteConversion, SetStatus, TypeInv, RecordsFit
        <5>2. Len(decisions[a]) # 0 /\ Len(decisions[a]) \in Nat
              /\ decisions[a][Len(decisions[a])] = "accepted"
          <6>1. Len(decisions[a]) \in Nat
            BY DEF TypeInv, RecordsFit
          <6>2. Tells(a) /\ status[a] = "accepted"
            BY <3>1, <4>1 DEF StoryInv
          <6>3. Len(decisions[a]) # 0
            BY <6>2 DEF Tells
          <6> QED  BY <6>1, <6>2, <6>3 DEF Tells
        <5> QED  BY <5>1, <5>2 DEF StoryInv, Tells, Admitted
      <4>2. ASSUME NEW a \in Applications, a # App(r)
            PROVE  Tells(a)'
        BY <1>4, <2>1, <3>1, <4>2 DEF CompleteConversion, StoryInv, Tells, SetStatus, TypeInv,
                                      RecordsFit
      <4> QED  BY <4>1, <4>2 DEF StoryInv
    <3> QED  BY <1>1, <1>4, <3>1 DEF CompleteConversion
<1> QED
  BY <1>1, <1>2, <1>3, <1>4
     DEF Next, vars, records, LoadToSubmit, LoadToReview, LoadToDecide, LoadToEnroll, Abort,
         CheckIntake, CheckReviews, RecordIntent, RecordSuccess, Recount, FindConversion,
         FindSeat, BeginConversion, RegisterStudent, CheckTerm, RegisterEnrollment,
         CloseIntake, ConfigureQuota, Expire

\* Nothing is decided or audited at first.
LEMMA AnnouncedInit == Init => AnnouncedInv
BY DEF Init, AnnouncedInv, IsAnnounced, Idle

\* The intent precedes the decision, and the decision its success.
LEMMA AnnouncedStep == TypeInv /\ AnnouncedInv /\ [Next]_vars => AnnouncedInv'
<1> SUFFICES ASSUME TypeInv, AnnouncedInv, [Next]_vars PROVE AnnouncedInv'
  OBVIOUS
<1>1. \A a \in Applications : \A d : Taken(a, d) => Taken(a, d)'
  <2>1. TypeInv'
    BY TypeStep
  <2> TAKE a \in Applications
  <2> TAKE d
  <2>2. Len(decisions[a]) \in Nat /\ Len(decisions'[a]) \in Nat
    BY <2>1 DEF TypeInv, RecordsFit
  <2> QED  BY <2>2, StepKeeps DEF Kept, Taken
<1>2. ASSUME NEW r \in Requests,
             \/ op'[r].step \in {"decide", "commit"} /\ op[r] = op'[r]
             \/ op'[r].step = "confirm" /\ op[r] = op'[r]
      PROVE  /\ op'[r].step \in {"decide", "commit"} =>
                (<<App(r), op[r].outcome, "intent">> \in audit)'
             /\ op'[r].step = "confirm" => Taken(App(r), op[r].outcome)'
  <2>1. op[r] \in Operations /\ App(r) \in Applications
    BY <1>2, UnderWay DEF Operations, App
  <2>2. audit \subseteq audit' /\ op'[r] = op[r]
    BY <1>2, StepKeeps DEF Kept
  <2>3. ASSUME NEW a, NEW d, a \in Applications, Taken(a, d)
        PROVE  \E i \in 1..Len(decisions'[a]) : decisions'[a][i] = d
    BY <1>1, <2>3 DEF Taken
  <2>4. op'[r].step \in {"decide", "commit"} =>
                (<<App(r), op[r].outcome, "intent">> \in audit)'
    BY <1>2, <2>2 DEF AnnouncedInv, App
  <2>5. CASE op'[r].step = "confirm"
    <3>1. Taken(App(r), op[r].outcome)
      BY <2>2, <2>5 DEF AnnouncedInv
    <3>2. \E i \in 1..Len(decisions'[App(r)]) : decisions'[App(r)][i] = op[r].outcome
      BY <2>1, <2>3, <3>1
    <3> QED  BY <2>2, <2>4, <3>2 DEF App, Taken
  <2> QED  BY <2>4, <2>5
<1>3. ASSUME NEW r \in Requests, Loading(r) \/ Enrolling(r)
      PROVE  op'[r].step \notin {"decide", "commit", "confirm"}
  <2>1. CASE Loading(r)
    BY <2>1, LoadingSteps
  <2>2. CASE Enrolling(r)
    BY <2>2, UnderWay
       DEF Enrolling, FindConversion, FindSeat, BeginConversion, RegisterStudent, CheckTerm,
           RegisterEnrollment, Goto, End, Idle, Operations, At, TypeInv
  <2> QED  BY <1>3, <2>1, <2>2
<1>4. ASSUME NEW r \in Requests, Deciding(r)
      PROVE  /\ op'[r].step \in {"decide", "commit"} =>
                (<<App(r), op[r].outcome, "intent">> \in audit)'
             /\ op'[r].step = "confirm" => Taken(App(r), op[r].outcome)'
  <2>1. op[r] \in Operations /\ App(r) \in Applications
    BY <1>4, UnderWay DEF Deciding, CheckIntake, CheckReviews, RecordIntent, Recount, Accept,
                          Accepting, Decline, At, Operations, App
  <2>2. CASE CheckIntake(r) \/ CheckReviews(r)
    BY <2>1, <2>2 DEF CheckIntake, CheckReviews, Goto, End, Idle, Operations, TypeInv
  <2>3. CASE RecordIntent(r)
    BY <2>1, <2>3 DEF RecordIntent, Log, Goto, App, Operations, TypeInv
  <2>4. CASE (Accept(r) \/ Decline(r)) /\ Decide(r)
    <3>1. /\ op'[r].step = "confirm" /\ App(r)' = App(r) /\ op'[r].outcome = op[r].outcome
      BY <2>4 DEF Decide, Idle, App, TypeInv
    <3>2. decisions'[App(r)] = Append(decisions[App(r)], op[r].outcome)
      BY <2>1, <2>4 DEF Decide, TypeInv, RecordsFit
    <3>3. op[r].outcome \in Decisions /\ decisions[App(r)] \in Seq(Decisions)
      BY <2>1, <2>4 DEF Accept, Accepting, Decline, At, TypeInv, CallFits, Undecided, RecordsFit
    <3>4. \E i \in 1..Len(decisions'[App(r)]) : decisions'[App(r)][i] = op[r].outcome
      <4> DEFINE h == decisions[App(r)]
      <4>1. /\ Len(h) \in Nat /\ Len(Append(h, op[r].outcome)) = Len(h) + 1
            /\ Append(h, op[r].outcome)[Len(h) + 1] = op[r].outcome
        BY <3>3
      <4> HIDE DEF h
      <4> QED  BY <3>2, <4>1 DEF h
    <3> QED  BY <3>1, <3>4 DEF Taken
  <2>5. CASE End(r)
    BY <2>5 DEF End, Idle, TypeInv
  <2>6. CASE Recount(r) /\ ~End(r)
    <3>1. op[r].step = "decide" /\ op'[r].step = "commit" /\ App(r)' = App(r)
          /\ op'[r].outcome = op[r].outcome /\ audit' = audit
      BY <2>1, <2>6 DEF Recount, At, App, Operations, TypeInv, world
    <3> QED  BY <3>1 DEF AnnouncedInv
  <2> QED  BY <1>4, <2>2, <2>3, <2>4, <2>5, <2>6 DEF Deciding, Accept, Decline
<1>5. ASSUME NEW a \in Applications, NEW d \in Decisions
      PROVE  IsAnnounced(a, d)'
  <2>1. Taken(a, d)' => Taken(a, d) \/ <<a, d, "intent">> \in audit
    <3>1. CASE UNCHANGED decisions
      BY <3>1 DEF Taken
    <3>2. ASSUME NEW r \in Requests, (Accept(r) \/ Decline(r)) /\ Decide(r), Taken(a, d)'
          PROVE  Taken(a, d) \/ <<a, d, "intent">> \in audit
      <4>1. App(r) \in Applications /\ op[r].outcome \in Decisions
            /\ decisions[a] \in Seq(Decisions)
        BY <3>2, UnderWay DEF Accept, Accepting, Decline, At, Operations, App, TypeInv,
                              CallFits, Undecided, RecordsFit
      <4>2. <<App(r), op[r].outcome, "intent">> \in audit
        BY <3>2 DEF Accept, Accepting, Decline, At, AnnouncedInv
      <4>3. CASE a # App(r)
        BY <3>2, <4>1, <4>3 DEF Decide, Taken, TypeInv, RecordsFit
      <4>4. CASE a = App(r)
        <5>1. decisions'[a] = Append(decisions[a], op[r].outcome)
          BY <3>2, <4>1, <4>4 DEF Decide, TypeInv, RecordsFit
        <5>2. PICK i \in 1..Len(decisions'[a]) : decisions'[a][i] = d
          BY <3>2 DEF Taken
        <5> QED  BY <4>1, <4>2, <4>4, <5>1, <5>2 DEF Taken
      <4> QED  BY <4>3, <4>4
    <3> QED
      BY <3>1, <3>2
         DEF Next, vars, records, LoadToSubmit, LoadToReview, LoadToDecide, LoadToEnroll,
             Abort, CheckIntake, CheckReviews, RecordIntent, RecordSuccess, Recount,
             FindConversion, FindSeat, BeginConversion, RegisterStudent, CheckTerm,
             RegisterEnrollment, CloseIntake, ConfigureQuota, Expire, Submit, SaveReview,
             Accept, Decline, CompleteConversion
  <2>2. <<a, d, "succeeded">> \in audit' => <<a, d, "succeeded">> \in audit \/ Taken(a, d)
    <3>1. CASE UNCHANGED audit
      BY <3>1
    <3>2. ASSUME NEW r \in Requests, RecordIntent(r)
          PROVE  <<a, d, "succeeded">> \in audit' => <<a, d, "succeeded">> \in audit
      BY <3>2 DEF RecordIntent, Log
    <3>3. ASSUME NEW r \in Requests, RecordSuccess(r)
          PROVE  <<a, d, "succeeded">> \in audit' => <<a, d, "succeeded">> \in audit \/ Taken(a, d)
      BY <3>3 DEF RecordSuccess, At, Log, AnnouncedInv
    <3> QED
      BY <3>1, <3>2, <3>3
         DEF Next, vars, world, LoadToSubmit, LoadToReview, LoadToDecide, LoadToEnroll, Abort,
             CheckIntake, CheckReviews, Recount, FindConversion, FindSeat, BeginConversion,
             RegisterStudent, CheckTerm, RegisterEnrollment, CloseIntake, ConfigureQuota,
             Expire, Submit, SaveReview, Accept, Decline, CompleteConversion
  <2> QED
    BY <1>1, <2>1, <2>2, StepKeeps DEF AnnouncedInv, IsAnnounced, Taken, Kept
<1>6. ASSUME NEW r \in Requests
      PROVE  /\ op'[r].step \in {"decide", "commit"} =>
                (<<App(r), op[r].outcome, "intent">> \in audit)'
             /\ op'[r].step = "confirm" => Taken(App(r), op[r].outcome)'
  BY <1>2, <1>3, <1>4, OwnStep DEF Idle
<1> QED  BY <1>5, <1>6 DEF AnnouncedInv

\* Status, decision history, reservation and audit tell one story, whatever calls interleave
\* and wherever they are cut short.
THEOREM DecisionsTellOneStory == Spec => []DecisionsAgree
<1>1. TypeInv /\ StoryInv /\ AnnouncedInv => DecisionsAgree
  <2> SUFFICES ASSUME TypeInv, StoryInv, AnnouncedInv, NEW a \in Applications
               PROVE  LET n == Len(decisions[a]) IN
                      /\ IF n = 0
                         THEN status[a] \in {"draft", "submitted", "under_review"}
                         ELSE \/ status[a] = decisions[a][n]
                              \/ status[a] = "enrolled" /\ decisions[a][n] = "accepted"
                      /\ n <= 2 /\ \A i \in 1..(n - 1) : decisions[a][i] = "waitlisted"
                      /\ seat[a] # "none" <=> status[a] \in {"accepted", "enrolled"}
                      /\ \A d \in Decisions : IsAnnounced(a, d)
    BY DEF DecisionsAgree
  <2>1. Len(decisions[a]) \in Nat
    BY DEF TypeInv, RecordsFit
  <2>2. Tells(a)
    BY DEF StoryInv
  <2>3. Len(decisions[a]) \in {0, 1, 2}
    <3> DEFINE n == Len(decisions[a])
    <3>1. n \in Nat /\ n <= 2
      BY <2>1, <2>2 DEF Tells
    <3> HIDE DEF n
    <3>2. n \in {0, 1, 2}
      BY <3>1
    <3> QED  BY <3>2 DEF n
  <2>4. \A i \in 1..(Len(decisions[a]) - 1) : decisions[a][i] = "waitlisted"
    BY <2>2, <2>3 DEF Tells
  <2>5. \A d \in Decisions : IsAnnounced(a, d)
    BY DEF AnnouncedInv
  <2> QED  BY <2>2, <2>3, <2>4, <2>5 DEF Tells, Admitted
<1> QED
  BY <1>1, TypeInit, TypeStep, StoryInit, StoryStep, AnnouncedInit, AnnouncedStep, PTL DEF Spec

----------------------------------------------------------------------------
(***************************************************************************)
(* Conversions.  What a resumed or interrupted conversion registers bears  *)
(* the identifiers that were stored first, and each registration is there  *)
(* before the call goes on to the next one.                                *)
(***************************************************************************)
Backed(r) ==
    LET o == op[r] IN
    /\ o.step \in {"conversion", "seat", "begin"} \cup Converting => status[o.app] \in Admitted
    /\ o.step \in {"seat", "begin"} \cup Converting /\ o.held # NoConversion =>
          conversion[o.app] # NoConversion /\ conversion[o.app].id = o.held.id
    /\ o.step \in {"term", "enrollment", "complete"} => <<o.app, o.held.id>> \in students
    /\ o.step = "complete" => <<o.app, o.held.id>> \in enrollments

BackedInv == \A r \in Requests : Backed(r)
WholeInv == \A a \in Applications : IsWhole(a)

\* Nothing is converted at first.
LEMMA ConversionInit == Init => BackedInv /\ WholeInv
BY DEF Init, BackedInv, Backed, WholeInv, IsWhole, Idle, Converting, NoConversion

\* A conversion goes on only from what it has found or registered.
LEMMA BackedStep == TypeInv /\ BackedInv /\ [Next]_vars => BackedInv'
<1> SUFFICES ASSUME TypeInv, BackedInv, [Next]_vars, NEW r \in Requests PROVE Backed(r)'
  BY DEF BackedInv
<1>1. Kept
  BY StepKeeps
<1>2. CASE op'[r] = op[r] /\ op[r].step # "idle"
  <2>1. op[r] \in Operations /\ op[r].app \in Applications
    BY <1>2, UnderWay DEF Operations
  <2> QED  BY <1>1, <1>2, <2>1 DEF BackedInv, Backed, Kept
<1>3. CASE op'[r].step = "idle"
  BY <1>3 DEF Backed, Converting
<1>4. CASE Loading(r)
  <2>1. op'[r].step \in {"submit", "conversion", "review", "intake", "intent"}
        /\ (op'[r].step = "conversion" => status[op'[r].app] = "accepted")
    BY <1>4, LoadingSteps
  <2>2. op'[r].step # "idle" => op'[r].app \in Applications
    BY TypeStep DEF TypeInv, Idle, Operations
  <2> QED  BY <1>1, <2>1, <2>2 DEF Backed, Converting, Kept, Admitted
<1>5. CASE Deciding(r)
  <2>1. op[r] \in Operations
    BY <1>5, UnderWay DEF Deciding, CheckIntake, CheckReviews, RecordIntent, Recount, Accept,
                          Accepting, Decline, At
  <2>2. op'[r].step \in {"idle", "reviews", "intent", "decide", "commit", "confirm"}
    <3>1. CASE Decide(r)
      BY <3>1 DEF Decide, Idle, TypeInv
    <3>2. CASE End(r)
      BY <3>2 DEF End, Idle, TypeInv
    <3>3. CASE Goto(r, "reviews") \/ Goto(r, "intent") \/ Goto(r, "decide")
      BY <2>1, <3>3 DEF Goto, Operations, TypeInv
    <3>4. CASE Recount(r)
      BY <2>1, <3>2, <3>4 DEF Recount, Operations, TypeInv
    <3> QED
      BY <1>5, <3>1, <3>2, <3>3, <3>4 DEF Deciding, CheckIntake, CheckReviews, RecordIntent,
                                          Accept, Decline
  <2> QED  BY <2>2 DEF Backed, Converting
<1>6. CASE Enrolling(r)
  <2>1. op[r] \in Operations /\ CallFits(op[r]) /\ App(r) \in Applications /\ Backed(r)
    BY <1>6, UnderWay DEF Enrolling, FindConversion, FindSeat, BeginConversion, RegisterStudent,
         CheckTerm, RegisterEnrollment, At, Operations, App, TypeInv, BackedInv
  <2>2. op[r].step \in {"conversion", "seat", "begin"} \cup Converting
    BY <1>6 DEF Enrolling, FindConversion, FindSeat, BeginConversion, RegisterStudent,
                CheckTerm, RegisterEnrollment, At, Converting
  <2>3. status'[App(r)] \in Admitted
    BY <1>1, <2>1, <2>2 DEF Backed, App, Kept
  <2>4. CASE FindConversion(r) /\ op' = [op EXCEPT ![r].step = "seat", ![r].held = conversion[App(r)]]
    <3>1. op'[r].step = "seat" /\ op'[r].app = App(r) /\ op'[r].held = conversion[App(r)]
      BY <2>1, <2>4 DEF Operations, App, TypeInv
    <3> QED  BY <2>3, <2>4, <3>1 DEF FindConversion, records, Backed, Converting
  <2>5. CASE BeginConversion(r) /\ op'[r].step # "idle"
    <3> DEFINE kept == IF conversion[App(r)] = NoConversion
                       THEN Requested(r) ELSE conversion[App(r)]
    <3>1. op'[r].step = "student" /\ op'[r].app = App(r) /\ op'[r].held = kept
      BY <2>1, <2>5 DEF BeginConversion, End, Idle, Operations, App, TypeInv
    <3>2. conversion'[App(r)] = kept
      BY <2>1, <2>5 DEF BeginConversion, TypeInv, RecordsFit
    <3> HIDE DEF kept
    <3> QED  BY <2>3, <3>1, <3>2 DEF Backed, Converting
  <2>6. CASE FindSeat(r) /\ op'[r].step # "idle"
    <3>1. /\ op'[r].step \in {"student", "begin"} /\ op'[r].app = App(r)
          /\ op'[r].held = op[r].held /\ op[r].step = "seat"
      BY <2>1, <2>6 DEF FindSeat, At, Goto, End, Idle, Operations, App, TypeInv
    <3> QED  BY <2>1, <2>3, <2>6, <3>1 DEF FindSeat, records, Backed, App, Converting
  <2>7. CASE (RegisterStudent(r) \/ CheckTerm(r) \/ RegisterEnrollment(r)) /\ op'[r].step # "idle"
    <3>1. /\ op'[r].step \in {"term", "enrollment", "complete"} /\ op'[r].app = App(r)
          /\ op'[r].held = op[r].held /\ op[r].step \in Converting
      BY <2>1, <2>7 DEF RegisterStudent, CheckTerm, RegisterEnrollment, At, Goto, End, Idle,
                        Operations, App, TypeInv, Converting
    <3>2. Held(r) \in students'
      BY <2>1, <2>7 DEF RegisterStudent, CheckTerm, RegisterEnrollment, At, Held, Backed, App,
                        world
    <3>3. op'[r].step = "complete" => Held(r) \in enrollments'
      BY <2>1, <2>7 DEF RegisterStudent, CheckTerm, RegisterEnrollment, At, Goto, End, Idle,
                        Operations, TypeInv, world
    <3>4. op[r].held # NoConversion =>
            conversion'[App(r)] # NoConversion /\ conversion'[App(r)].id = op[r].held.id
      BY <1>1, <2>1, <3>1 DEF Backed, App, Kept
    <3> QED  BY <2>3, <3>1, <3>2, <3>3, <3>4 DEF Backed, Held, App
  <2> QED
    BY <1>3, <1>6, <2>4, <2>5, <2>6, <2>7 DEF Enrolling, FindConversion, End, Idle, TypeInv
<1> QED  BY <1>2, <1>3, <1>4, <1>5, <1>6, OwnStep DEF Idle

\* A step that leaves the registrations and the conversion of an application alone.
LEMMA StillWhole ==
    ASSUME NEW a \in Applications, IsWhole(a),
           UNCHANGED <<conversion, students, enrollments>>,
           conversion[a] # NoConversion => UNCHANGED <<status[a], seat[a]>>,
           conversion[a] = NoConversion => status'[a] # "enrolled" /\ seat'[a] # "consumed"
    PROVE  IsWhole(a)'
BY DEF IsWhole, NoConversion

\* A student or an enrollment is registered in the name of the conversion.
LEMMA RegisteringKeepsWhole ==
    ASSUME TypeInv, BackedInv, WholeInv, NEW r \in Requests,
           RegisterStudent(r) \/ RegisterEnrollment(r), NEW a \in Applications
    PROVE  IsWhole(a)'
<1>1. op[r] \in Operations /\ CallFits(op[r]) /\ Backed(r)
  BY UnderWay DEF RegisterStudent, RegisterEnrollment, At, TypeInv, BackedInv
<1>2. op[r].held \in Conversions /\ op[r].held # NoConversion
  BY <1>1, NothingAssumption
     DEF RegisterStudent, RegisterEnrollment, At, CallFits, Converting, Conversions,
         NoConversion
<1>3. conversion[App(r)].id = op[r].held.id
  BY <1>1, <1>2 DEF RegisterStudent, RegisterEnrollment, At, Backed, Converting, App
<1>4. IsWhole(a)
  BY DEF WholeInv
<1>5. CASE a # App(r)
  BY <1>4, <1>5 DEF RegisterStudent, RegisterEnrollment, IsWhole, Held, records
<1>6. CASE a = App(r)
  <2>1. Held(r) = <<a, conversion[a].id>>
    BY <1>3, <1>6 DEF Held
  <2>2. CASE RegisterStudent(r)
    BY <1>4, <2>1, <2>2 DEF RegisterStudent, IsWhole, records
  <2>3. CASE RegisterEnrollment(r)
    <3>1. Held(r) \in students
      BY <1>1, <2>3 DEF RegisterEnrollment, At, Backed, Held, App
    <3> QED  BY <1>4, <2>1, <2>3, <3>1 DEF RegisterEnrollment, IsWhole, records
  <2> QED  BY <2>2, <2>3
<1> QED  BY <1>5, <1>6

\* The first conversion of an application is begun once, and completed once.
LEMMA ConvertingKeepsWhole ==
    ASSUME TypeInv, BackedInv, WholeInv, NEW r \in Requests,
           BeginConversion(r) \/ CompleteConversion(r), NEW a \in Applications
    PROVE  IsWhole(a)'
<1>1. op[r] \in Operations /\ CallFits(op[r]) /\ Backed(r) /\ App(r) \in Applications
  BY UnderWay DEF BeginConversion, CompleteConversion, At, TypeInv, BackedInv, App, Operations
<1>2. IsWhole(a)
  BY DEF WholeInv
<1>3. CASE a # App(r) \/ UNCHANGED <<conversion, status, seat>>
  BY <1>1, <1>2, <1>3 DEF BeginConversion, CompleteConversion, SetStatus, IsWhole, world,
                          TypeInv, RecordsFit
<1>4. CASE BeginConversion(r) /\ a = App(r) /\ conversion[a] = NoConversion
  <2>1. conversion'[a] = Requested(r) /\ UNCHANGED <<status, seat, students, enrollments>>
    BY <1>4 DEF BeginConversion, world, TypeInv, RecordsFit
  <2>2. status[a] \in Admitted
    BY <1>1, <1>4 DEF BeginConversion, At, Backed, App
  <2>3. {x \in students : x[1] = a} = {} /\ {x \in enrollments : x[1] = a} = {}
    BY <1>2, <1>4, NothingAssumption DEF IsWhole, NoConversion, TypeInv, WorldFits
  <2>4. Requested(r) # NoConversion /\ ~Requested(r).completed
    BY NothingAssumption DEF Requested, NoConversion
  <2>5. ~NoConversion.completed
    BY DEF NoConversion
  <2> QED  BY <1>2, <1>4, <2>1, <2>2, <2>3, <2>4, <2>5 DEF IsWhole, Admitted
<1>5. CASE BeginConversion(r) /\ a = App(r) /\ conversion[a] # NoConversion
  BY <1>2, <1>5 DEF BeginConversion, IsWhole, world, TypeInv, RecordsFit
<1>6. CASE CompleteConversion(r) /\ a = App(r) /\ ~UNCHANGED <<conversion, status, seat>>
  <2>1. conversion[a] = op[r].held /\ op[r].held \in Conversions /\ op[r].step = "complete"
    BY <1>1, <1>6 DEF CompleteConversion, At, CallFits, Converting
  <2>2. /\ conversion'[a] = [conversion[a] EXCEPT !.completed = TRUE]
        /\ status'[a] = "enrolled" /\ seat'[a] = "consumed"
        /\ UNCHANGED <<students, enrollments>>
    BY <1>6 DEF CompleteConversion, SetStatus, world, TypeInv, RecordsFit
  <2>3. conversion'[a].id = conversion[a].id /\ conversion'[a].completed
    BY <2>1, <2>2 DEF Conversions
  <2>4. <<a, conversion[a].id>> \in enrollments
    BY <1>1, <1>6, <2>1 DEF Backed, App
  <2> QED  BY <1>2, <2>2, <2>3, <2>4 DEF IsWhole
<1> QED  BY <1>3, <1>4, <1>5, <1>6

\* Conversions stay whole by every step.
LEMMA WholeStep == TypeInv /\ BackedInv /\ WholeInv /\ [Next]_vars => WholeInv'
<1> SUFFICES ASSUME TypeInv, BackedInv, WholeInv, [Next]_vars, NEW a \in Applications
             PROVE  IsWhole(a)'
  BY DEF WholeInv
<1>1. IsWhole(a)
  BY DEF WholeInv
<1>2. CASE UNCHANGED <<conversion, status, seat, students, enrollments>>
  BY <1>1, <1>2 DEF IsWhole
<1>3. ASSUME NEW r \in Requests,
             Submit(r) \/ SaveReview(r) \/ Accept(r) \/ Decline(r)
      PROVE  IsWhole(a)'
  <2>1. op[r] \in Operations /\ CallFits(op[r]) /\ App(r) \in Applications
    BY <1>3, UnderWay DEF Submit, SaveReview, Accept, Accepting, Decline, At, Operations, App,
                          TypeInv
  <2>2. CASE Unchanged(r)
    <3>1. op[r].seen \notin Admitted
      BY <1>3, <2>1 DEF Submit, SaveReview, Accept, Accepting, Decline, At, CallFits,
                        Undecided, OpenStatuses, Admitted
    <3>2. a = App(r) => status[a] \notin Admitted
      BY <2>2, <3>1 DEF Unchanged
    <3>3. a = App(r) => conversion[a] = NoConversion
      BY <1>1, <3>2 DEF IsWhole, Admitted
    <3>4. a # App(r) => UNCHANGED <<status[a], seat[a]>>
      BY <1>3, <2>1 DEF Submit, SaveReview, Accept, Decline, Decide, SetStatus, TypeInv,
                        RecordsFit
    <3>5. a = App(r) => status'[a] # "enrolled" /\ seat'[a] # "consumed"
      <4>1. seat[a] # "consumed" \/ status[a] \in Admitted
        BY <1>1 DEF IsWhole, Admitted
      <4>2. op[r].step \in {"decide", "commit"} => op[r].outcome \in Decisions
        BY <2>1 DEF CallFits, Undecided
      <4>3. a = App(r) => status'[a] # "enrolled"
        BY <1>3, <3>2, <4>2 DEF Submit, SaveReview, Accept, Accepting, Decline, Decide, At,
                                SetStatus, Decisions, Admitted, TypeInv, RecordsFit
      <4>4. a = App(r) => seat'[a] # "consumed"
        BY <1>3, <3>2, <4>1 DEF Submit, SaveReview, Accept, Decline, TypeInv, RecordsFit
      <4> QED  BY <4>3, <4>4
    <3>6. UNCHANGED <<conversion, students, enrollments>>
      BY <1>3 DEF Submit, SaveReview, Accept, Decline, world
    <3>7. conversion[a] = NoConversion => status[a] # "enrolled" /\ seat[a] # "consumed"
      BY <1>1 DEF IsWhole, NoConversion
    <3> QED  BY <1>1, <3>3, <3>4, <3>5, <3>6, <3>7, StillWhole
  <2>3. CASE ~Unchanged(r)
    BY <1>2, <1>3, <2>3 DEF Submit, SaveReview, Accept, Decline, world, TypeInv, LocksHold
  <2> QED  BY <2>2, <2>3
<1> QED
  BY <1>2, <1>3, RegisteringKeepsWhole, ConvertingKeepsWhole
     DEF Next, vars, records, world, LoadToSubmit, LoadToReview, LoadToDecide, LoadToEnroll,
         Abort, CheckIntake, CheckReviews, RecordIntent, RecordSuccess, Recount, Log,
         FindConversion, FindSeat, CheckTerm, CloseIntake, ConfigureQuota, Expire

\* However often conversions of however many applications are begun, interrupted and
\* resumed at a time, each has one student and one enrollment at most, those its stored
\* conversion names, and an enrolled application has both and has used up its seat.
THEOREM ConversionsAreWhole == Spec => []ConversionIsWhole
<1>1. TypeInv /\ WholeInv => ConversionIsWhole
  BY DEF TypeInv, RecordsFit, WorldFits, TypeOK, WholeInv, ConversionIsWhole
<1> QED
  BY <1>1, TypeInit, TypeStep, ConversionInit, BackedStep, WholeStep, PTL DEF Spec

=============================================================================
