----------------------- MODULE CourseSelectionProofs -----------------------
(***************************************************************************)
(* Course selection, for any students, offerings, seats, curricula,        *)
(* policies and number of overlapping submissions and decisions.           *)
(*                                                                         *)
(* The inductive invariant is SelectionInv.  OneStudentAtATime and         *)
(* EvaluatedStands say what the locks are for: an open transaction has its *)
(* student for itself, and what it evaluated about the student and the     *)
(* term stands.  The locks do not keep the student's courses from being    *)
(* withdrawn or completed meanwhile; SubmissionsCurrent and                *)
(* DecisionsCurrent say why that does no harm: a course that goes takes    *)
(* its credits and clashes with it and may only meet a prerequisite more,  *)
(* so that no rule fails that held.  This needs that a sum of credits does *)
(* not grow when a course leaves it, which is what the first part is       *)
(* about: a fold over a finite set, by the least set that is a             *)
(* counterexample.                                                         *)
(***************************************************************************)
EXTENDS CourseSelection, FiniteSetTheorems, WellFoundedInduction, TLAPS

----------------------------------------------------------------------------
(***************************************************************************)
(* Sums of credits.  Total is the sum that CreditsOf and ActiveCredits     *)
(* take; it is the value at S of a function on the subsets of S.           *)
(***************************************************************************)

Total(f, S) == MapThenSumSet(LAMBDA o : f[o], S)
Pick(S) == CHOOSE x \in S : TRUE
Step(f, g, S) == IF S = {} THEN 0 ELSE f[Pick(S)] + g[S \ {Pick(S)}]
Tallies(f, g, S) == \A T \in SUBSET S : g[T] = Step(f, g, T)
Tally(f, S) == CHOOSE g : g = [T \in SUBSET S |-> Step(f, g, T)]

\* A set that is not empty has the element that the fold picks.
LEMMA PickIs == ASSUME NEW S, S # {} PROVE Pick(S) \in S
BY DEF Pick

\* Among some subsets of a finite set, one has no other of them within it.
LEMMA LeastSet ==
    ASSUME NEW S, IsFiniteSet(S), NEW B \in SUBSET SUBSET S, B # {}
    PROVE  \E T \in B : \A U \in SUBSET T : U # T => U \notin B
<1>1. B \subseteq FiniteSubsetsOf(S)
  BY FS_Subset DEF FiniteSubsetsOf
<1>2. PICK T \in B : \A U \in B : <<U, T>> \notin StrictSubsetOrdering(S)
  BY <1>1, FS_StrictSubsetOrderingWellFounded, WFMin
<1>3. ASSUME NEW U \in SUBSET T, U # T, U \in B PROVE FALSE
  BY <1>2, <1>3 DEF StrictSubsetOrdering
<1> QED BY <1>3

\* Two functions that add up the same way agree where both do.
LEMMA TallyUnique ==
    ASSUME NEW f, NEW S, NEW U, IsFiniteSet(S), NEW g, NEW h,
           Tallies(f, g, S), Tallies(f, h, U)
    PROVE  \A T \in (SUBSET S) \cap (SUBSET U) : g[T] = h[T]
<1> DEFINE B == {T \in (SUBSET S) \cap (SUBSET U) : g[T] # h[T]}
<1> SUFFICES ASSUME B # {} PROVE FALSE
  OBVIOUS
<1>1. PICK T \in B : \A R \in SUBSET T : R # T => R \notin B
  <2>1. B \in SUBSET SUBSET S
    OBVIOUS
  <2> HIDE DEF B
  <2> QED BY <2>1, LeastSet
<1>2. T # {}
  BY DEF Tallies, Step
<1>3. g[T \ {Pick(T)}] = h[T \ {Pick(T)}]
  BY <1>1, <1>2, PickIs
<1>4. g[T] = Step(f, g, T) /\ h[T] = Step(f, h, T)
  <2>1. T \in SUBSET S /\ T \in SUBSET U
    OBVIOUS
  <2> HIDE DEF B
  <2> QED BY <2>1 DEF Tallies
<1> QED BY <1>2, <1>3, <1>4 DEF Step

\* There is a function that adds up, and its sums are numbers.
LEMMA TallyExists ==
    ASSUME NEW X, NEW f \in [X -> Nat], NEW S \in SUBSET X, IsFiniteSet(S)
    PROVE  \E g \in [SUBSET S -> Nat] : Tallies(f, g, S)
<1> DEFINE Fine(T, g) == g \in [SUBSET T -> Nat] /\ Tallies(f, g, T)
           B == {T \in SUBSET S : ~ \E g : Fine(T, g)}
<1> SUFFICES ASSUME B # {} PROVE FALSE
  OBVIOUS
<1>1. PICK T \in B : \A U \in SUBSET T : U # T => U \notin B
  <2>1. B \in SUBSET SUBSET S
    OBVIOUS
  <2> HIDE DEF B
  <2> QED BY <2>1, LeastSet
<1> DEFINE Of(U) == CHOOSE g : Fine(U, g)
<1>2. \A U \in SUBSET T : U # T => Fine(U, Of(U))
  <2> HIDE DEF Fine
  <2> QED BY <1>1
<1> DEFINE Below(U) == Of(U)[U]
           g == [U \in SUBSET T |-> IF U = {} THEN 0
                                    ELSE f[Pick(U)] + Below(U \ {Pick(U)})]
<1>3. ASSUME NEW U \in SUBSET T, U # T PROVE Below(U) \in Nat
  <2>1. U \in SUBSET U
    OBVIOUS
  <2> HIDE DEF Of
  <2>2. Of(U) \in [SUBSET U -> Nat]
    BY <1>2, <1>3
  <2> QED BY <2>1, <2>2
<1>4. \A U \in SUBSET T : U # {} =>
         /\ Pick(U) \in U /\ Pick(U) \in X
         /\ U \ {Pick(U)} \in SUBSET T /\ U \ {Pick(U)} # T
  BY PickIs
<1>5. g \in [SUBSET T -> Nat]
  <2> HIDE DEF Below
  <2>1. ASSUME NEW U \in SUBSET T, U # {} PROVE f[Pick(U)] + Below(U \ {Pick(U)}) \in Nat
    <3>1. f[Pick(U)] \in Nat /\ Below(U \ {Pick(U)}) \in Nat
      BY <2>1, <1>3, <1>4
    <3> QED BY <3>1
  <2> QED BY <2>1
<1>6. ASSUME NEW U \in SUBSET T, U # T PROVE g[U] = Below(U)
  <2>1. Fine(U, Of(U)) /\ U \in SUBSET U
    BY <1>2, <1>6
  <2>2. Of(U)[U] = Step(f, Of(U), U)
    BY <2>1 DEF Tallies
  <2>3. CASE U = {}
    BY <2>2, <2>3 DEF Step
  <2>4. CASE U # {}
    <3> DEFINE V == U \ {Pick(U)}
    <3>1. V \in SUBSET U /\ V \in SUBSET V /\ V # T /\ V \in SUBSET T
      BY <1>4, <2>4
    <3>2. Fine(V, Of(V)) /\ IsFiniteSet(V)
      <4>1. V \in SUBSET S
        BY <3>1
      <4>2. IsFiniteSet(V)
        BY <4>1, FS_Subset
      <4> HIDE DEF V, Of
      <4> QED BY <3>1, <4>2, <1>2
    <3>3. Of(V)[V] = Of(U)[V]
      <4> HIDE DEF Of, V
      <4>1. Tallies(f, Of(V), V) /\ Tallies(f, Of(U), U) /\ V \in (SUBSET V) \cap (SUBSET U)
        BY <2>1, <3>1, <3>2
      <4> QED BY <4>1, <3>2, TallyUnique
    <3> HIDE DEF Of
    <3> QED BY <2>2, <2>4, <3>3 DEF Step
  <2> QED BY <2>3, <2>4
<1>7. Tallies(f, g, T)
  <2>1. ASSUME NEW U \in SUBSET T, U # {} PROVE g[U] = f[Pick(U)] + g[U \ {Pick(U)}]
    <3>1. g[U] = f[Pick(U)] + Below(U \ {Pick(U)})
      <4> HIDE DEF Below
      <4> QED BY <2>1
    <3>2. g[U \ {Pick(U)}] = Below(U \ {Pick(U)})
      <4> HIDE DEF Below, g
      <4> QED BY <2>1, <1>4, <1>6
    <3> HIDE DEF g, Below
    <3> QED BY <3>1, <3>2
  <2>2. g[{}] = 0
    OBVIOUS
  <2> HIDE DEF g
  <2> QED BY <2>1, <2>2 DEF Tallies, Step
<1> HIDE DEF g
<1> QED BY <1>5, <1>7

\* The fold is the value of such a function.
LEMMA TallyIs ==
    ASSUME NEW X, NEW f \in [X -> Nat], NEW S \in SUBSET X, IsFiniteSet(S)
    PROVE  /\ Total(f, S) = Tally(f, S)[S]
           /\ Tallies(f, Tally(f, S), S)
           /\ Total(f, S) \in Nat
<1>1. Total(f, S) = Tally(f, S)[S]
  BY DEF Total, MapThenSumSet, MapThenFoldSet, Tally, Step, Pick
<1>2. PICK g \in [SUBSET S -> Nat] : Tallies(f, g, S)
  BY TallyExists
<1>3. g = [T \in SUBSET S |-> Step(f, g, T)]
  BY <1>2 DEF Tallies
<1>4. Tally(f, S) = [T \in SUBSET S |-> Step(f, Tally(f, S), T)]
  BY <1>3 DEF Tally
<1>5. Tallies(f, Tally(f, S), S)
  BY <1>4 DEF Tallies
<1>6. Tally(f, S)[S] = g[S]
  <2>1. S \in (SUBSET S) \cap (SUBSET S)
    OBVIOUS
  <2>2. \A T \in (SUBSET S) \cap (SUBSET S) : Tally(f, S)[T] = g[T]
    BY <1>2, <1>5, TallyUnique
  <2> QED BY <2>1, <2>2
<1> QED BY <1>1, <1>2, <1>5, <1>6

\* A sum is that of the element the fold picks and of the rest.
LEMMA TotalPicks ==
    ASSUME NEW X, NEW f \in [X -> Nat], NEW S \in SUBSET X, IsFiniteSet(S), S # {}
    PROVE  Total(f, S) = f[Pick(S)] + Total(f, S \ {Pick(S)})
<1> DEFINE R == S \ {Pick(S)}
<1>1. R \in SUBSET X /\ IsFiniteSet(R) /\ R \in (SUBSET R) \cap (SUBSET S)
  <2>1. R \in SUBSET S
    OBVIOUS
  <2> QED BY <2>1, FS_Subset
<1>2. /\ Total(f, S) = Tally(f, S)[S] /\ Tallies(f, Tally(f, S), S)
      /\ Total(f, R) = Tally(f, R)[R] /\ Tallies(f, Tally(f, R), R)
  <2> HIDE DEF R
  <2> QED BY <1>1, TallyIs
<1>3. Tally(f, R)[R] = Tally(f, S)[R]
  <2> HIDE DEF R
  <2> QED BY <1>1, <1>2, TallyUnique
<1> QED BY <1>2, <1>3 DEF Tallies, Step

\* A sum is that of any of its elements and of the rest.
LEMMA TotalSplits ==
    ASSUME NEW X, NEW f \in [X -> Nat], NEW S \in SUBSET X, IsFiniteSet(S), NEW x \in S
    PROVE  Total(f, S) = f[x] + Total(f, S \ {x})
<1> DEFINE B == {T \in SUBSET S : \E y \in T : Total(f, T) # f[y] + Total(f, T \ {y})}
<1> SUFFICES ASSUME B # {} PROVE FALSE
  OBVIOUS
<1>1. PICK T \in B : \A U \in SUBSET T : U # T => U \notin B
  <2>1. B \in SUBSET SUBSET S
    OBVIOUS
  <2> HIDE DEF B
  <2> QED BY <2>1, LeastSet
<1>2. PICK y \in T : Total(f, T) # f[y] + Total(f, T \ {y})
  OBVIOUS
<1> DEFINE p == Pick(T)
<1>3. /\ p \in T /\ y \in X /\ p \in X /\ T \in SUBSET X /\ IsFiniteSet(T)
      /\ \A U \in SUBSET T : IsFiniteSet(U) /\ U \in SUBSET X
  BY PickIs, FS_Subset
<1>4. Total(f, T) = f[p] + Total(f, T \ {p})
  BY <1>3, TotalPicks
<1>5. p # y
  BY <1>2, <1>4
<1>6. Total(f, T \ {p}) = f[y] + Total(f, (T \ {p}) \ {y})
  <2>1. T \ {p} \in SUBSET T /\ T \ {p} # T /\ y \in T \ {p} /\ T \ {p} \in SUBSET S
    BY <1>3, <1>5
  <2> HIDE DEF p
  <2> QED BY <1>1, <2>1
<1>7. Total(f, T \ {y}) = f[p] + Total(f, (T \ {y}) \ {p})
  <2>1. T \ {y} \in SUBSET T /\ T \ {y} # T /\ p \in T \ {y} /\ T \ {y} \in SUBSET S
    BY <1>3, <1>5
  <2> HIDE DEF p
  <2> QED BY <1>1, <2>1
<1>8. (T \ {p}) \ {y} = (T \ {y}) \ {p}
  OBVIOUS
<1>9. f[y] \in Nat /\ f[p] \in Nat /\ Total(f, (T \ {y}) \ {p}) \in Nat
  <2>1. (T \ {y}) \ {p} \in SUBSET X /\ IsFiniteSet((T \ {y}) \ {p})
    BY <1>3
  <2> HIDE DEF p
  <2> QED BY <2>1, <1>3, TallyIs
<1>10. f[p] + (f[y] + Total(f, (T \ {y}) \ {p})) = f[y] + (f[p] + Total(f, (T \ {y}) \ {p}))
  <2> HIDE DEF p
  <2> QED BY <1>9
<1> HIDE DEF p, B
<1> QED BY <1>2, <1>4, <1>6, <1>7, <1>8, <1>10
CreditsIn(records, S) == (CHOOSE g : g = [T \in SUBSET S |->
    IF T = {} THEN 0 ELSE records[Pick(T)].credits + g[T \ {Pick(T)}]])[S]

\* A sum of credits over a student's course records is such a sum.
LEMMA RecordsSum ==
    ASSUME NEW records, NEW S \in SUBSET Offerings
    PROVE  CreditsIn(records, S)
              = Total([o \in Offerings |-> records[o].credits], S)
<1> DEFINE f == [o \in Offerings |-> records[o].credits]
           Add(g, T) == IF T = {} THEN 0 ELSE records[Pick(T)].credits + g[T \ {Pick(T)}]
<1>1. ASSUME NEW g, NEW T \in SUBSET S PROVE Add(g, T) = Step(f, g, T)
  BY PickIs DEF Step
<1>2. ASSUME NEW g PROVE [T \in SUBSET S |-> Add(g, T)] = [T \in SUBSET S |-> Step(f, g, T)]
  <2> HIDE DEF Add, f
  <2> QED BY <1>1
<1>3. (CHOOSE g : g = [T \in SUBSET S |-> Add(g, T)])
         = (CHOOSE g : g = [T \in SUBSET S |-> Step(f, g, T)])
  <2> HIDE DEF Add, f
  <2> DEFINE P(g) == g = [T \in SUBSET S |-> Add(g, T)]
             Q(g) == g = [T \in SUBSET S |-> Step(f, g, T)]
  <2>1. \A g : P(g) <=> Q(g)
    BY <1>2
  <2> HIDE DEF P, Q
  <2>2. (CHOOSE g : P(g)) = (CHOOSE g : Q(g))
    BY <2>1
  <2> QED BY <2>2 DEF P, Q
<1>4. CreditsIn(records, S) = (CHOOSE g : g = [T \in SUBSET S |-> Add(g, T)])[S]
  BY DEF CreditsIn
<1>5. Total(f, S) = (CHOOSE g : g = [T \in SUBSET S |-> Step(f, g, T)])[S]
  BY DEF Total, MapThenSumSet, MapThenFoldSet, Step, Pick
<1> QED BY <1>3, <1>4, <1>5

----------------------------------------------------------------------------
(***************************************************************************)
(* The invariant.                                                          *)
(***************************************************************************)

Codes(violations) == {v.code : v \in violations}

CourseRecords == [status : CourseStatuses, credits : Nat]
RequestRecords == [status : RequestStatuses, credits : Nat, override : SUBSET Violations]

ShapeOK ==
    /\ academic \in [Students -> AcademicStatuses]
    /\ course \in [Students -> [Offerings -> CourseRecords]]
    /\ request \in [Requests -> RequestRecords]
    /\ DOMAIN curriculum = Programs /\ DOMAIN policy = Programs /\ DOMAIN plan = Requests
    /\ \A p \in Programs : curriculum[p] \in Curricula[p] /\ policy[p] \in Policies[p]
    /\ closed \in BOOLEAN /\ late \in BOOLEAN
    /\ pc \in [Requests \cup Decisions -> {"idle", "planned", "open", "saved", "failed"}]

\* An open transaction has its student's enrollment for itself.
OneStudentAtATime == \A x, y \in Open : StudentIn(x) = StudentIn(y) => x = y

\* What an open transaction found of the student and the term stands.
EvaluatedStands == \A x \in Evaluating : CanSelect(StudentIn(x))

\* A request is stored with its courses' fate: nothing before the submission is
\* saved, pending while a decision is open, as decided afterwards.
ProgressAgrees ==
    /\ \A r \in Requests : pc[r] # "saved" => request[r].status = "none"
    /\ \A d \in Decisions : pc[d] = "open" => request[RequestOf[d]].status = "pending"
    /\ \A d, e \in Decisions : pc[d] = "saved" =>
          /\ request[RequestOf[d]].status = IF d \in Approves THEN "approved" ELSE "rejected"
          /\ RequestOf[e] = RequestOf[d] /\ pc[e] = "saved" => e = d

Granted(s, o) == {r \in Requests : /\ StudentOf[r] = s /\ o \in Selected[r]
                                   /\ request[r].status = "approved"}

\* A student has a course from exactly one approved request, or not at all.
GrantsAgree == \A s \in Students, o \in Offerings :
    IF course[s][o].status = "none" THEN Granted(s, o) = {}
    ELSE \E r \in Requests : Granted(s, o) = {r}

\* The rules that fail for a student, as they are configured, whatever the deadline.
FailedRules(s, offerings) ==
    LET p == ProgramOf[s] IN
    Codes(Evaluate(s, offerings, curriculum[p], policy[p], FALSE))

\* A rule that fails for a submission that is about to be saved was overridden.
SubmissionsCurrent == \A r \in Requests : pc[r] = "open" =>
    LET p == ProgramOf[StudentOf[r]] IN
    /\ plan[r].policy = policy[p] /\ plan[r].curriculum = curriculum[p]
    /\ plan[r].violations \subseteq Violations
    /\ FailedRules(StudentOf[r], Selected[r]) \subseteq Codes(plan[r].violations)

\* So was one that fails for an approval that is about to be saved.
DecisionsCurrent == \A d \in Approves : pc[d] = "open" =>
    LET r == RequestOf[d]
        p == ProgramOf[StudentOf[r]] IN
    /\ CreditsOf(Selected[r], curriculum[p]) = request[r].credits
    /\ FailedRules(StudentOf[r], Selected[r]) \subseteq Codes(request[r].override)

SelectionInv ==
    /\ ShapeOK
    /\ OneStudentAtATime /\ EvaluatedStands
    /\ ProgressAgrees /\ GrantsAgree /\ EnrolledIsEntitled
    /\ SubmissionsCurrent /\ DecisionsCurrent

USE CapacityAssumption, CallsAssumption

----------------------------------------------------------------------------
(***************************************************************************)
(* What the rules of a selection are made of.                              *)
(***************************************************************************)

\* The credits of some courses are a number.
LEMMA CreditsOfIsNat ==
    ASSUME NEW p \in Programs, NEW version \in Curricula[p], NEW offerings \in SUBSET Offerings
    PROVE  CreditsOf(offerings, version) \in Nat
<1>1. version.credits \in [Offerings -> Nat] /\ IsFiniteSet(offerings)
  BY CurriculaAssumption, FS_Subset
<1>2. CreditsOf(offerings, version) = Total(version.credits, offerings)
  BY DEF CreditsOf, Total
<1> HIDE DEF Total
<1> QED BY <1>1, <1>2, TallyIs

\* A student's active credits are a number, and no more without a course.
LEMMA ActiveCreditsRelax ==
    ASSUME ShapeOK, NEW s \in Students, NEW o \in Offerings,
           course' \in [Students -> [Offerings -> CourseRecords]],
           course[s][o].status = "enrolled",
           In(s, "enrolled")' = In(s, "enrolled") \ {o},
           \A k \in Offerings : course'[s][k].credits = course[s][k].credits
    PROVE  /\ ActiveCredits(s) \in Nat /\ ActiveCredits(s)' \in Nat
           /\ ActiveCredits(s)' <= ActiveCredits(s)
<1> DEFINE f == [k \in Offerings |-> course[s][k].credits]
           S == In(s, "enrolled")
<1>1. /\ f \in [Offerings -> Nat] /\ S \in SUBSET Offerings /\ o \in S
      /\ IsFiniteSet(S) /\ IsFiniteSet(S \ {o})
  <2>1. S \in SUBSET Offerings /\ S \ {o} \in SUBSET Offerings
    BY DEF In
  <2>2. IsFiniteSet(S) /\ IsFiniteSet(S \ {o})
    BY <2>1, FS_Subset
  <2> QED BY <2>1, <2>2 DEF ShapeOK, CourseRecords, In
<1>2. f' = f
  OBVIOUS
<1>3. ActiveCredits(s) = Total(f, S)
  <2>1. ActiveCredits(s) = CreditsIn(course[s], S)
    BY DEF ActiveCredits, MapThenSumSet, MapThenFoldSet, CreditsIn, Pick
  <2> QED BY RecordsSum, <1>1, <2>1
<1>4. ActiveCredits(s)' = Total(f, S \ {o})
  <2>1. ActiveCredits(s)' = CreditsIn(course'[s], S \ {o})
    BY DEF ActiveCredits, MapThenSumSet, MapThenFoldSet, CreditsIn, Pick
  <2>2. CreditsIn(course'[s], S \ {o}) = Total([k \in Offerings |-> course'[s][k].credits], S \ {o})
    <3>1. S \ {o} \in SUBSET Offerings
      BY <1>1
    <3> HIDE DEF S, f
    <3> QED BY RecordsSum, <3>1
  <2> QED BY <2>1, <2>2, <1>2
<1>5. /\ Total(f, S) = f[o] + Total(f, S \ {o})
      /\ Total(f, S) \in Nat /\ Total(f, S \ {o}) \in Nat /\ f[o] \in Nat
  <2> HIDE DEF f, S
  <2>1. S \ {o} \in SUBSET Offerings
    BY <1>1
  <2>2. Total(f, S) = f[o] + Total(f, S \ {o})
    BY ONLY <1>1, TotalSplits
  <2>3. Total(f, S) \in Nat /\ Total(f, S \ {o}) \in Nat
    BY <1>1, <2>1, TallyIs
  <2> QED BY <1>1, <2>2, <2>3
<1> HIDE DEF f, S
<1> QED BY <1>3, <1>4, <1>5

\* With a course less to clash with or to pay for, and no completed course less,
\* every rule that fails failed before.
LEMMA RulesOnlyRelax ==
    ASSUME NEW s \in Students, NEW offerings \in SUBSET Offerings, ShapeOK,
           UNCHANGED <<curriculum[ProgramOf[s]], policy[ProgramOf[s]]>>,
           In(s, "enrolled")' \subseteq In(s, "enrolled"),
           In(s, "completed") \subseteq In(s, "completed")',
           ActiveCredits(s) \in Nat, ActiveCredits(s)' \in Nat,
           ActiveCredits(s)' <= ActiveCredits(s)
    PROVE  FailedRules(s, offerings)' \subseteq FailedRules(s, offerings)
<1> DEFINE p == ProgramOf[s]
           E == Evaluate(s, offerings, curriculum[p], policy[p], FALSE)
<1>1. PICK version \in Curricula[p], rules \in Policies[p] :
         /\ version = curriculum[p] /\ rules = policy[p]
         /\ version = curriculum'[p] /\ rules = policy'[p]
  BY DEF ShapeOK
<1>2. FailedRules(s, offerings) = Codes(E) /\ FailedRules(s, offerings)' = Codes(E)'
  BY DEF FailedRules
<1>3. Codes(E)' = {v.code : v \in E'}
  BY DEF Codes
<1> SUFFICES ASSUME NEW v \in E' PROVE v.code \in Codes(E)
  <2> HIDE DEF E
  <2> QED BY <1>2, <1>3
<1>4. CASE v \in Violations /\ v.code = "credits" /\ v.related = {}
             /\ ActiveCredits(s)' + CreditsOf(offerings, version) > rules.limit
  <2>1. CreditsOf(offerings, version) \in Nat /\ rules.limit \in Nat
    BY CreditsOfIsNat, PoliciesAssumption
  <2>2. ActiveCredits(s) + CreditsOf(offerings, version) > rules.limit
    BY <1>4, <2>1
  <2> QED BY <1>1, <1>4, <2>2 DEF Codes, Evaluate
<1>5. ASSUME NEW o \in offerings, version.credits[o] = 0
                                  \/ ~(version.requires[o] \subseteq In(s, "completed")'),
             v.code = "prerequisite"
      PROVE  v.code \in Codes(E)
  <2>1. version.credits[o] = 0 \/ ~(version.requires[o] \subseteq In(s, "completed"))
    BY <1>5
  <2>2. [code |-> "prerequisite",
         related |-> {o} \cup (version.requires[o] \ In(s, "completed"))] \in E
    BY <1>1, <2>1 DEF Evaluate
  <2> HIDE DEF E
  <2> QED BY <1>5, <2>2 DEF Codes
<1>6. ASSUME NEW pair \in Clashes, pair \cap offerings # {},
             pair \subseteq offerings \cup In(s, "enrolled")', v.code = "clash"
      PROVE  v.code \in Codes(E)
  <2>1. [code |-> "clash", related |-> pair] \in E
    BY <1>6 DEF Evaluate
  <2> HIDE DEF E
  <2> QED BY <1>6, <2>1 DEF Codes
<1>7. ASSUME NEW o \in offerings \cap In(s, "enrolled")', v.code = "clash"
      PROVE  v.code \in Codes(E)
  <2>1. [code |-> "clash", related |-> {o}] \in E
    BY <1>7 DEF Evaluate
  <2> HIDE DEF E
  <2> QED BY <1>7, <2>1 DEF Codes
<1>8. ~FALSE'
  OBVIOUS
<1>9. \/ \E o \in offerings : /\ \/ version.credits[o] = 0
                               \/ ~(version.requires[o] \subseteq In(s, "completed")')
                            /\ v.code = "prerequisite"
      \/ v \in Violations /\ v.code = "credits" /\ v.related = {}
             /\ ActiveCredits(s)' + CreditsOf(offerings, version) > rules.limit
      \/ \E pair \in Clashes : /\ pair \cap offerings # {} /\ v.code = "clash"
                               /\ pair \subseteq offerings \cup In(s, "enrolled")'
      \/ \E o \in offerings \cap In(s, "enrolled")' : v.code = "clash"
  BY <1>1, <1>8 DEF Evaluate
<1> HIDE DEF E
<1> QED BY <1>4, <1>5, <1>6, <1>7, <1>9

\* What fails are rules, and a rule that fails in time fails late, too.
LEMMA EvaluationFacts ==
    ASSUME NEW s \in Students, NEW p \in Programs, NEW version \in Curricula[p],
           NEW offerings \in SUBSET Offerings, NEW rules, NEW pastDeadline
    PROVE  /\ Evaluate(s, offerings, version, rules, pastDeadline) \subseteq Violations
           /\ Evaluate(s, offerings, version, rules, FALSE)
                 \subseteq Evaluate(s, offerings, version, rules, pastDeadline)
<1>1. version.requires \in [Offerings -> SUBSET Offerings]
  BY CurriculaAssumption
<1>2. Evaluate(s, offerings, version, rules, pastDeadline) \subseteq Violations
  BY <1>1 DEF Evaluate, Violations, In
<1>3. Evaluate(s, offerings, version, rules, FALSE)
         \subseteq Evaluate(s, offerings, version, rules, pastDeadline)
  BY DEF Evaluate
<1> QED BY <1>2, <1>3

----------------------------------------------------------------------------
(***************************************************************************)
(* What the steps are made of.                                             *)
(***************************************************************************)

\* A call is about a request, its student and the student's program.
LEMMA CallFacts ==
    ASSUME NEW x \in Requests \cup Decisions
    PROVE  /\ RequestIn(x) \in Requests /\ StudentIn(x) = StudentOf[RequestIn(x)]
           /\ StudentIn(x) \in Students
           /\ ProgramIn(x) = ProgramOf[StudentIn(x)] /\ ProgramIn(x) \in Programs
           /\ x \in Requests => RequestIn(x) = x
           /\ x \in Decisions => RequestIn(x) = RequestOf[x] /\ x \notin Requests
           /\ Selected[RequestIn(x)] \in SUBSET Offerings
BY DEF RequestIn, StudentIn, ProgramIn

\* A call that goes to a step is open if that step is; the others stay.
LEMMA GotoFacts ==
    ASSUME ShapeOK, NEW x \in Requests \cup Decisions,
           NEW step \in {"idle", "planned", "open", "saved", "failed"}, Goto(x, step)
    PROVE  /\ pc' \in [Requests \cup Decisions -> {"idle", "planned", "open", "saved", "failed"}]
           /\ pc'[x] = step
           /\ \A y \in Requests \cup Decisions : y # x => pc'[y] = pc[y]
           /\ Open' = IF step = "open" THEN Open \cup {x} ELSE Open \ {x}
BY DEF Goto, ShapeOK, Open

CoursesEnrolled(s, offerings) ==
    /\ course' \in [Students -> [Offerings -> CourseRecords]]
    /\ \A t \in Students : t # s => course'[t] = course[t]
    /\ \A o \in offerings : /\ course[s][o].status = "none"
                            /\ Cardinality(Seated(o)) < Capacity[o]
                            /\ course'[s][o].status = "enrolled"
    /\ \A o \in Offerings \ offerings : course'[s][o] = course[s][o]

CourseLeft(s, o, status) ==
    /\ course' \in [Students -> [Offerings -> CourseRecords]]
    /\ \A t \in Students : t # s => course'[t] = course[t]
    /\ \A k \in Offerings : k # o => course'[s][k] = course[s][k]
    /\ course'[s][o].status = status
    /\ course'[s][o].credits = course[s][o].credits

\* Courses are enrolled in free seats, which the student never had.
LEMMA EnrollFacts ==
    ASSUME ShapeOK, NEW s \in Students, NEW offerings \in SUBSET Offerings, NEW p \in Programs,
           NEW version \in Curricula[p], Enroll(s, offerings, version)
    PROVE  CoursesEnrolled(s, offerings)
<1>1. version.credits \in [Offerings -> Nat]
  BY CurriculaAssumption
<1>2. \A o \in Offerings : [status |-> "enrolled", credits |-> version.credits[o]] \in CourseRecords
  BY <1>1 DEF CourseRecords, CourseStatuses
<1>3. course' = [course EXCEPT ![s] = [o \in Offerings |->
          IF o \in offerings
          THEN [status |-> "enrolled", credits |-> version.credits[o]] ELSE course[s][o]]]
  BY DEF Enroll
<1>4. [o \in Offerings |-> IF o \in offerings
          THEN [status |-> "enrolled", credits |-> version.credits[o]] ELSE course[s][o]]
         \in [Offerings -> CourseRecords]
  BY <1>2 DEF ShapeOK
<1>5. course' \in [Students -> [Offerings -> CourseRecords]]
  BY <1>3, <1>4 DEF ShapeOK
<1>6. \A o \in Offerings : course'[s][o] = IF o \in offerings
          THEN [status |-> "enrolled", credits |-> version.credits[o]] ELSE course[s][o]
  BY <1>3 DEF ShapeOK
<1>7. \A t \in Students : t # s => course'[t] = course[t]
  BY <1>3 DEF ShapeOK
<1>8. \A o \in offerings : /\ course[s][o].status = "none"
                           /\ Cardinality(Seated(o)) < Capacity[o]
  BY DEF Enroll, HasSeats
<1>9. ASSUME NEW o \in offerings PROVE course'[s][o].status = "enrolled"
  <2>1. o \in Offerings
    OBVIOUS
  <2>2. course'[s][o] = [status |-> "enrolled", credits |-> version.credits[o]]
    BY <1>6, <2>1
  <2> QED BY <2>2
<1>10. \A o \in Offerings \ offerings : course'[s][o] = course[s][o]
  BY <1>6
<1> QED BY <1>5, <1>7, <1>8, <1>9, <1>10 DEF CoursesEnrolled

\* A course withdraws or completes, and keeps its credits.
LEMMA LeaveFacts ==
    ASSUME ShapeOK, NEW s \in Students, NEW o \in Offerings,
           NEW status \in {"withdrawn", "completed"},
           course' = [course EXCEPT ![s][o].status = status]
    PROVE  CourseLeft(s, o, status)
<1>1. course[s][o] \in CourseRecords /\ course[s] \in [Offerings -> CourseRecords]
  BY DEF ShapeOK
<1>2. course' = [course EXCEPT ![s] = [course[s] EXCEPT ![o] =
          [course[s][o] EXCEPT !.status = status]]]
  OBVIOUS
<1> DEFINE record == [course[s][o] EXCEPT !.status = status]
<1>3. /\ record \in CourseRecords /\ record.status = status
      /\ record.credits = course[s][o].credits
  BY <1>1 DEF CourseRecords, CourseStatuses
<1> HIDE DEF record
<1> DEFINE row == [course[s] EXCEPT ![o] = record]
<1>4. /\ row \in [Offerings -> CourseRecords] /\ row[o] = record
      /\ \A k \in Offerings : k # o => row[k] = course[s][k]
  BY <1>1, <1>3
<1>5. course' = [course EXCEPT ![s] = row]
  BY <1>2 DEF record
<1> HIDE DEF row
<1>6. course' \in [Students -> [Offerings -> CourseRecords]] /\ course'[s] = row
      /\ \A t \in Students : t # s => course'[t] = course[t]
  <2>1. course \in [Students -> [Offerings -> CourseRecords]] /\ s \in Students
    BY DEF ShapeOK
  <2>2. row \in [Offerings -> CourseRecords]
    BY <1>4
  <2> QED BY ONLY <1>5, <2>1, <2>2
<1> QED BY <1>3, <1>4, <1>6 DEF CourseLeft

\* With a student, the courses that are enrolled withdraw.
LEMMA WithdrawFacts ==
    ASSUME ShapeOK, NEW s \in Students, WithdrawStudent(s)
    PROVE  /\ course' \in [Students -> [Offerings -> CourseRecords]]
           /\ \A t \in Students : t # s => course'[t] = course[t]
           /\ \A o \in Offerings :
                 IF course[s][o].status = "enrolled" THEN course'[s][o].status = "withdrawn"
                 ELSE course'[s][o] = course[s][o]
<1> DEFINE row == [o \in Offerings |->
          IF course[s][o].status = "enrolled" THEN [course[s][o] EXCEPT !.status = "withdrawn"]
          ELSE course[s][o]]
<1>1. course' = [course EXCEPT ![s] = row]
  BY DEF WithdrawStudent
<1>2. ASSUME NEW o \in Offerings
      PROVE  /\ row[o] \in CourseRecords
             /\ IF course[s][o].status = "enrolled" THEN row[o].status = "withdrawn"
                ELSE row[o] = course[s][o]
  <2>1. course[s][o] \in CourseRecords
    BY DEF ShapeOK
  <2>2. /\ [course[s][o] EXCEPT !.status = "withdrawn"] \in CourseRecords
        /\ [course[s][o] EXCEPT !.status = "withdrawn"].status = "withdrawn"
    BY <2>1 DEF CourseRecords, CourseStatuses
  <2> QED BY <2>1, <2>2
<1>3. row \in [Offerings -> CourseRecords]
  BY <1>2
<1> HIDE DEF row
<1>4. /\ course' \in [Students -> [Offerings -> CourseRecords]] /\ course'[s] = row
      /\ \A t \in Students : t # s => course'[t] = course[t]
  BY <1>1, <1>3 DEF ShapeOK
<1> QED BY <1>2, <1>4

\* A request is stored with what was planned for it.
LEMMA SubmittedFacts ==
    ASSUME SelectionInv, NEW r \in Requests, SaveSubmission(r)
    PROVE  /\ request' \in [Requests -> RequestRecords]
           /\ \A q \in Requests : q # r => request'[q] = request[q]
           /\ request'[r].status = IF plan[r].policy.approval THEN "pending" ELSE "approved"
           /\ request'[r].credits = CreditsOf(Selected[r], curriculum[ProgramOf[StudentOf[r]]])
           /\ request'[r].override = plan[r].violations
<1> DEFINE p == ProgramOf[StudentOf[r]]
           status == IF plan[r].policy.approval THEN "pending" ELSE "approved"
           record == [status |-> status, credits |-> CreditsOf(Selected[r], plan[r].curriculum),
                      override |-> plan[r].violations]
<1>1. pc[r] = "open" /\ p \in Programs /\ Selected[r] \in SUBSET Offerings
  BY DEF SaveSubmission
<1>2. /\ plan[r].curriculum = curriculum[p] /\ curriculum[p] \in Curricula[p]
      /\ plan[r].violations \subseteq Violations
  BY <1>1 DEF SelectionInv, ShapeOK, SubmissionsCurrent
<1>3. CreditsOf(Selected[r], plan[r].curriculum) \in Nat
  BY <1>1, <1>2, CreditsOfIsNat
<1>4. record \in RequestRecords
  BY <1>2, <1>3 DEF RequestRecords, RequestStatuses
<1>5. request' = [request EXCEPT ![r] = record]
  BY DEF SaveSubmission
<1>6. request' \in [Requests -> RequestRecords] /\ request'[r] = record
      /\ \A q \in Requests : q # r => request'[q] = request[q]
  <2> HIDE DEF record
  <2> QED BY <1>4, <1>5 DEF SelectionInv, ShapeOK
<1> QED BY <1>2, <1>6

\* A decision changes nothing but the status of its request.
LEMMA DecidedFacts ==
    ASSUME ShapeOK, NEW d \in Decisions, SaveDecision(d)
    PROVE  /\ request' \in [Requests -> RequestRecords]
           /\ \A q \in Requests : q # RequestOf[d] => request'[q] = request[q]
           /\ request'[RequestOf[d]].status = IF d \in Approves THEN "approved" ELSE "rejected"
           /\ request'[RequestOf[d]].credits = request[RequestOf[d]].credits
           /\ request'[RequestOf[d]].override = request[RequestOf[d]].override
<1> DEFINE r == RequestOf[d]
           status == IF d \in Approves THEN "approved" ELSE "rejected"
           record == [request[r] EXCEPT !.status = status]
<1>1. r \in Requests /\ request[r] \in RequestRecords /\ status \in RequestStatuses
  BY DEF ShapeOK, RequestStatuses
<1>2. request' = [request EXCEPT ![r] = record]
  BY DEF SaveDecision
<1>3. /\ record \in RequestRecords /\ record.status = status
      /\ record.credits = request[r].credits /\ record.override = request[r].override
  BY <1>1 DEF RequestRecords
<1> HIDE DEF record
<1>4. request' \in [Requests -> RequestRecords] /\ request'[r] = record
      /\ \A q \in Requests : q # r => request'[q] = request[q]
  BY <1>1, <1>2, <1>3 DEF ShapeOK
<1> QED BY <1>3, <1>4

----------------------------------------------------------------------------
(***************************************************************************)
(* Nothing is open, requested or enrolled at first.                        *)
(***************************************************************************)

\* The invariant holds before anything happens.
LEMMA SelectionInitially == Init => SelectionInv
<1> SUFFICES ASSUME Init PROVE SelectionInv
  OBVIOUS
<1>1. ShapeOK
  BY DEF Init, ShapeOK, NoCourse, NoRequest, CourseRecords, RequestRecords, AcademicStatuses,
     CourseStatuses, RequestStatuses
<1>2. Open = {} /\ \A x \in Requests \cup Decisions : pc[x] = "idle"
  BY DEF Init, Open
<1>3. OneStudentAtATime /\ EvaluatedStands /\ SubmissionsCurrent /\ DecisionsCurrent
  BY <1>2 DEF OneStudentAtATime, EvaluatedStands, Evaluating, SubmissionsCurrent, DecisionsCurrent
<1>4. \A r \in Requests : request[r].status = "none"
  BY DEF Init, NoRequest
<1>5. ProgressAgrees
  BY <1>2, <1>4 DEF ProgressAgrees
<1>6. \A s \in Students, o \in Offerings : course[s][o].status = "none"
  BY DEF Init, NoCourse
<1>7. GrantsAgree
  BY <1>4, <1>6 DEF GrantsAgree, Granted
<1>8. EnrolledIsEntitled
  <2>1. \A o \in Offerings : Seated(o) = {}
    BY <1>6 DEF Seated
  <2>2. \A s \in Students : In(s, "enrolled") = {}
    BY <1>6 DEF In
  <2>3. \A o \in Offerings : Cardinality(Seated(o)) = 0 /\ Capacity[o] \in Nat
    BY <2>1, FS_EmptySet
  <2> QED BY <2>2, <2>3 DEF EnrolledIsEntitled
<1> QED BY <1>1, <1>3, <1>5, <1>7, <1>8 DEF SelectionInv

----------------------------------------------------------------------------
(***************************************************************************)
(* Types.                                                                  *)
(***************************************************************************)

\* Every step keeps the types.
LEMMA ShapeStep ==
    ASSUME SelectionInv, [Next]_vars
    PROVE  ShapeOK'
<1>0. ShapeOK
  BY DEF SelectionInv
<1>1. CASE UNCHANGED vars
  BY <1>0, <1>1 DEF vars, setup, calls, ShapeOK
<1>2. ASSUME NEW r \in Requests, NEW mayOverride \in BOOLEAN, PlanSubmission(r, mayOverride)
      PROVE  ShapeOK'
  <2>1. pc' \in [Requests \cup Decisions -> {"idle", "planned", "open", "saved", "failed"}]
    BY <1>0, <1>2, GotoFacts DEF PlanSubmission
  <2> QED BY <1>0, <1>2, <2>1 DEF PlanSubmission, ShapeOK, setup
<1>3. ASSUME NEW r \in Requests, OpenSubmission(r) PROVE ShapeOK'
  <2>1. pc' \in [Requests \cup Decisions -> {"idle", "planned", "open", "saved", "failed"}]
    BY <1>0, <1>3, GotoFacts DEF OpenSubmission
  <2> QED BY <1>0, <1>3, <2>1 DEF OpenSubmission, ShapeOK, setup
<1>4. ASSUME NEW r \in Requests, SaveSubmission(r) PROVE ShapeOK'
  <2>1. pc' \in [Requests \cup Decisions -> {"idle", "planned", "open", "saved", "failed"}]
    BY <1>0, <1>4, GotoFacts DEF SaveSubmission
  <2>2. request' \in [Requests -> RequestRecords]
    BY <1>4, SubmittedFacts
  <2>3. course' \in [Students -> [Offerings -> CourseRecords]]
    <3>1. CASE UNCHANGED course
      BY <1>0, <3>1 DEF ShapeOK
    <3>2. CASE Enroll(StudentOf[r], Selected[r], plan[r].curriculum)
      <4>1. /\ StudentOf[r] \in Students /\ Selected[r] \in SUBSET Offerings
            /\ ProgramOf[StudentOf[r]] \in Programs
            /\ plan[r].curriculum \in Curricula[ProgramOf[StudentOf[r]]]
        BY <1>0, <1>4 DEF SelectionInv, ShapeOK, SubmissionsCurrent, SaveSubmission
      <4>2. PICK s \in Students, offerings \in SUBSET Offerings : CoursesEnrolled(s, offerings)
        BY <1>0, <3>2, <4>1, EnrollFacts
      <4> QED BY <4>2 DEF CoursesEnrolled
    <3> QED BY <1>4, <3>1, <3>2 DEF SaveSubmission
  <2>4. DOMAIN plan' = Requests
    BY <1>0, <1>4 DEF SaveSubmission, ShapeOK
  <2> QED BY <1>0, <1>4, <2>1, <2>2, <2>3, <2>4 DEF SaveSubmission, ShapeOK, setup
<1>5. ASSUME NEW d \in Decisions, OpenDecision(d) PROVE ShapeOK'
  <2>1. pc' \in [Requests \cup Decisions -> {"idle", "planned", "open", "saved", "failed"}]
    BY <1>0, <1>5, GotoFacts DEF OpenDecision
  <2> QED BY <1>0, <1>5, <2>1 DEF OpenDecision, ShapeOK, setup
<1>6. ASSUME NEW d \in Decisions, SaveDecision(d) PROVE ShapeOK'
  <2>1. pc' \in [Requests \cup Decisions -> {"idle", "planned", "open", "saved", "failed"}]
    BY <1>0, <1>6, GotoFacts DEF SaveDecision
  <2>2. request' \in [Requests -> RequestRecords]
    BY <1>0, <1>6, DecidedFacts
  <2>3. course' \in [Students -> [Offerings -> CourseRecords]]
    <3> DEFINE s == StudentOf[RequestOf[d]]
    <3>1. CASE UNCHANGED course
      BY <1>0, <3>1 DEF ShapeOK
    <3>2. CASE Enroll(s, Selected[RequestOf[d]], curriculum[ProgramOf[s]])
      <4>1. /\ s \in Students /\ Selected[RequestOf[d]] \in SUBSET Offerings
            /\ ProgramOf[s] \in Programs /\ curriculum[ProgramOf[s]] \in Curricula[ProgramOf[s]]
        BY <1>0 DEF ShapeOK
      <4> HIDE DEF s
      <4>2. PICK t \in Students, offerings \in SUBSET Offerings : CoursesEnrolled(t, offerings)
        BY <1>0, <3>2, <4>1, EnrollFacts
      <4> QED BY <4>2 DEF CoursesEnrolled
    <3> QED BY <1>6, <3>1, <3>2 DEF SaveDecision
  <2> QED BY <1>0, <1>6, <2>1, <2>2, <2>3 DEF SaveDecision, ShapeOK, setup
<1>7. ASSUME NEW x \in Requests \cup Decisions, Abandon(x) PROVE ShapeOK'
  <2>1. pc' \in [Requests \cup Decisions -> {"idle", "planned", "open", "saved", "failed"}]
    BY <1>0, <1>7, GotoFacts DEF Abandon
  <2> QED BY <1>0, <1>7, <2>1 DEF Abandon, ShapeOK, setup
<1>8. ASSUME NEW s \in Students, EnrollStudent(s) \/ CompleteStudent(s) PROVE ShapeOK'
  BY <1>0, <1>8 DEF EnrollStudent, CompleteStudent, ShapeOK, AcademicStatuses, setup, calls
<1>9. ASSUME NEW s \in Students, WithdrawStudent(s) PROVE ShapeOK'
  <2>1. course' \in [Students -> [Offerings -> CourseRecords]]
    BY <1>0, <1>9, WithdrawFacts
  <2> QED BY <1>0, <1>9, <2>1 DEF WithdrawStudent, ShapeOK, AcademicStatuses, setup, calls
<1>10. ASSUME NEW s \in Students, NEW o \in Offerings,
              WithdrawCourse(s, o) \/ CompleteCourse(s, o)
       PROVE  ShapeOK'
  <2>1. course' \in [Students -> [Offerings -> CourseRecords]]
    <3>1. PICK status \in {"withdrawn", "completed"} : course' = [course EXCEPT ![s][o].status = status]
      BY <1>10 DEF WithdrawCourse, CompleteCourse
    <3>2. CourseLeft(s, o, status)
      BY ONLY <1>0, <3>1, LeaveFacts
    <3> QED BY <3>2 DEF CourseLeft
  <2> QED BY <1>0, <1>10, <2>1 DEF WithdrawCourse, CompleteCourse, ShapeOK, setup, calls
<1>11. CASE CloseTerm \/ PassDeadline
  BY <1>0, <1>11 DEF CloseTerm, PassDeadline, ShapeOK, calls
<1>12. ASSUME NEW p \in Programs, NEW version \in Curricula[p], ConfigureCurriculum(p, version)
       PROVE  ShapeOK'
  BY <1>0, <1>12 DEF ConfigureCurriculum, ShapeOK, calls
<1>13. ASSUME NEW p \in Programs, NEW rules \in Policies[p], ConfigurePolicy(p, rules)
       PROVE  ShapeOK'
  BY <1>0, <1>13 DEF ConfigurePolicy, ShapeOK, calls
<1> QED
  BY <1>1, <1>2, <1>3, <1>4, <1>5, <1>6, <1>7, <1>8, <1>9, <1>10, <1>11, <1>12, <1>13 DEF Next

----------------------------------------------------------------------------
(***************************************************************************)
(* Locks.                                                                  *)
(***************************************************************************)

\* Who is open changes by one call at a time; one that opens has its student
\* free, and if it evaluates, finds the student active and the term open.
LEMMA OpenSteps ==
    ASSUME SelectionInv, [Next]_vars
    PROVE  \/ Open' \subseteq Open
           \/ \E x \in Requests \cup Decisions :
                 /\ Open' = Open \cup {x} /\ x \notin Open
                 /\ StudentFree(StudentIn(x))
                 /\ x \in Requests \cup Approves => CanSelect(StudentIn(x))
                 /\ UNCHANGED <<academic, closed>>
<1>0. ShapeOK
  BY DEF SelectionInv
<1>1. ASSUME UNCHANGED pc PROVE Open' = Open
  BY <1>1 DEF Open
<1>2. ASSUME NEW x \in Requests \cup Decisions,
             NEW step \in {"idle", "planned", "saved", "failed"}, Goto(x, step)
      PROVE  Open' \subseteq Open
  BY <1>0, <1>2, GotoFacts
<1>3. ASSUME NEW r \in Requests, OpenSubmission(r)
      PROVE  /\ Open' = Open \cup {r} /\ r \notin Open
             /\ StudentFree(StudentIn(r)) /\ CanSelect(StudentIn(r))
             /\ UNCHANGED <<academic, closed>>
  BY <1>0, <1>3, GotoFacts DEF OpenSubmission, Open, setup
<1>4. ASSUME NEW d \in Decisions, OpenDecision(d)
      PROVE  /\ Open' = Open \cup {d} /\ d \notin Open /\ d \notin Requests
             /\ StudentFree(StudentIn(d))
             /\ d \in Approves => CanSelect(StudentIn(d))
             /\ UNCHANGED <<academic, closed>>
  BY <1>0, <1>4, GotoFacts, CallFacts DEF OpenDecision, Open, setup
<1>5. ASSUME NEW r \in Requests, NEW m \in BOOLEAN, PlanSubmission(r, m)
      PROVE  Open' \subseteq Open
  BY <1>2, <1>5 DEF PlanSubmission
<1>6. ASSUME NEW r \in Requests, SaveSubmission(r) PROVE Open' \subseteq Open
  BY <1>2, <1>6 DEF SaveSubmission
<1>7. ASSUME NEW d \in Decisions, SaveDecision(d) PROVE Open' \subseteq Open
  BY <1>2, <1>7 DEF SaveDecision
<1>8. ASSUME NEW x \in Requests \cup Decisions, Abandon(x) PROVE Open' \subseteq Open
  BY <1>2, <1>8 DEF Abandon
<1>9. CASE \/ UNCHANGED vars
           \/ \E s \in Students : EnrollStudent(s) \/ WithdrawStudent(s) \/ CompleteStudent(s)
           \/ \E s \in Students, o \in Offerings : WithdrawCourse(s, o) \/ CompleteCourse(s, o)
           \/ CloseTerm \/ PassDeadline
           \/ \E p \in Programs : \/ \E version \in Curricula[p] : ConfigureCurriculum(p, version)
                                  \/ \E rules \in Policies[p] : ConfigurePolicy(p, rules)
  BY <1>1, <1>9 DEF vars, calls, EnrollStudent, WithdrawStudent, CompleteStudent, WithdrawCourse,
     CompleteCourse, CloseTerm, PassDeadline, ConfigureCurriculum, ConfigurePolicy
<1> QED BY <1>3, <1>4, <1>5, <1>6, <1>7, <1>8, <1>9 DEF Next

\* An open transaction has its student for itself.
LEMMA OneStudentStep ==
    ASSUME SelectionInv, [Next]_vars
    PROVE  OneStudentAtATime'
<1>1. \A x \in Requests \cup Decisions : StudentIn(x)' = StudentIn(x)
  BY DEF StudentIn, RequestIn
<1>2. CASE Open' \subseteq Open
  BY <1>1, <1>2 DEF SelectionInv, OneStudentAtATime, Open
<1>3. ASSUME NEW x \in Requests \cup Decisions, Open' = Open \cup {x}, StudentFree(StudentIn(x))
      PROVE  OneStudentAtATime'
  BY <1>1, <1>3 DEF SelectionInv, OneStudentAtATime, Open, StudentFree
<1> QED BY <1>2, <1>3, OpenSteps

\* A student stays active, and the term open, under an evaluation's locks.
LEMMA LockedStands ==
    ASSUME SelectionInv, [Next]_vars, NEW x \in Evaluating
    PROVE  CanSelect(StudentIn(x))'
<1>1. x \in Open /\ x \in Requests \cup Decisions /\ StudentIn(x) \in Students
  BY CallFacts DEF Evaluating, Open
<1>2. academic[StudentIn(x)] = "active" /\ ~closed
  BY DEF SelectionInv, EvaluatedStands, CanSelect
<1>3. StudentIn(x)' = StudentIn(x)
  BY DEF StudentIn, RequestIn
<1>4. ~CloseTerm
  BY DEF CloseTerm, TermFree
<1>5. \A s \in Students : WithdrawStudent(s) \/ CompleteStudent(s) => s # StudentIn(x)
  BY <1>1 DEF WithdrawStudent, CompleteStudent, StudentFree
<1>6. closed' = closed
  BY <1>4 DEF Next, vars, setup, calls, PlanSubmission, OpenSubmission, SaveSubmission, OpenDecision,
     SaveDecision, Abandon, EnrollStudent, WithdrawStudent, CompleteStudent, WithdrawCourse,
     CompleteCourse, PassDeadline, ConfigureCurriculum, ConfigurePolicy
<1>7. academic'[StudentIn(x)] = "active"
  <2>0. academic \in [Students -> AcademicStatuses]
    BY DEF SelectionInv, ShapeOK
  <2>1. CASE UNCHANGED academic
    BY <1>2, <2>1
  <2>2. ASSUME NEW s \in Students, EnrollStudent(s) \/ WithdrawStudent(s) \/ CompleteStudent(s)
        PROVE  academic'[StudentIn(x)] = "active"
    <3>1. PICK status : academic' = [academic EXCEPT ![s] = status]
      BY <2>2 DEF EnrollStudent, WithdrawStudent, CompleteStudent
    <3>2. s # StudentIn(x)
      BY <1>2, <1>5, <2>2 DEF EnrollStudent
    <3> QED BY <1>1, <1>2, <2>0, <3>1, <3>2
  <2> QED BY <2>1, <2>2
     DEF Next, vars, setup, calls, PlanSubmission, OpenSubmission, SaveSubmission, OpenDecision,
     SaveDecision, Abandon, WithdrawCourse, CompleteCourse, CloseTerm, PassDeadline,
     ConfigureCurriculum, ConfigurePolicy
<1> QED BY <1>2, <1>3, <1>6, <1>7 DEF CanSelect

\* What an open transaction found of the student and the term stands.
LEMMA EvaluatedStep ==
    ASSUME SelectionInv, [Next]_vars
    PROVE  EvaluatedStands'
<1>1. \A x \in Requests \cup Decisions : StudentIn(x)' = StudentIn(x)
  BY DEF StudentIn, RequestIn
<1>2. CASE Open' \subseteq Open
  <2>1. Evaluating' \subseteq Evaluating
    BY <1>2 DEF Evaluating
  <2> QED BY <2>1, LockedStands DEF EvaluatedStands
<1>3. ASSUME NEW x \in Requests \cup Decisions, Open' = Open \cup {x},
             x \in Requests \cup Approves => CanSelect(StudentIn(x)),
             UNCHANGED <<academic, closed>>
      PROVE  EvaluatedStands'
  <2>1. \A y \in Evaluating' : y = x \/ y \in Evaluating
    BY <1>3 DEF Evaluating
  <2>2. x \in Evaluating' => CanSelect(StudentIn(x))'
    BY <1>1, <1>3 DEF Evaluating, CanSelect
  <2> QED BY <2>1, <2>2, LockedStands DEF EvaluatedStands
<1> QED BY <1>2, <1>3, OpenSteps

----------------------------------------------------------------------------
(***************************************************************************)
(* Requests and decisions.                                                 *)
(***************************************************************************)

\* Open transactions are about different requests.
LEMMA OneRequestAtATime ==
    ASSUME SelectionInv, NEW x \in Open, NEW y \in Open, RequestIn(x) = RequestIn(y)
    PROVE  x = y
BY DEF SelectionInv, OneStudentAtATime, StudentIn

\* Requests and decisions go through their stages together.
LEMMA ProgressStep ==
    ASSUME SelectionInv, [Next]_vars
    PROVE  ProgressAgrees'
<1>0. ShapeOK /\ ProgressAgrees
  BY DEF SelectionInv
<1>1. CASE UNCHANGED <<request, pc>>
  BY <1>0, <1>1 DEF ProgressAgrees
<1>2. ASSUME NEW x \in Requests \cup Decisions, NEW step \in {"idle", "planned", "open", "failed"},
             Goto(x, step), request' = request, pc[x] # "saved",
             x \in Decisions /\ step = "open" => request[RequestOf[x]].status = "pending"
      PROVE  ProgressAgrees'
  <2>1. pc'[x] = step /\ \A y \in Requests \cup Decisions : y # x => pc'[y] = pc[y]
    BY <1>0, <1>2, GotoFacts
  <2>2. \A y \in Requests \cup Decisions : (pc'[y] = "saved") <=> (pc[y] = "saved")
    BY <1>2, <2>1
  <2>3. \A r \in Requests : pc'[r] # "saved" => request'[r].status = "none"
    BY <1>0, <1>2, <2>2 DEF ProgressAgrees
  <2>4. \A d \in Decisions : pc'[d] = "open" => request'[RequestOf[d]].status = "pending"
    BY <1>0, <1>2, <2>1 DEF ProgressAgrees
  <2> QED BY <1>0, <1>2, <2>2, <2>3, <2>4 DEF ProgressAgrees
<1>3. ASSUME NEW r \in Requests, SaveSubmission(r) PROVE ProgressAgrees'
  <2>1. /\ pc[r] = "open" /\ pc'[r] = "saved"
        /\ \A y \in Requests \cup Decisions : y # r => pc'[y] = pc[y]
    BY <1>0, <1>3, GotoFacts DEF SaveSubmission
  <2>2. \A q \in Requests : q # r => request'[q] = request[q]
    BY <1>3, SubmittedFacts
  <2>3. request[r].status = "none" /\ \A d \in Decisions : d # r
    BY <1>0, <2>1 DEF ProgressAgrees
  <2>4. \A d \in Decisions : pc[d] \in {"open", "saved"} => RequestOf[d] # r
    BY <1>0, <2>3 DEF ProgressAgrees
  <2>5. \A d \in Decisions : /\ pc'[d] = pc[d]
                             /\ pc[d] \in {"open", "saved"} => request'[RequestOf[d]] = request[RequestOf[d]]
    BY <2>1, <2>2, <2>3, <2>4
  <2>6. \A q \in Requests : pc'[q] # "saved" => request'[q].status = "none"
    BY <1>0, <2>1, <2>2 DEF ProgressAgrees
  <2> QED BY <1>0, <2>5, <2>6 DEF ProgressAgrees
<1>4. ASSUME NEW d \in Decisions, SaveDecision(d) PROVE ProgressAgrees'
  <2>1. /\ pc[d] = "open" /\ pc'[d] = "saved" /\ d \notin Requests
        /\ \A y \in Requests \cup Decisions : y # d => pc'[y] = pc[y]
    BY <1>0, <1>4, GotoFacts DEF SaveDecision
  <2>2. /\ \A q \in Requests : q # RequestOf[d] => request'[q] = request[q]
        /\ request'[RequestOf[d]].status = IF d \in Approves THEN "approved" ELSE "rejected"
    BY <1>0, <1>4, DecidedFacts
  <2>3. request[RequestOf[d]].status = "pending"
    BY <1>0, <2>1 DEF ProgressAgrees
  <2>4. \A e \in Decisions : e # d /\ pc[e] = "open" => RequestOf[e] # RequestOf[d]
    BY <2>1, OneRequestAtATime, CallFacts DEF Open
  <2>5. \A e \in Decisions : pc[e] = "saved" => RequestOf[e] # RequestOf[d]
    BY <1>0, <2>3 DEF ProgressAgrees
  <2>6. \A q \in Requests : pc'[q] # "saved" => request'[q].status = "none"
    BY <1>0, <2>1, <2>2, <2>3 DEF ProgressAgrees
  <2>7. \A e \in Decisions : pc'[e] = "open" => request'[RequestOf[e]].status = "pending"
    BY <1>0, <2>1, <2>2, <2>4 DEF ProgressAgrees
  <2>8. \A e \in Decisions : pc'[e] = "saved" =>
           request'[RequestOf[e]].status = IF e \in Approves THEN "approved" ELSE "rejected"
    BY <1>0, <2>1, <2>2, <2>5 DEF ProgressAgrees
  <2>9. \A c, e \in Decisions : pc'[c] = "saved" /\ RequestOf[e] = RequestOf[c] /\ pc'[e] = "saved"
           => e = c
    BY <1>0, <2>1, <2>5 DEF ProgressAgrees
  <2> QED BY <2>6, <2>7, <2>8, <2>9 DEF ProgressAgrees
<1>5. ASSUME NEW r \in Requests, NEW m \in BOOLEAN, PlanSubmission(r, m) PROVE ProgressAgrees'
  BY <1>2, <1>5 DEF PlanSubmission
<1>6. ASSUME NEW r \in Requests, OpenSubmission(r) PROVE ProgressAgrees'
  BY <1>2, <1>6 DEF OpenSubmission
<1>7. ASSUME NEW d \in Decisions, OpenDecision(d) PROVE ProgressAgrees'
  BY <1>2, <1>7 DEF OpenDecision
<1>8. ASSUME NEW x \in Requests \cup Decisions, Abandon(x) PROVE ProgressAgrees'
  <2>1. PICK step \in {"idle", "failed"} : Goto(x, step)
    BY <1>8 DEF Abandon
  <2> QED BY <1>2, <1>8, <2>1 DEF Abandon
<1>9. CASE \/ UNCHANGED vars
           \/ \E s \in Students : EnrollStudent(s) \/ WithdrawStudent(s) \/ CompleteStudent(s)
           \/ \E s \in Students, o \in Offerings : WithdrawCourse(s, o) \/ CompleteCourse(s, o)
           \/ CloseTerm \/ PassDeadline
           \/ \E p \in Programs : \/ \E version \in Curricula[p] : ConfigureCurriculum(p, version)
                                  \/ \E rules \in Policies[p] : ConfigurePolicy(p, rules)
  BY <1>1, <1>9 DEF vars, calls, EnrollStudent, WithdrawStudent, CompleteStudent, WithdrawCourse,
     CompleteCourse, CloseTerm, PassDeadline, ConfigureCurriculum, ConfigurePolicy
<1> QED BY <1>3, <1>4, <1>5, <1>6, <1>7, <1>8, <1>9 DEF Next

----------------------------------------------------------------------------
(***************************************************************************)
(* Seats.                                                                  *)
(***************************************************************************)

\* An approved request is stored with its courses: the student is active, the
\* term open, the courses are new to the student and take free seats.
Grants(r) ==
    LET s == StudentOf[r] IN
    /\ CanSelect(s) /\ academic' = academic
    /\ request[r].status # "approved" /\ request'[r].status = "approved"
    /\ \A q \in Requests : q # r => request'[q].status = request[q].status
    /\ \A t \in Students : t # s => course'[t] = course[t]
    /\ \A o \in Selected[r] : /\ course[s][o].status = "none"
                              /\ Cardinality(Seated(o)) < Capacity[o]
                              /\ course'[s][o].status = "enrolled"
    /\ \A o \in Offerings \ Selected[r] : course'[s][o] = course[s][o]

\* A save grants the courses of its request, or approves nothing.
LEMMA SaveGrants ==
    ASSUME SelectionInv, NEW x \in Requests \cup Decisions,
           x \in Requests => SaveSubmission(x),
           x \in Decisions => SaveDecision(x)
    PROVE  \/ Grants(RequestIn(x)) /\ x \in Evaluating
           \/ /\ course' = course /\ academic' = academic
              /\ \A q \in Requests :
                    (request'[q].status = "approved") <=> (request[q].status = "approved")
<1>0. ShapeOK
  BY DEF SelectionInv
<1>1. CASE x \in Requests
  <2> DEFINE s == StudentOf[x]
             p == ProgramOf[s]
  <2>1. SaveSubmission(x) /\ pc[x] = "open" /\ x \in Evaluating /\ academic' = academic
    BY <1>1 DEF SaveSubmission, Evaluating, Open
  <2>2. /\ \A q \in Requests : q # x => request'[q] = request[q]
        /\ request'[x].status = IF plan[x].policy.approval THEN "pending" ELSE "approved"
    BY <1>1, <2>1, SubmittedFacts
  <2>3. request[x].status = "none"
    BY <1>1, <2>1 DEF SelectionInv, ProgressAgrees
  <2>4. RequestIn(x) = x /\ s = StudentIn(x) /\ CanSelect(s)
    BY <1>1, <2>1, CallFacts DEF SelectionInv, EvaluatedStands
  <2>5. CASE plan[x].policy.approval
    BY <2>1, <2>2, <2>3, <2>5 DEF SaveSubmission
  <2>6. CASE ~plan[x].policy.approval
    <3>1. Enroll(s, Selected[x], plan[x].curriculum)
      BY <2>1, <2>6 DEF SaveSubmission
    <3>2. /\ s \in Students /\ p \in Programs /\ Selected[x] \in SUBSET Offerings
          /\ plan[x].curriculum \in Curricula[p]
      BY <1>0, <1>1, <2>1 DEF SelectionInv, ShapeOK, SubmissionsCurrent
    <3> HIDE DEF s, p
    <3>3. /\ \A t \in Students : t # s => course'[t] = course[t]
          /\ \A o \in Selected[x] : /\ course[s][o].status = "none"
                                    /\ Cardinality(Seated(o)) < Capacity[o]
                                    /\ course'[s][o].status = "enrolled"
          /\ \A o \in Offerings \ Selected[x] : course'[s][o] = course[s][o]
      <4>1. CoursesEnrolled(s, Selected[x])
        BY ONLY <1>0, <3>1, <3>2, EnrollFacts
      <4> QED BY <4>1 DEF CoursesEnrolled
    <3> QED BY <2>1, <2>2, <2>3, <2>4, <2>6, <3>3 DEF Grants, s
  <2> QED BY <2>5, <2>6
<1>2. CASE x \in Decisions
  <2> DEFINE r == RequestOf[x]
             s == StudentOf[r]
             p == ProgramOf[s]
  <2>1. SaveDecision(x) /\ pc[x] = "open" /\ academic' = academic
    BY <1>2 DEF SaveDecision
  <2>2. /\ \A q \in Requests : q # r => request'[q] = request[q]
        /\ request'[r].status = IF x \in Approves THEN "approved" ELSE "rejected"
    BY <1>0, <1>2, <2>1, DecidedFacts
  <2>3. request[r].status = "pending" /\ r \in Requests
    BY <1>2, <2>1 DEF SelectionInv, ProgressAgrees
  <2>4. CASE x \notin Approves
    BY <2>1, <2>2, <2>3, <2>4 DEF SaveDecision
  <2>5. CASE x \in Approves
    <3>1. Enroll(s, Selected[r], curriculum[p])
      BY <2>1, <2>5 DEF SaveDecision
    <3>2. /\ s \in Students /\ p \in Programs /\ Selected[r] \in SUBSET Offerings
          /\ curriculum[p] \in Curricula[p]
      BY <1>0, <2>3 DEF ShapeOK
    <3>3. x \in Evaluating /\ RequestIn(x) = r /\ CanSelect(s)
      BY <1>2, <2>1, <2>5, CallFacts DEF Evaluating, Open, SelectionInv, EvaluatedStands
    <3> HIDE DEF s, p
    <3>4. /\ \A t \in Students : t # s => course'[t] = course[t]
          /\ \A o \in Selected[r] : /\ course[s][o].status = "none"
                                    /\ Cardinality(Seated(o)) < Capacity[o]
                                    /\ course'[s][o].status = "enrolled"
          /\ \A o \in Offerings \ Selected[r] : course'[s][o] = course[s][o]
      <4>1. CoursesEnrolled(s, Selected[r])
        BY ONLY <1>0, <3>1, <3>2, EnrollFacts
      <4> QED BY <4>1 DEF CoursesEnrolled
    <3> QED BY <2>1, <2>2, <2>3, <2>5, <3>3, <3>4 DEF Grants, s
  <2> QED BY <2>4, <2>5
<1> QED BY <1>1, <1>2

\* Otherwise nothing is approved and courses are only left; the courses of a
\* student who is no longer active are left with the program.
Leaves ==
    /\ \A q \in Requests : (request'[q].status = "approved") <=> (request[q].status = "approved")
    /\ \A s \in Students, o \in Offerings :
          /\ (course'[s][o].status = "none") <=> (course[s][o].status = "none")
          /\ course'[s][o].status = "enrolled" => course[s][o].status = "enrolled"
    /\ \A s \in Students : academic[s] = "active" =>
          academic'[s] = "active" \/ \A o \in Offerings : course'[s][o].status # "enrolled"

\* Every step grants the courses of one request, or courses are only left.
LEMMA CourseSteps ==
    ASSUME SelectionInv, [Next]_vars
    PROVE  (\E x \in Evaluating : Grants(RequestIn(x))) \/ Leaves
<1>0. ShapeOK
  BY DEF SelectionInv
<1>1. CASE UNCHANGED <<academic, course, request>>
  BY <1>1 DEF Leaves
<1>2. ASSUME NEW r \in Requests, SaveSubmission(r)
      PROVE  (\E x \in Evaluating : Grants(RequestIn(x))) \/ Leaves
  BY <1>2, SaveGrants DEF Leaves
<1>3. ASSUME NEW d \in Decisions, SaveDecision(d)
      PROVE  (\E x \in Evaluating : Grants(RequestIn(x))) \/ Leaves
  BY <1>3, SaveGrants DEF Leaves
<1>4. ASSUME NEW s \in Students, EnrollStudent(s) PROVE Leaves
  BY <1>0, <1>4 DEF EnrollStudent, ShapeOK, Leaves
<1>5. ASSUME NEW s \in Students, WithdrawStudent(s) PROVE Leaves
  <2>1. /\ \A t \in Students : t # s => course'[t] = course[t] /\ academic'[t] = academic[t]
        /\ request' = request
    BY <1>0, <1>5, WithdrawFacts DEF WithdrawStudent, ShapeOK
  <2>2. \A o \in Offerings :
           IF course[s][o].status = "enrolled" THEN course'[s][o].status = "withdrawn"
           ELSE course'[s][o] = course[s][o]
    BY <1>0, <1>5, WithdrawFacts
  <2>3. \A t \in Students, o \in Offerings :
           /\ (course'[t][o].status = "none") <=> (course[t][o].status = "none")
           /\ course'[t][o].status = "enrolled" => course[t][o].status = "enrolled" /\ t # s
    BY <2>1, <2>2
  <2> QED BY <2>1, <2>3 DEF Leaves
<1>6. ASSUME NEW s \in Students, CompleteStudent(s) PROVE Leaves
  <2>1. /\ course' = course /\ request' = request
        /\ \A t \in Students : t # s => academic'[t] = academic[t]
    BY <1>0, <1>6 DEF CompleteStudent, ShapeOK
  <2>2. \A o \in Offerings : course[s][o].status # "enrolled"
    BY <1>6 DEF CompleteStudent, In
  <2> QED BY <2>1, <2>2 DEF Leaves
<1>7. ASSUME NEW s \in Students, NEW o \in Offerings,
             WithdrawCourse(s, o) \/ CompleteCourse(s, o)
      PROVE  Leaves
  <2>1. PICK status \in {"withdrawn", "completed"} : course' = [course EXCEPT ![s][o].status = status]
    BY <1>7 DEF WithdrawCourse, CompleteCourse
  <2>2. /\ \A t \in Students : t # s => course'[t] = course[t]
        /\ \A k \in Offerings : k # o => course'[s][k] = course[s][k]
        /\ course'[s][o].status \in {"withdrawn", "completed"}
    <3>1. CourseLeft(s, o, status)
      BY ONLY <1>0, <2>1, LeaveFacts
    <3> QED BY <3>1 DEF CourseLeft
  <2>3. course[s][o].status = "enrolled" /\ request' = request /\ academic' = academic
    BY <1>7 DEF WithdrawCourse, CompleteCourse
  <2>4. \A t \in Students, k \in Offerings :
           /\ (course'[t][k].status = "none") <=> (course[t][k].status = "none")
           /\ course'[t][k].status = "enrolled" => course[t][k].status = "enrolled"
    BY <2>2, <2>3
  <2> QED BY <2>3, <2>4 DEF Leaves
<1>8. CASE \/ UNCHANGED vars
           \/ \E r \in Requests, m \in BOOLEAN : PlanSubmission(r, m)
           \/ \E r \in Requests : OpenSubmission(r)
           \/ \E d \in Decisions : OpenDecision(d)
           \/ \E x \in Requests \cup Decisions : Abandon(x)
           \/ CloseTerm \/ PassDeadline
           \/ \E p \in Programs : \/ \E version \in Curricula[p] : ConfigureCurriculum(p, version)
                                  \/ \E rules \in Policies[p] : ConfigurePolicy(p, rules)
  BY <1>1, <1>8 DEF vars, PlanSubmission, OpenSubmission, OpenDecision, Abandon, CloseTerm,
     PassDeadline, ConfigureCurriculum, ConfigurePolicy
<1> QED BY <1>2, <1>3, <1>4, <1>5, <1>6, <1>7, <1>8 DEF Next

\* A student has a course from exactly one approved request, or not at all.
LEMMA GrantsStep ==
    ASSUME SelectionInv, [Next]_vars
    PROVE  GrantsAgree'
<1>1. CASE Leaves
  <2>1. \A s, o : Granted(s, o)' = Granted(s, o)
    BY <1>1 DEF Leaves, Granted
  <2> QED BY <1>1, <2>1 DEF SelectionInv, GrantsAgree, Leaves
<1>2. ASSUME NEW r \in Requests, Grants(r) PROVE GrantsAgree'
  <2> DEFINE s == StudentOf[r]
  <2>1. ASSUME NEW t \in Students, NEW o \in Offerings, t # s \/ o \notin Selected[r]
        PROVE  Granted(t, o)' = Granted(t, o) /\ course'[t][o] = course[t][o]
    BY <1>2, <2>1 DEF Grants, Granted
  <2>2. ASSUME NEW o \in Selected[r]
        PROVE  Granted(s, o)' = {r} /\ course'[s][o].status = "enrolled"
    <3>1. Granted(s, o) = {} /\ course'[s][o].status = "enrolled"
      BY <1>2 DEF Grants, SelectionInv, GrantsAgree
    <3>2. \A q \in Requests : q # r => request'[q].status = request[q].status
      BY <1>2 DEF Grants
    <3>3. \A q \in Requests : q \in Granted(s, o)' <=> q = r
      BY <1>2, <3>1, <3>2 DEF Grants, Granted
    <3> QED BY <3>1, <3>3 DEF Granted
  <2> SUFFICES ASSUME NEW t \in Students, NEW o \in Offerings
               PROVE  IF course'[t][o].status = "none" THEN Granted(t, o)' = {}
                      ELSE \E q \in Requests : Granted(t, o)' = {q}
    BY DEF GrantsAgree, Granted
  <2>3. CASE t # s \/ o \notin Selected[r]
    <3>1. Granted(t, o)' = Granted(t, o) /\ course'[t][o] = course[t][o]
      BY <2>1, <2>3
    <3>2. IF course[t][o].status = "none" THEN Granted(t, o) = {}
          ELSE \E q \in Requests : Granted(t, o) = {q}
      BY DEF SelectionInv, GrantsAgree
    <3> QED BY ONLY <3>1, <3>2
  <2>4. CASE t = s /\ o \in Selected[r]
    <3> HIDE DEF s
    <3> QED BY <2>2, <2>4
  <2> QED BY <2>3, <2>4
<1>3. \A x \in Evaluating : RequestIn(x) \in Requests
  BY CallFacts DEF Evaluating, Open
<1> QED BY <1>1, <1>2, <1>3, CourseSteps

\* A seat is taken only while there is one, by a student who is active.
LEMMA EntitledStep ==
    ASSUME SelectionInv, [Next]_vars
    PROVE  EnrolledIsEntitled'
<1>0. \A o : IsFiniteSet(Seated(o))
  <2>1. \A o : Seated(o) \in SUBSET Students
    BY DEF Seated
  <2> QED BY <2>1, FS_Subset
<1>1. CASE Leaves
  <2>1. ASSUME NEW o \in Offerings PROVE Cardinality(Seated(o)') <= Capacity[o]
    <3>1. Seated(o)' \subseteq Seated(o)
      BY <1>1 DEF Leaves, Seated
    <3>2. /\ Cardinality(Seated(o)') <= Cardinality(Seated(o))
          /\ Cardinality(Seated(o)) \in Nat /\ Cardinality(Seated(o)') \in Nat
      BY <1>0, <3>1, FS_Subset, FS_CardinalityType
    <3> QED BY <3>2 DEF SelectionInv, EnrolledIsEntitled
  <2>2. \A s \in Students : In(s, "enrolled")' # {} => academic'[s] = "active"
    BY <1>1 DEF SelectionInv, EnrolledIsEntitled, In, Leaves
  <2> QED BY <2>1, <2>2 DEF EnrolledIsEntitled
<1>2. ASSUME NEW r \in Requests, Grants(r) PROVE EnrolledIsEntitled'
  <2> DEFINE s == StudentOf[r]
  <2>0. s \in Students
    OBVIOUS
  <2>1. ASSUME NEW o \in Offerings PROVE Cardinality(Seated(o)') <= Capacity[o]
    <3>1. CASE o \in Selected[r]
      <4>1. Seated(o)' = Seated(o) \cup {s} /\ Cardinality(Seated(o)) < Capacity[o]
        BY <1>2, <2>0, <3>1 DEF Grants, Seated
      <4>2. /\ Cardinality(Seated(o) \cup {s}) <= Cardinality(Seated(o)) + 1
            /\ Cardinality(Seated(o)) \in Nat /\ Cardinality(Seated(o) \cup {s}) \in Nat
        <5>1. IsFiniteSet(Seated(o)) /\ IsFiniteSet(Seated(o) \cup {s})
          BY <1>0, FS_AddElement
        <5>2. s \in Seated(o) => Cardinality(Seated(o) \cup {s}) = Cardinality(Seated(o))
          BY <5>1, FS_AddElement
        <5>3. Cardinality(Seated(o)) \in Nat
          BY <5>1, FS_CardinalityType
        <5>4. s \notin Seated(o) => Cardinality(Seated(o) \cup {s}) = Cardinality(Seated(o)) + 1
          BY <5>1, FS_AddElement
        <5> HIDE DEF s
        <5>5. CASE s \in Seated(o)
          BY <5>2, <5>3, <5>5
        <5>6. CASE s \notin Seated(o)
          BY <5>3, <5>4, <5>6
        <5> QED BY <5>5, <5>6
      <4> QED BY <4>1, <4>2
    <3>2. CASE o \notin Selected[r]
      <4>1. Seated(o)' = Seated(o)
        BY <1>2, <2>0, <3>2 DEF Grants, Seated
      <4> QED BY <4>1 DEF SelectionInv, EnrolledIsEntitled
    <3> QED BY <3>1, <3>2
  <2>2. academic' = academic /\ academic[s] = "active"
    BY <1>2 DEF Grants, CanSelect
  <2>3. \A t \in Students : t # s => In(t, "enrolled")' = In(t, "enrolled")
    BY <1>2 DEF Grants, In
  <2>4. \A t \in Students : In(t, "enrolled")' # {} => academic'[t] = "active"
    BY <2>2, <2>3 DEF SelectionInv, EnrolledIsEntitled
  <2> QED BY <2>1, <2>4 DEF EnrolledIsEntitled
<1>3. \A x \in Evaluating : RequestIn(x) \in Requests
  BY CallFacts DEF Evaluating, Open
<1> QED BY <1>1, <1>2, <1>3, CourseSteps

----------------------------------------------------------------------------
(***************************************************************************)
(* The rules at the moment of approval.                                    *)
(***************************************************************************)

\* Active credits add up the student's records.
LEMMA ActiveCreditsFacts ==
    ASSUME ShapeOK, NEW s \in Students
    PROVE  /\ ActiveCredits(s) = CreditsIn(course[s], In(s, "enrolled"))
           /\ ActiveCredits(s) \in Nat
<1>1. ActiveCredits(s) = CreditsIn(course[s], In(s, "enrolled"))
  BY DEF ActiveCredits, MapThenSumSet, MapThenFoldSet, CreditsIn, Pick
<1> DEFINE f == [o \in Offerings |-> course[s][o].credits]
<1>2. In(s, "enrolled") \in SUBSET Offerings /\ f \in [Offerings -> Nat]
  BY DEF In, ShapeOK, CourseRecords
<1>3. ActiveCredits(s) = Total(f, In(s, "enrolled"))
  BY <1>1, <1>2, RecordsSum
<1> HIDE DEF f
<1>4. IsFiniteSet(In(s, "enrolled"))
  BY <1>2, FS_Subset
<1> QED BY <1>1, <1>2, <1>3, <1>4, TallyIs

\* Which rules fail is known from the evaluation.
LEMMA FailedRulesWithin ==
    ASSUME NEW s, NEW offerings, NEW codes,
           \A v \in Evaluate(s, offerings, curriculum[ProgramOf[s]], policy[ProgramOf[s]], FALSE) :
              v.code \in codes
    PROVE  FailedRules(s, offerings) \subseteq codes
<1> DEFINE failed == Evaluate(s, offerings, curriculum[ProgramOf[s]], policy[ProgramOf[s]], FALSE)
<1>1. \A v \in failed : v.code \in codes
  OBVIOUS
<1>2. FailedRules(s, offerings) = Codes(failed)
  BY DEF FailedRules
<1> HIDE DEF failed
<1> QED BY <1>1, <1>2 DEF Codes

\* The rules that fail for a student whose courses stay are those that did.
LEMMA RulesStay ==
    ASSUME ShapeOK, NEW s \in Students, NEW offerings \in SUBSET Offerings,
           UNCHANGED <<curriculum[ProgramOf[s]], policy[ProgramOf[s]]>>,
           course'[s] = course[s]
    PROVE  FailedRules(s, offerings)' \subseteq FailedRules(s, offerings)
<1>1. /\ In(s, "enrolled")' = In(s, "enrolled")
      /\ In(s, "completed")' = In(s, "completed")
  BY DEF In
<1>2. ActiveCredits(s)' = CreditsIn(course'[s], In(s, "enrolled")')
  BY DEF ActiveCredits, MapThenSumSet, MapThenFoldSet, CreditsIn, Pick
<1>3. ActiveCredits(s) = CreditsIn(course[s], In(s, "enrolled")) /\ ActiveCredits(s) \in Nat
  BY ActiveCreditsFacts
<1>4. ActiveCredits(s)' = ActiveCredits(s)
  BY <1>1, <1>2, <1>3
<1>5. ActiveCredits(s)' <= ActiveCredits(s) /\ ActiveCredits(s)' \in Nat
  BY <1>3, <1>4
<1> QED BY <1>1, <1>3, <1>5, RulesOnlyRelax

\* When a course is left, no rule fails that held.
LEMMA RulesRelax ==
    ASSUME ShapeOK, NEW s \in Students, NEW offerings \in SUBSET Offerings, NEW o \in Offerings,
           UNCHANGED <<curriculum[ProgramOf[s]], policy[ProgramOf[s]]>>,
           WithdrawCourse(s, o) \/ CompleteCourse(s, o)
    PROVE  FailedRules(s, offerings)' \subseteq FailedRules(s, offerings)
<1>1. PICK status \in {"withdrawn", "completed"} : course' = [course EXCEPT ![s][o].status = status]
  BY DEF WithdrawCourse, CompleteCourse
<1>2. /\ course' \in [Students -> [Offerings -> CourseRecords]]
      /\ \A k \in Offerings : k # o => course'[s][k] = course[s][k]
      /\ course'[s][o].status = status
      /\ course'[s][o].credits = course[s][o].credits
  <2>1. CourseLeft(s, o, status)
    BY ONLY <1>1, LeaveFacts, ShapeOK
  <2> QED BY <2>1 DEF CourseLeft
<1>3. course[s][o].status = "enrolled"
  BY DEF WithdrawCourse, CompleteCourse
<1>4. /\ In(s, "enrolled")' = In(s, "enrolled") \ {o}
      /\ In(s, "completed") \subseteq In(s, "completed")'
  BY <1>1, <1>2, <1>3 DEF In
<1>5. \A k \in Offerings : course'[s][k].credits = course[s][k].credits
  BY <1>2
<1>6. /\ ActiveCredits(s) \in Nat /\ ActiveCredits(s)' \in Nat
      /\ ActiveCredits(s)' <= ActiveCredits(s)
  BY <1>2, <1>3, <1>4, <1>5, ActiveCreditsRelax
<1> QED BY <1>4, <1>6, RulesOnlyRelax

\* A student whose transaction is open leaves courses at most, and the program's
\* configuration stays under an evaluation's locks.
LEMMA OpenCourses ==
    ASSUME SelectionInv, [Next]_vars, NEW x \in Open, x \in Open'
    PROVE  \/ course'[StudentIn(x)] = course[StudentIn(x)]
           \/ \E o \in Offerings : \/ WithdrawCourse(StudentIn(x), o)
                                   \/ CompleteCourse(StudentIn(x), o)
<1> DEFINE s == StudentIn(x)
<1>0. ShapeOK /\ x \in Requests \cup Decisions /\ s \in Students
  BY CallFacts DEF SelectionInv, Open
<1>1. CASE course' = course
  BY <1>1
<1>2. ASSUME NEW y \in Requests \cup Decisions, y \in Open, y \notin Open', Grants(RequestIn(y))
      PROVE  course'[s] = course[s]
  <2>1. StudentIn(y) # s
    BY <1>2 DEF SelectionInv, OneStudentAtATime
  <2> QED BY <1>0, <1>2, <2>1, CallFacts DEF Grants
<1>3. ASSUME NEW r \in Requests, SaveSubmission(r) PROVE course'[s] = course[s]
  <2>1. r \in Open /\ r \notin Open' /\ r \notin Decisions
    BY <1>0, <1>3, GotoFacts DEF SaveSubmission, Open
  <2>2. Grants(RequestIn(r)) \/ course' = course
    BY <1>3, <2>1, SaveGrants
  <2> QED BY <1>2, <2>1, <2>2
<1>4. ASSUME NEW d \in Decisions, SaveDecision(d) PROVE course'[s] = course[s]
  <2>1. d \in Open /\ d \notin Open' /\ d \notin Requests
    BY <1>0, <1>4, GotoFacts DEF SaveDecision, Open
  <2>2. Grants(RequestIn(d)) \/ course' = course
    BY <1>4, <2>1, SaveGrants
  <2> QED BY <1>2, <2>1, <2>2
<1>5. ASSUME NEW t \in Students, WithdrawStudent(t) PROVE course'[s] = course[s]
  <2>1. t # s
    BY <1>5 DEF WithdrawStudent, StudentFree
  <2> HIDE DEF s
  <2> QED BY <1>0, <1>5, <2>1, WithdrawFacts
<1>6. ASSUME NEW t \in Students, NEW o \in Offerings, WithdrawCourse(t, o) \/ CompleteCourse(t, o)
      PROVE  course'[s] = course[s] \/ t = s
  <2>1. PICK status \in {"withdrawn", "completed"} : course' = [course EXCEPT ![t][o].status = status]
    BY <1>6 DEF WithdrawCourse, CompleteCourse
  <2>2. \A u \in Students : u # t => course'[u] = course[u]
    <3>1. CourseLeft(t, o, status)
      BY ONLY <1>0, <2>1, LeaveFacts
    <3> QED BY <3>1 DEF CourseLeft
  <2> HIDE DEF s
  <2> QED BY <1>0, <2>2
<1>7. CASE \/ UNCHANGED vars
           \/ \E r \in Requests, m \in BOOLEAN : PlanSubmission(r, m)
           \/ \E r \in Requests : OpenSubmission(r)
           \/ \E d \in Decisions : OpenDecision(d)
           \/ \E y \in Requests \cup Decisions : Abandon(y)
           \/ \E t \in Students : EnrollStudent(t) \/ CompleteStudent(t)
           \/ CloseTerm \/ PassDeadline
           \/ \E p \in Programs : \/ \E version \in Curricula[p] : ConfigureCurriculum(p, version)
                                  \/ \E rules \in Policies[p] : ConfigurePolicy(p, rules)
  BY <1>1, <1>7 DEF vars, PlanSubmission, OpenSubmission, OpenDecision, Abandon, EnrollStudent,
     CompleteStudent, CloseTerm, PassDeadline, ConfigureCurriculum, ConfigurePolicy
<1> QED BY <1>3, <1>4, <1>5, <1>6, <1>7 DEF Next

\* The program's configuration stays under an evaluation's locks.
LEMMA ConfigurationStands ==
    ASSUME SelectionInv, [Next]_vars, NEW x \in Evaluating
    PROVE  UNCHANGED <<curriculum[ProgramIn(x)], policy[ProgramIn(x)]>>
<1>1. ASSUME NEW p \in Programs, ProgramFree(p) PROVE p # ProgramIn(x)
  BY <1>1 DEF ProgramFree
<1>2. ASSUME NEW p \in Programs, NEW version \in Curricula[p], ConfigureCurriculum(p, version)
      PROVE  UNCHANGED <<curriculum[ProgramIn(x)], policy[ProgramIn(x)]>>
  BY <1>1, <1>2 DEF ConfigureCurriculum, SelectionInv, ShapeOK
<1>3. ASSUME NEW p \in Programs, NEW rules \in Policies[p], ConfigurePolicy(p, rules)
      PROVE  UNCHANGED <<curriculum[ProgramIn(x)], policy[ProgramIn(x)]>>
  BY <1>1, <1>3 DEF ConfigurePolicy, SelectionInv, ShapeOK
<1>4. CASE UNCHANGED <<curriculum, policy>>
  BY <1>4 DEF ProgramIn, StudentIn, RequestIn
<1> QED BY <1>2, <1>3, <1>4
    DEF Next, vars, setup, calls, PlanSubmission, OpenSubmission, SaveSubmission, OpenDecision,
    SaveDecision, Abandon, EnrollStudent, WithdrawStudent, CompleteStudent, WithdrawCourse,
    CompleteCourse, CloseTerm, PassDeadline

\* No rule fails for an open evaluation that did not fail before.
LEMMA OpenRulesRelax ==
    ASSUME SelectionInv, [Next]_vars, NEW x \in Evaluating, x \in Open'
    PROVE  /\ UNCHANGED <<curriculum[ProgramIn(x)], policy[ProgramIn(x)]>>
           /\ FailedRules(StudentIn(x), Selected[RequestIn(x)])'
                 \subseteq FailedRules(StudentIn(x), Selected[RequestIn(x)])
<1>1. /\ x \in Open /\ x \in Requests \cup Decisions /\ ShapeOK
  BY DEF Evaluating, Open, SelectionInv
<1>2. PICK s \in Students, offerings \in SUBSET Offerings :
         /\ s = StudentIn(x) /\ offerings = Selected[RequestIn(x)]
         /\ ProgramOf[s] = ProgramIn(x)
  BY <1>1, CallFacts
<1>3. s = StudentIn(x)' /\ offerings = Selected[RequestIn(x)]'
  BY <1>2 DEF StudentIn, RequestIn
<1>4. UNCHANGED <<curriculum[ProgramOf[s]], policy[ProgramOf[s]]>>
  BY <1>2, ConfigurationStands DEF ProgramIn, StudentIn, RequestIn
<1>5. FailedRules(s, offerings)' \subseteq FailedRules(s, offerings)
  <2>1. CASE course'[s] = course[s]
    BY <1>1, <1>4, <2>1, RulesStay
  <2>2. ASSUME NEW o \in Offerings, WithdrawCourse(s, o) \/ CompleteCourse(s, o)
        PROVE  FailedRules(s, offerings)' \subseteq FailedRules(s, offerings)
    BY <1>1, <1>4, <2>2, RulesRelax
  <2> QED BY <1>1, <1>2, <2>1, <2>2, OpenCourses
<1> QED BY <1>2, <1>3, <1>5, ConfigurationStands DEF FailedRules

\* What a submission planned and what a request stores stay while a transaction
\* about it is open.
LEMMA OpenStores ==
    ASSUME SelectionInv, [Next]_vars, NEW x \in Open, x \in Open'
    PROVE  /\ x \in Requests => plan'[x] = plan[x]
           /\ request'[RequestIn(x)] = request[RequestIn(x)]
<1>0. ShapeOK /\ x \in Requests \cup Decisions /\ RequestIn(x) \in Requests
  BY CallFacts DEF SelectionInv, Open
<1>1. CASE UNCHANGED <<plan, request>>
  BY <1>1
<1>2. ASSUME NEW r \in Requests, NEW m \in BOOLEAN, PlanSubmission(r, m)
      PROVE  /\ x \in Requests => plan'[x] = plan[x]
             /\ request' = request
  <2>1. r # x
    BY <1>2 DEF PlanSubmission, Open
  <2> QED BY <1>0, <1>2, <2>1 DEF PlanSubmission, ShapeOK
<1>3. ASSUME NEW r \in Requests, SaveSubmission(r)
      PROVE  /\ x \in Requests => plan'[x] = plan[x]
             /\ request'[RequestIn(x)] = request[RequestIn(x)]
  <2>1. r \in Open /\ r \notin Open' /\ r \in Requests \cup Decisions
    BY <1>0, <1>3, GotoFacts DEF SaveSubmission, Open
  <2>2. r # x /\ RequestIn(r) = r
    BY <2>1, CallFacts
  <2>3. RequestIn(x) # r
    BY <2>1, <2>2, OneRequestAtATime
  <2>4. request'[RequestIn(x)] = request[RequestIn(x)]
    BY <1>0, <1>3, <2>3, SubmittedFacts
  <2> QED BY <1>0, <1>3, <2>2, <2>4 DEF SaveSubmission, ShapeOK
<1>4. ASSUME NEW d \in Decisions, SaveDecision(d)
      PROVE  /\ x \in Requests => plan'[x] = plan[x]
             /\ request'[RequestIn(x)] = request[RequestIn(x)]
  <2>1. d \in Open /\ d \notin Open' /\ d \in Requests \cup Decisions
    BY <1>0, <1>4, GotoFacts DEF SaveDecision, Open
  <2>2. d # x /\ RequestIn(d) = RequestOf[d]
    BY <2>1, CallFacts
  <2>3. RequestIn(x) # RequestOf[d]
    BY <2>1, <2>2, OneRequestAtATime
  <2>4. request'[RequestIn(x)] = request[RequestIn(x)]
    BY <1>0, <1>4, <2>3, DecidedFacts
  <2> QED BY <1>4, <2>4 DEF SaveDecision
<1>5. ASSUME NEW y \in Requests \cup Decisions, Abandon(y)
      PROVE  /\ x \in Requests => plan'[x] = plan[x]
             /\ request' = request
  <2>1. PICK step \in {"idle", "failed"} : Goto(y, step)
    BY <1>5 DEF Abandon
  <2>2. y # x
    BY <1>0, <2>1, GotoFacts
  <2> QED BY <1>0, <1>5, <2>2 DEF Abandon
<1>6. CASE \/ UNCHANGED vars
           \/ \E r \in Requests : OpenSubmission(r)
           \/ \E d \in Decisions : OpenDecision(d)
           \/ \E s \in Students : EnrollStudent(s) \/ WithdrawStudent(s) \/ CompleteStudent(s)
           \/ \E s \in Students, o \in Offerings : WithdrawCourse(s, o) \/ CompleteCourse(s, o)
           \/ CloseTerm \/ PassDeadline
           \/ \E p \in Programs : \/ \E version \in Curricula[p] : ConfigureCurriculum(p, version)
                                  \/ \E rules \in Policies[p] : ConfigurePolicy(p, rules)
  BY <1>1, <1>6 DEF vars, calls, OpenSubmission, OpenDecision, EnrollStudent, WithdrawStudent,
     CompleteStudent, WithdrawCourse, CompleteCourse, CloseTerm, PassDeadline,
     ConfigureCurriculum, ConfigurePolicy
<1> QED BY <1>2, <1>3, <1>4, <1>5, <1>6, <1>1 DEF Next

\* A call that opens is one of these.
LEMMA WhoOpens ==
    ASSUME SelectionInv, [Next]_vars, NEW x \in Requests \cup Decisions, x \in Open', x \notin Open
    PROVE  \/ x \in Requests /\ OpenSubmission(x)
           \/ x \in Decisions /\ OpenDecision(x)
<1>0. ShapeOK
  BY DEF SelectionInv
<1>1. ASSUME NEW y \in Requests \cup Decisions,
             NEW step \in {"idle", "planned", "saved", "failed"}, Goto(y, step)
      PROVE  FALSE
  BY <1>0, <1>1, GotoFacts
<1> SUFFICES ASSUME ~(x \in Requests /\ OpenSubmission(x)), ~(x \in Decisions /\ OpenDecision(x))
             PROVE  FALSE
  OBVIOUS
<1>2. pc' # pc
  BY DEF Open
<1>3. ASSUME NEW y \in Requests \cup Decisions, Goto(y, "open") PROVE y = x
  BY <1>0, <1>3, GotoFacts
<1>4. ASSUME NEW r \in Requests, OpenSubmission(r) PROVE FALSE
  <2>1. x = r
    BY <1>3, <1>4 DEF OpenSubmission
  <2> QED BY <1>4, <2>1
<1>5. ASSUME NEW d \in Decisions, OpenDecision(d) PROVE FALSE
  <2>1. x = d
    BY <1>3, <1>5 DEF OpenDecision
  <2> QED BY <1>5, <2>1
<1>6. ASSUME NEW r \in Requests, NEW m \in BOOLEAN, PlanSubmission(r, m) PROVE FALSE
  BY <1>1, <1>6 DEF PlanSubmission
<1>7. ASSUME NEW r \in Requests, SaveSubmission(r) PROVE FALSE
  BY <1>1, <1>7 DEF SaveSubmission
<1>8. ASSUME NEW d \in Decisions, SaveDecision(d) PROVE FALSE
  BY <1>1, <1>8 DEF SaveDecision
<1>9. ASSUME NEW y \in Requests \cup Decisions, Abandon(y) PROVE FALSE
  BY <1>1, <1>9 DEF Abandon
<1>10. CASE \/ UNCHANGED vars
            \/ \E s \in Students : EnrollStudent(s) \/ WithdrawStudent(s) \/ CompleteStudent(s)
            \/ \E s \in Students, o \in Offerings : WithdrawCourse(s, o) \/ CompleteCourse(s, o)
            \/ CloseTerm \/ PassDeadline
            \/ \E p \in Programs : \/ \E version \in Curricula[p] : ConfigureCurriculum(p, version)
                                   \/ \E rules \in Policies[p] : ConfigurePolicy(p, rules)
  BY <1>2, <1>10 DEF vars, calls, EnrollStudent, WithdrawStudent, CompleteStudent, WithdrawCourse,
     CompleteCourse, CloseTerm, PassDeadline, ConfigureCurriculum, ConfigurePolicy
<1>11. ~UNCHANGED vars
  BY <1>10
<1>12. ~\E r \in Requests : \/ \E m \in BOOLEAN : PlanSubmission(r, m)
                            \/ OpenSubmission(r) \/ SaveSubmission(r)
  BY <1>4, <1>6, <1>7
<1>13. ~\E d \in Decisions : OpenDecision(d) \/ SaveDecision(d)
  BY <1>5, <1>8
<1>14. ~\E y \in Requests \cup Decisions : Abandon(y)
  BY <1>9
<1> QED BY <1>10, <1>11, <1>12, <1>13, <1>14 DEF Next

\* What a submission is about to save is still what was planned.
LEMMA SubmissionsStep ==
    ASSUME SelectionInv, [Next]_vars
    PROVE  SubmissionsCurrent'
<1>0. ShapeOK
  BY DEF SelectionInv
<1> SUFFICES ASSUME NEW r \in Requests, pc'[r] = "open"
             PROVE  /\ plan'[r].policy = policy'[ProgramOf[StudentOf[r]]]
                    /\ plan'[r].curriculum = curriculum'[ProgramOf[StudentOf[r]]]
                    /\ plan'[r].violations \subseteq Violations
                    /\ FailedRules(StudentOf[r], Selected[r])' \subseteq Codes(plan'[r].violations)
  BY DEF SubmissionsCurrent, Codes
<1>1. /\ r \in Requests \cup Decisions /\ r \in Open' /\ RequestIn(r) = r
      /\ StudentIn(r) = StudentOf[r] /\ ProgramIn(r) = ProgramOf[StudentOf[r]]
  BY CallFacts DEF Open
<1>2. CASE r \in Open
  <2>1. r \in Evaluating
    BY <1>2 DEF Evaluating
  <2>2. UNCHANGED <<curriculum[ProgramOf[StudentOf[r]]], policy[ProgramOf[StudentOf[r]]]>>
    BY <1>1, <2>1, ConfigurationStands DEF ProgramIn, StudentIn, RequestIn
  <2>3. FailedRules(StudentOf[r], Selected[r])' \subseteq FailedRules(StudentOf[r], Selected[r])
    BY <1>1, <2>1, OpenRulesRelax DEF ProgramIn, StudentIn, RequestIn
  <2>4. plan'[r] = plan[r]
    BY <1>1, <1>2, OpenStores
  <2>5. /\ plan[r].policy = policy[ProgramOf[StudentOf[r]]]
        /\ plan[r].curriculum = curriculum[ProgramOf[StudentOf[r]]]
        /\ plan[r].violations \subseteq Violations
        /\ FailedRules(StudentOf[r], Selected[r]) \subseteq Codes(plan[r].violations)
    BY <1>2 DEF SelectionInv, SubmissionsCurrent, Open
  <2> QED BY <2>2, <2>3, <2>4, <2>5
<1>3. CASE r \notin Open
  <2> DEFINE s == StudentOf[r]
             p == ProgramOf[s]
  <2>1. OpenSubmission(r)
    BY <1>1, <1>3, WhoOpens
  <2>2. /\ Plan(r, plan[r].late) = plan[r] /\ plan' = plan
        /\ UNCHANGED <<course, curriculum, policy>>
    BY <2>1 DEF OpenSubmission, setup
  <2>3. /\ plan[r].policy = policy[p] /\ plan[r].curriculum = curriculum[p]
        /\ plan[r].violations = Evaluate(s, Selected[r], curriculum[p], policy[p], plan[r].late)
    BY <2>2 DEF Plan
  <2>4. /\ s \in Students /\ p \in Programs /\ curriculum[p] \in Curricula[p]
        /\ Selected[r] \in SUBSET Offerings
    BY <1>0 DEF ShapeOK
  <2>5. /\ Evaluate(s, Selected[r], curriculum[p], policy[p], plan[r].late) \subseteq Violations
        /\ Evaluate(s, Selected[r], curriculum[p], policy[p], FALSE)
              \subseteq Evaluate(s, Selected[r], curriculum[p], policy[p], plan[r].late)
    BY <2>4, EvaluationFacts
  <2>6. FailedRules(s, Selected[r]) \subseteq Codes(plan[r].violations)
    <3>1. ASSUME NEW v \in Evaluate(s, Selected[r], curriculum[p], policy[p], FALSE)
          PROVE  v.code \in Codes(plan[r].violations)
      <4>1. v \in Evaluate(s, Selected[r], curriculum[p], policy[p], plan[r].late)
        BY <2>5
      <4>2. v \in plan[r].violations
        BY <2>3, <4>1
      <4> QED BY <4>2 DEF Codes
    <3> HIDE DEF s
    <3> QED BY ONLY <3>1, FailedRulesWithin
  <2>7. FailedRules(s, Selected[r])' \subseteq FailedRules(s, Selected[r])
    BY <1>0, <2>2, <2>4, RulesStay
  <2> QED BY <2>2, <2>3, <2>5, <2>6, <2>7
<1> QED BY <1>2, <1>3

\* What an approval is about to save is still covered by the override.
LEMMA DecisionsStep ==
    ASSUME SelectionInv, [Next]_vars
    PROVE  DecisionsCurrent'
<1>0. ShapeOK
  BY DEF SelectionInv
<1> SUFFICES ASSUME NEW d \in Approves, pc'[d] = "open"
             PROVE  LET r == RequestOf[d]
                        p == ProgramOf[StudentOf[r]] IN
                    /\ CreditsOf(Selected[r], curriculum'[p]) = request'[r].credits
                    /\ FailedRules(StudentOf[r], Selected[r])' \subseteq Codes(request'[r].override)
  BY DEF DecisionsCurrent, Codes
<1> DEFINE r == RequestOf[d]
           s == StudentOf[r]
           p == ProgramOf[s]
<1>1. /\ d \in Decisions /\ d \in Requests \cup Decisions /\ d \in Open'
      /\ RequestIn(d) = r /\ StudentIn(d) = s /\ ProgramIn(d) = p
      /\ r \in Requests /\ s \in Students /\ p \in Programs /\ Selected[r] \in SUBSET Offerings
  BY CallFacts DEF Open
<1>2. CASE d \in Open
  <2>1. d \in Evaluating
    BY <1>2 DEF Evaluating
  <2>2. curriculum'[p] = curriculum[p]
    BY <1>1, <2>1, ConfigurationStands DEF ProgramIn, StudentIn, RequestIn
  <2>3. FailedRules(s, Selected[r])' \subseteq FailedRules(s, Selected[r])
    BY <1>1, <2>1, OpenRulesRelax DEF ProgramIn, StudentIn, RequestIn
  <2>4. request'[r] = request[r]
    BY <1>1, <1>2, OpenStores
  <2>5. /\ CreditsOf(Selected[r], curriculum[p]) = request[r].credits
        /\ FailedRules(s, Selected[r]) \subseteq Codes(request[r].override)
    BY <1>2 DEF SelectionInv, DecisionsCurrent, Open
  <2> QED BY <2>2, <2>3, <2>4, <2>5
<1>3. CASE d \notin Open
  <2>1. OpenDecision(d)
    BY <1>1, <1>3, WhoOpens
  <2>2. StillApprovable(r) /\ UNCHANGED <<course, request, curriculum, policy>>
    BY <2>1 DEF OpenDecision, setup
  <2>3. /\ CreditsOf(Selected[r], curriculum[p]) = request[r].credits
        /\ \A v \in Evaluate(s, Selected[r], curriculum[p], policy[p], late) :
              Covered(v, request[r].override)
    BY <2>2 DEF StillApprovable
  <2>4. curriculum[p] \in Curricula[p] /\ late \in BOOLEAN
    BY <1>0, <1>1 DEF ShapeOK
  <2>5. Evaluate(s, Selected[r], curriculum[p], policy[p], FALSE)
           \subseteq Evaluate(s, Selected[r], curriculum[p], policy[p], late)
    BY <1>1, <2>4, EvaluationFacts
  <2>6. \A v, override : Covered(v, override) => v.code \in Codes(override)
    BY DEF Covered, Persisted, Codes
  <2>7. FailedRules(s, Selected[r]) \subseteq Codes(request[r].override)
    <3>1. \A v \in Evaluate(s, Selected[r], curriculum[p], policy[p], FALSE) :
             v.code \in Codes(request[r].override)
      BY <2>3, <2>5, <2>6
    <3> HIDE DEF s
    <3> QED BY ONLY <3>1, FailedRulesWithin
  <2>8. FailedRules(s, Selected[r])' \subseteq FailedRules(s, Selected[r])
    BY <1>0, <1>1, <2>2, RulesStay
  <2> QED BY <2>2, <2>3, <2>7, <2>8
<1> QED BY <1>2, <1>3

----------------------------------------------------------------------------
(***************************************************************************)
(* The theorems.                                                           *)
(***************************************************************************)

\* The invariant holds in every state: requests, courses, seats and what is open
\* agree, whatever overlaps (submit and decide_course_selection under their locks).
THEOREM SelectionCorrect == Spec => []SelectionInv
<1>1. SelectionInv /\ [Next]_vars => SelectionInv'
  <2> SUFFICES ASSUME SelectionInv, [Next]_vars PROVE SelectionInv'
    OBVIOUS
  <2> QED BY ShapeStep, OneStudentStep, EvaluatedStep, ProgressStep, GrantsStep, EntitledStep,
             SubmissionsStep, DecisionsStep DEF SelectionInv
<1> QED BY SelectionInitially, <1>1, PTL DEF Spec

\* No offering takes more students than it has seats, and a student is enrolled
\* in courses only while active in the program (_check_and_lock_capacity, and the
\* locks of submission_transaction, decision_transaction and the withdrawals).
THEOREM EnrolledAreEntitled == Spec => []EnrolledIsEntitled
<1>1. SelectionInv => EnrolledIsEntitled
  BY DEF SelectionInv
<1> QED BY <1>1, SelectionCorrect, PTL

\* A request is approved whole, a student has a course from one request, and one
\* decision decides it (save_submission, save_decision).
THEOREM SelectionsStayWhole == Spec => []SelectionsAreWhole
<1>1. SelectionInv => SelectionsAreWhole
  <2> SUFFICES ASSUME SelectionInv PROVE SelectionsAreWhole
    OBVIOUS
  <2>1. TypeOK
    BY DEF SelectionInv, ShapeOK, TypeOK, CourseRecords, RequestRecords
  <2>2. ASSUME NEW s \in Students, NEW o \in Offerings
        PROVE  Cardinality(Granted(s, o)) = IF course[s][o].status = "none" THEN 0 ELSE 1
    <3>1. IF course[s][o].status = "none" THEN Granted(s, o) = {}
          ELSE \E r \in Requests : Granted(s, o) = {r}
      BY DEF SelectionInv, GrantsAgree
    <3> QED BY <3>1, FS_EmptySet, FS_Singleton
  <2>3. \A d, e \in Decisions : pc[d] = "saved" =>
           /\ request[RequestOf[d]].status = IF d \in Approves THEN "approved" ELSE "rejected"
           /\ RequestOf[e] = RequestOf[d] /\ pc[e] = "saved" => e = d
    BY DEF SelectionInv, ProgressAgrees
  <2> QED BY <2>1, <2>2, <2>3 DEF SelectionsAreWhole, Granted
<1> QED BY <1>1, SelectionCorrect, PTL

\* When courses are enrolled the student is active, the term open, and every rule
\* of the curriculum and the policy of that moment holds or was overridden
\* (_require_stable_submission_plan, _require_current_approval_rules).
THEOREM ApprovalsAreCurrent == Spec => ApprovalIsCurrent
<1> DEFINE Current(r) ==
              LET s == StudentOf[r]
                  p == ProgramOf[s]
                  overridden == {v.code : v \in request'[r].override} IN
              /\ CanSelect(s)
              /\ CreditsOf(Selected[r], curriculum[p]) = request'[r].credits
              /\ \A v \in Evaluate(s, Selected[r], curriculum[p], policy[p], FALSE) :
                    v.code \in overridden
<1>1. ASSUME SelectionInv, [Next]_vars, NEW r \in Requests,
             request[r].status # "approved", request'[r].status = "approved"
      PROVE  Current(r)
  <2>1. CASE SaveSubmission(r)
    <3>1. r \in Evaluating /\ pc[r] = "open" /\ StudentIn(r) = StudentOf[r]
      BY <2>1, CallFacts DEF SaveSubmission, Evaluating, Open
    <3>2. /\ request'[r].credits = CreditsOf(Selected[r], curriculum[ProgramOf[StudentOf[r]]])
          /\ request'[r].override = plan[r].violations
      BY <1>1, <2>1, SubmittedFacts
    <3>3. FailedRules(StudentOf[r], Selected[r]) \subseteq Codes(plan[r].violations)
      BY <1>1, <3>1 DEF SelectionInv, SubmissionsCurrent
    <3>4. CanSelect(StudentOf[r])
      BY <1>1, <3>1 DEF SelectionInv, EvaluatedStands
    <3> QED BY <3>2, <3>3, <3>4 DEF FailedRules, Codes
  <2>2. ASSUME NEW d \in Decisions, SaveDecision(d), RequestOf[d] = r PROVE Current(r)
    <3>1. ShapeOK /\ pc[d] = "open"
      BY <1>1, <2>2 DEF SelectionInv, SaveDecision
    <3>2. /\ request'[r].status = IF d \in Approves THEN "approved" ELSE "rejected"
          /\ request'[r].credits = request[r].credits
          /\ request'[r].override = request[r].override
      BY <2>2, <3>1, DecidedFacts
    <3>3. d \in Approves
      BY <1>1, <3>2
    <3>4. d \in Evaluating /\ StudentIn(d) = StudentOf[r]
      BY <2>2, <3>1, <3>3, CallFacts DEF Evaluating, Open
    <3>5. /\ CreditsOf(Selected[r], curriculum[ProgramOf[StudentOf[r]]]) = request[r].credits
          /\ FailedRules(StudentOf[r], Selected[r]) \subseteq Codes(request[r].override)
      BY <1>1, <2>2, <3>1, <3>3 DEF SelectionInv, DecisionsCurrent
    <3>6. CanSelect(StudentOf[r])
      BY <1>1, <3>4 DEF SelectionInv, EvaluatedStands
    <3> QED BY <3>2, <3>5, <3>6 DEF FailedRules, Codes
  <2>3. ASSUME NEW q \in Requests, SaveSubmission(q) PROVE q = r
    BY <1>1, <2>3, SubmittedFacts
  <2>4. ASSUME NEW d \in Decisions, SaveDecision(d) PROVE RequestOf[d] = r
    BY <1>1, <2>4, DecidedFacts DEF SelectionInv
  <2>5. request' # request
    BY <1>1
  <2> QED BY <1>1, <2>1, <2>2, <2>3, <2>4, <2>5
      DEF Next, vars, calls, PlanSubmission, OpenSubmission, OpenDecision, Abandon, EnrollStudent,
      WithdrawStudent, CompleteStudent, WithdrawCourse, CompleteCourse, CloseTerm, PassDeadline,
      ConfigureCurriculum, ConfigurePolicy
<1>2. SelectionInv /\ [Next]_vars =>
         [\A r \in Requests : request[r].status # "approved" /\ request'[r].status = "approved"
             => Current(r)]_vars
  <2> HIDE DEF Current
  <2> QED BY <1>1
<1> QED BY <1>2, SelectionCorrect, PTL DEF Spec, ApprovalIsCurrent

\* After closure a course completes, or goes with its withdrawn student
\* (close_term waits for the share locks of the selections).
THEOREM ClosureSettles == Spec => ClosedTermSettles
<1> DEFINE Settled(s, o) == closed /\ course'[s][o] # course[s][o] =>
              \/ course'[s][o].status = "completed"
              \/ course'[s][o].status = "withdrawn" /\ academic'[s] = "withdrawn"
<1>1. ASSUME SelectionInv, [Next]_vars, NEW s \in Students, NEW o \in Offerings, closed,
             course'[s][o] # course[s][o]
      PROVE  \/ course'[s][o].status = "completed"
             \/ course'[s][o].status = "withdrawn" /\ academic'[s] = "withdrawn"
  <2>0. ShapeOK
    BY <1>1 DEF SelectionInv
  <2>1. ASSUME NEW r \in Requests, SaveSubmission(r) PROVE FALSE
    BY <1>1, <2>1, SaveGrants DEF Grants, CanSelect
  <2>2. ASSUME NEW d \in Decisions, SaveDecision(d) PROVE FALSE
    BY <1>1, <2>2, SaveGrants DEF Grants, CanSelect
  <2>3. ASSUME NEW t \in Students, WithdrawStudent(t)
        PROVE  course'[s][o].status = "withdrawn" /\ academic'[s] = "withdrawn"
    <3>1. t = s
      BY <1>1, <2>0, <2>3, WithdrawFacts
    <3>2. course'[s][o].status = "withdrawn"
      BY <1>1, <2>0, <2>3, <3>1, WithdrawFacts
    <3> QED BY <2>0, <2>3, <3>1, <3>2 DEF WithdrawStudent, ShapeOK
  <2>4. ASSUME NEW t \in Students, NEW k \in Offerings, CompleteCourse(t, k)
        PROVE  course'[s][o].status = "completed"
    <3>1. course' = [course EXCEPT ![t][k].status = "completed"]
      BY <2>4 DEF CompleteCourse
    <3>2. CourseLeft(t, k, "completed")
      BY ONLY <2>0, <3>1, LeaveFacts
    <3> QED BY <1>1, <3>2 DEF CourseLeft
  <2>5. ASSUME NEW t \in Students, NEW k \in Offerings, WithdrawCourse(t, k) PROVE FALSE
    BY <1>1, <2>5 DEF WithdrawCourse
  <2>6. course' # course
    BY <1>1
  <2> QED BY <1>1, <2>1, <2>2, <2>3, <2>4, <2>5, <2>6
      DEF Next, vars, PlanSubmission, OpenSubmission, OpenDecision, Abandon, EnrollStudent,
      CompleteStudent, CloseTerm, PassDeadline, ConfigureCurriculum, ConfigurePolicy
<1>2. SelectionInv /\ [Next]_vars => [\A s \in Students, o \in Offerings : Settled(s, o)]_vars
  BY <1>1
<1> QED BY <1>2, SelectionCorrect, PTL DEF Spec, ClosedTermSettles

=============================================================================
