------------------------------ MODULE Curriculum ------------------------------
(***************************************************************************)
(* The curriculum of a program in a year: its courses and the courses each *)
(* of them requires first.  configure_curriculum replaces both tables'     *)
(* rows in one transaction; get_curriculum reads the curriculum, its       *)
(* courses and their prerequisites by three statements and takes no lock,  *)
(* so a replacement may commit between two of them.                        *)
(***************************************************************************)
EXTENDS Naturals, FiniteSets

CONSTANTS
    Courses,        \* the courses of the tenant
    Strangers,      \* courses of other tenants
    ProgramYears,   \* the program-years of the tenant: <<program, year>>
    Identifiers,    \* the identifiers clients give curricula
    MaxVersions     \* bound on the replacements

VARIABLES
    curricula,      \* identifier -> the program-year it is for, or NoPlan
    items,          \* course rows: [id, curriculum, course]
    prerequisites,  \* prerequisite rows: [item, course]
    issued,         \* row identifiers handed out
    versions,       \* every content committed, in order
    reader          \* a client reading one curriculum

NoPlan == << >>

\* The courses of a tenant are finitely many, and the empty program-year is none.
CurriculumFits == IsFiniteSet(Courses) /\ NoPlan \notin ProgramYears
ASSUME CurriculumAssumption == CurriculumFits

(* The contents a request may carry: a function from the courses it lists  *)
(* to the courses each requires.  No course is listed twice, and none      *)
(* requires itself.                                                        *)
Contents ==
    UNION {[listed -> SUBSET (Courses \union Strangers)] :
             listed \in SUBSET (Courses \union Strangers)}
Proper(content) == \A c \in DOMAIN content : c \notin content[c]
Mentioned(content) == DOMAIN content \union UNION {content[c] : c \in DOMAIN content}

Held(plan) == {i \in Identifiers : curricula[i] = plan}
ItemsOf(i) == {row \in items : row.curriculum = i}

(* A slip: the row of a course keeps its identifier. *)
KeptByCourse(content) == {[c \in DOMAIN content |-> c]}

(* New course rows get identifiers of their own, in every version. *)
Fresh(content) ==
    {f \in [DOMAIN content -> issued + 1 .. issued + Cardinality(DOMAIN content)] :
       \A c, d \in DOMAIN content : c # d => f[c] # f[d]}
NewItems(i, content, ids) ==
    {[id |-> ids[c], curriculum |-> i, course |-> c] : c \in DOMAIN content}
NewPrerequisites(content, ids) ==
    UNION {{[item |-> ids[c], course |-> p] : p \in content[c]} :
             c \in DOMAIN content}

(* Create or replace the curriculum of a program-year under its row lock.  *)
(* A stored one keeps its identifier, and an identifier serves one         *)
(* program-year only.                                                      *)
SaveCurriculum(i, plan, content) ==
    /\ Cardinality(versions) < MaxVersions
    /\ Held(plan) \subseteq {i}
    /\ curricula[i] \in {NoPlan, plan}
    /\ curricula' = [curricula EXCEPT ![i] = plan]
    /\ LET ids == CHOOSE f \in Fresh(content) : TRUE
           old == {row.id : row \in ItemsOf(i)}
       IN  /\ items' = (items \ ItemsOf(i)) \union NewItems(i, content, ids)
           /\ prerequisites' =
                {p \in prerequisites : p.item \notin old}
                  \union NewPrerequisites(content, ids)
    /\ issued' = issued + Cardinality(DOMAIN content)
    /\ versions' = versions \union {[number |-> Cardinality(versions), curriculum |-> i,
                                courses |-> content]}
    /\ UNCHANGED reader

(* The service looks every course and prerequisite up in the tenant. *)
ConfigureCurriculum(i, plan, content) ==
    /\ Proper(content)
    /\ Mentioned(content) \subseteq Courses
    /\ SaveCurriculum(i, plan, content)

PutCurriculum ==
    \E i \in Identifiers, plan \in ProgramYears, content \in Contents :
      ConfigureCurriculum(i, plan, content)

-----------------------------------------------------------------------------
(* The reader's three statements. *)

Rested == [at |-> "rest", curriculum |-> {}, items |-> {}, prerequisites |-> {}]

ReadCurriculum(plan) ==
    /\ reader.at = "rest"
    /\ reader' = [Rested EXCEPT
                    !.at = IF Held(plan) = {} THEN "absent" ELSE "courses",
                    !.curriculum = Held(plan)]
ReadCourses ==
    /\ reader.at = "courses"
    /\ reader' = [reader EXCEPT
                    !.at = "prerequisites",
                    !.items = UNION {ItemsOf(i) : i \in reader.curriculum}]
ReadPrerequisites ==
    /\ reader.at = "prerequisites"
    /\ reader' = [reader EXCEPT
                    !.at = "read",
                    !.prerequisites =
                       {p \in prerequisites :
                          \E row \in reader.items : row.id = p.item}]

GetCurriculum ==
    /\ (\E plan \in ProgramYears : ReadCurriculum(plan)) \/ ReadCourses \/ ReadPrerequisites
    /\ UNCHANGED <<curricula, items, prerequisites, issued, versions>>

-----------------------------------------------------------------------------
curriculumVars == <<curricula, items, prerequisites, issued, versions, reader>>

CurriculumInit ==
    /\ curricula = [i \in Identifiers |-> NoPlan]
    /\ items = {} /\ prerequisites = {} /\ issued = 0 /\ versions = {}
    /\ reader = Rested

CurriculumNext == PutCurriculum \/ GetCurriculum
CurriculumSpec == CurriculumInit /\ [][CurriculumNext]_curriculumVars

(* What a finished read shows: the courses, each with what it requires. *)
Shown ==
    [c \in {row.course : row \in reader.items} |->
       {p.course : p \in {q \in reader.prerequisites :
          \E row \in reader.items : row.id = q.item /\ row.course = c}}]

(* What get_curriculum returns is one version that was stored, or the      *)
(* courses of one version with no prerequisite at all (its rows were       *)
(* replaced before the last statement); two versions are never mixed, and  *)
(* no course of another tenant is shown.                                   *)
CurriculaAreNotMixed ==
    reader.at = "read" =>
      /\ Mentioned(Shown) \subseteq Courses
      /\ \E v \in versions :
           /\ reader.curriculum = {v.curriculum}
           /\ DOMAIN Shown = DOMAIN v.courses
           /\ \/ Shown = v.courses
              \/ \A c \in DOMAIN Shown : Shown[c] = {}
=============================================================================
