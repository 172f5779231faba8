------------------------------- MODULE Registry -------------------------------
(***************************************************************************)
(* The academic structure of a tenant: faculties, departments, programs,   *)
(* years, terms, calendar events, courses, offerings, cohorts, rooms,      *)
(* teacher assignments, academic enrollments and selection policies, as    *)
(* administrators register them, and the pages they are listed by.         *)
(*                                                                         *)
(* Each kind of row has its layout (the ORM class), its Save (the          *)
(* repository), its Register (the service: the references it looks up      *)
(* first) and its Create (the request a client makes).  A request names    *)
(* any stored row of the table it refers to, of its own tenant or not.     *)
(* What the catalog names in another module (campus, teacher, student) is  *)
(* held by no foreign key: only the service's checks stand behind it.      *)
(***************************************************************************)
EXTENDS Directory

CONSTANTS
    Spans,          \* the date ranges requests give, as <<first, last>>
    MaxCredits      \* credit limits a policy may set: 1 .. MaxCredits

\* What requests give: numbers, and a page that is not empty.
RequestsFit ==
    /\ NewIds \subseteq Nat /\ Codes \subseteq Nat /\ Spans \subseteq Nat \X Nat
    /\ Limit \in Nat \ {0}
ASSUME RequestsAssumption == RequestsFit

LastDay == 9
EducationModes == {"fixed_curriculum", "flexible_selection", "hybrid"}

(* Ranges are increasing, and latest-first pages rank by the start. *)
ProperSpan(s) == s[1] < s[2]
Latest(s) == LastDay - s[1]

-----------------------------------------------------------------------------
(* Faculties, departments, programs. *)

FacultyRow(o, i, b) ==
    Row(o, i, <<b.code>>, NoRefs, [campus |-> b.campus], b.code, "faculty")
SaveFaculty(row) == Add("faculty", row)
RegisterFaculty(row) ==
    /\ CampusExists(row.organization, row.others["campus"])
    /\ SaveFaculty(row)
CreateFaculty(o) ==
    \E i \in NewIds, b \in [code : Codes, campus : Known("campus")] :
      RegisterFaculty(FacultyRow(o, i, b))

DepartmentRow(o, i, b) ==
    Row(o, i, <<b.code>>, [faculty |-> b.faculty], NoRefs, b.code, "department")
SaveDepartment(row) == Add("department", row)
GetFaculty(o, i) == Get("faculty", o, i)
RegisterDepartment(row) ==
    /\ GetFaculty(row.organization, row.parents["faculty"]) # {}
    /\ SaveDepartment(row)
CreateDepartment(o) ==
    \E i \in NewIds, b \in [code : Codes, faculty : Known("faculty")] :
      RegisterDepartment(DepartmentRow(o, i, b))

ProgramRow(o, i, b) ==
    Row(o, i, <<b.code>>, [department |-> b.department], NoRefs, b.code, b.mode)
SaveProgram(row) == Add("program", row)
GetDepartment(o, i) == Get("department", o, i)
RegisterProgram(row) ==
    /\ GetDepartment(row.organization, row.parents["department"]) # {}
    /\ SaveProgram(row)
CreateProgram(o) ==
    \E i \in NewIds,
       b \in [code : Codes, department : Known("department"),
              mode : EducationModes] :
      RegisterProgram(ProgramRow(o, i, b))

-----------------------------------------------------------------------------
(* Years, terms, calendar events. *)

YearRow(o, i, b) ==
    Row(o, i, <<b.name>>, NoRefs, NoRefs, Latest(b.span), b.span)
SaveAcademicYear(row) == Add("year", row)
RegisterAcademicYear(row) == ProperSpan(row.about) /\ SaveAcademicYear(row)
CreateAcademicYear(o) ==
    \E i \in NewIds, b \in [name : Codes, span : Spans] :
      RegisterAcademicYear(YearRow(o, i, b))

TermRow(o, i, b) ==
    Row(o, i, <<b.year, b.name>>, [year |-> b.year], NoRefs, Latest(b.span),
        b.span)
SaveTerm(row) == Add("term", row)
GetAcademicYear(o, i) == Get("year", o, i)
WithinYear(span, year) == year.about[1] <= span[1] /\ span[2] <= year.about[2]
ProperTerm(row) == ProperSpan(row.about)
RegisterTerm(row) ==
    /\ ProperTerm(row)
    /\ \E year \in GetAcademicYear(row.organization, row.parents["year"]) :
         WithinYear(row.about, year)
    /\ SaveTerm(row)
CreateTerm(o) ==
    \E i \in NewIds, b \in [name : Codes, span : Spans, year : Known("year")] :
      RegisterTerm(TermRow(o, i, b))

EventRow(o, i, b) ==
    Row(o, i, <<"event", i>>, NoRefs, NoRefs, b.span[1], b.span)
SaveCalendarEvent(row) == Add("event", row)
ProperEvent(row) == ProperSpan(row.about)
RegisterCalendarEvent(row) == ProperEvent(row) /\ SaveCalendarEvent(row)
CreateCalendarEvent(o) ==
    \E i \in NewIds, b \in [span : Spans] :
      RegisterCalendarEvent(EventRow(o, i, b))

-----------------------------------------------------------------------------
(* Courses and their offerings. *)

CourseRow(o, i, b) ==
    Row(o, i, <<b.code>>, [department |-> b.department], NoRefs, b.code, "course")
SaveCourse(row) == Add("course", row)
RegisterCourse(row) ==
    /\ GetDepartment(row.organization, row.parents["department"]) # {}
    /\ SaveCourse(row)
CreateCourse(o) ==
    \E i \in NewIds, b \in [code : Codes, department : Known("department")] :
      RegisterCourse(CourseRow(o, i, b))

(* The offering and its weekly meetings are one transaction; the meetings  *)
(* are not told apart.                                                     *)
OfferingRow(o, i, b) ==
    Row(o, i, <<b.term, b.course, b.section>>,
        [course |-> b.course, term |-> b.term], [campus |-> b.campus],
        b.section, "offering")
SaveCourseOffering(row) == Add("offering", row)
GetCourse(o, i) == Get("course", o, i)
GetTerm(o, i) == Get("term", o, i)
RegisterCourseOffering(row) ==
    /\ GetCourse(row.organization, row.parents["course"]) # {}
    /\ GetTerm(row.organization, row.parents["term"]) # {}
    /\ CampusExists(row.organization, row.others["campus"])
    /\ SaveCourseOffering(row)
CreateCourseOffering(o) ==
    \E i \in NewIds,
       b \in [section : Codes, course : Known("course"), term : Known("term"),
              campus : Known("campus")] :
      RegisterCourseOffering(OfferingRow(o, i, b))

-----------------------------------------------------------------------------
(* Cohorts, rooms, teacher assignments. *)

CohortRow(o, i, b) ==
    Row(o, i, <<b.code>>, [program |-> b.program, year |-> b.year], NoRefs,
        b.code, "cohort")
SaveCohort(row) == Add("cohort", row)
GetProgram(o, i) == Get("program", o, i)
RegisterCohort(row) ==
    /\ GetProgram(row.organization, row.parents["program"]) # {}
    /\ GetAcademicYear(row.organization, row.parents["year"]) # {}
    /\ SaveCohort(row)
CreateCohort(o) ==
    \E i \in NewIds,
       b \in [code : Codes, program : Known("program"), year : Known("year")] :
      RegisterCohort(CohortRow(o, i, b))

RoomRow(o, i, b) ==
    Row(o, i, <<b.campus, b.code>>, NoRefs, [campus |-> b.campus], b.code,
        "room")
SaveRoom(row) == Add("room", row)
RegisterRoom(row) ==
    /\ CampusExists(row.organization, row.others["campus"])
    /\ SaveRoom(row)
CreateRoom(o) ==
    \E i \in NewIds, b \in [code : Codes, campus : Known("campus")] :
      RegisterRoom(RoomRow(o, i, b))

AssignmentRow(o, i, b) ==
    Row(o, i, <<b.offering, b.teacher>>, [offering |-> b.offering],
        [teacher |-> b.teacher], b.offering, "assignment")
SaveTeacherAssignment(row) == Add("assignment", row)
GetCourseOffering(o, i) == Get("offering", o, i)
AssignTeacher(row) ==
    /\ GetCourseOffering(row.organization, row.parents["offering"]) # {}
    /\ TeacherProfileExists(row.organization, row.others["teacher"])
    /\ SaveTeacherAssignment(row)
CreateTeacherAssignment(o) ==
    \E i \in NewIds,
       b \in [offering : Known("offering"), teacher : Known("profile")] :
      AssignTeacher(AssignmentRow(o, i, b))

-----------------------------------------------------------------------------
(* Academic enrollments.  The cohort is optional, and if there is one it   *)
(* is a cohort of the enrollment's program.                                *)

NoCohort == 0

EnrollmentRow(o, i, b) ==
    Row(o, i, <<b.student, b.program, b.year>>,
        IF b.cohort = NoCohort
        THEN [program |-> b.program, year |-> b.year]
        ELSE [program |-> b.program, year |-> b.year, cohort |-> b.cohort],
        [student |-> b.student], Latest(b.at), "active")
SaveStudentEnrollment(row) == Add("enrollment", row)
GetCohort(o, i) == Get("cohort", o, i)
(* A slip: any cohort of the tenant. *)
CohortExists(row) ==
    "cohort" \in DOMAIN row.parents =>
      GetCohort(row.organization, row.parents["cohort"]) # {}
CohortFits(row) ==
    "cohort" \in DOMAIN row.parents =>
      \E cohort \in GetCohort(row.organization, row.parents["cohort"]) :
        cohort.parents["program"] = row.parents["program"]
EnrollStudent(row) ==
    /\ GetProgram(row.organization, row.parents["program"]) # {}
    /\ GetAcademicYear(row.organization, row.parents["year"]) # {}
    /\ StudentProfileExists(row.organization, row.others["student"])
    /\ CohortFits(row)
    /\ SaveStudentEnrollment(row)
CreateStudentEnrollment(o) ==
    \E i \in NewIds,
       b \in [student : Known("profile"), program : Known("program"),
              year : Known("year"), cohort : Known("cohort") \union {NoCohort},
              at : Spans] :
      EnrollStudent(EnrollmentRow(o, i, b))

-----------------------------------------------------------------------------
(* Selection policies are the one kind of row that is replaced in place. *)

PolicyRow(o, i, b) ==
    Row(o, i, <<b.program, b.term>>, [program |-> b.program, term |-> b.term],
        NoRefs, i, [mode |-> b.mode, credits |-> b.credits])
PolicyOf(o, program, term) ==
    {r \in OfTenant("policy", o) : r.key = <<program, term>>}
ReplacePolicy(old, row) ==
    /\ registered < MaxRows
    /\ db' = [db EXCEPT !["policy"] =
                (@ \ {old}) \union {[old EXCEPT !.about = row.about]}]
    /\ registered' = registered + 1
    /\ UNCHANGED walk
SaveSelectionPolicy(row) ==
    LET stored == PolicyOf(row.organization, row.parents["program"],
                           row.parents["term"])
    IN  \/ stored = {} /\ Add("policy", row)
        \/ \E old \in stored : ReplacePolicy(old, row)
ProperPolicy(row) == row.about.credits > 0
ConfigureSelectionPolicy(row) ==
    /\ ProperPolicy(row)
    /\ \E program \in GetProgram(row.organization, row.parents["program"]) :
         program.about = row.about.mode
    /\ GetTerm(row.organization, row.parents["term"]) # {}
    /\ SaveSelectionPolicy(row)
PutSelectionPolicy(o) ==
    \E i \in NewIds,
       b \in [program : Known("program"), term : Known("term"),
              mode : EducationModes, credits : 1 .. MaxCredits] :
      ConfigureSelectionPolicy(PolicyRow(o, i, b))

RegisterStructure(o) ==
    \/ CreateFaculty(o) \/ CreateDepartment(o) \/ CreateProgram(o)
    \/ CreateAcademicYear(o) \/ CreateTerm(o) \/ CreateCalendarEvent(o)
    \/ CreateCourse(o) \/ CreateCourseOffering(o)
    \/ CreateCohort(o) \/ CreateRoom(o)
    \/ CreateTeacherAssignment(o) \/ CreateStudentEnrollment(o)
    \/ PutSelectionPolicy(o)

-----------------------------------------------------------------------------
(* The pages of every table, optionally below one row it refers to. *)

FacultyPage(o, offset) == Page(OfTenant("faculty", o), offset)
DepartmentPage(o, faculty, offset) ==
    Page(Below("department", o, "faculty", faculty), offset)
ProgramPage(o, department, offset) ==
    Page(Below("program", o, "department", department), offset)
YearPage(o, offset) == Page(OfTenant("year", o), offset)
TermPage(o, year, offset) == Page(Below("term", o, "year", year), offset)
CoursePage(o, department, offset) ==
    Page(Below("course", o, "department", department), offset)
OfferingPage(o, term, offset) ==
    Page(Below("offering", o, "term", term), offset)
CohortPage(o, program, year, offset) ==
    Page(Below("cohort", o, "program", program)
           \intersect Below("cohort", o, "year", year), offset)
RoomPage(o, campus, offset) == Page(Below("room", o, "campus", campus), offset)
AssignmentPage(o, offering, offset) ==
    Page(Below("assignment", o, "offering", offering), offset)
EnrollmentPage(o, student, program, offset) ==
    Page(Below("enrollment", o, "student", student)
           \intersect Below("enrollment", o, "program", program), offset)

(* What a client may ask for: a table and a row to list below. *)
Query(t, parents) == [table : {t}, of : parents \union {NoFilter}]
FacultyQueries == Query("faculty", {})
DepartmentQueries == Query("department", Known("faculty"))
ProgramQueries == Query("program", Known("department"))
YearQueries == Query("year", {})
TermQueries == Query("term", Known("year"))
CourseQueries == Query("course", Known("department"))
OfferingQueries == Query("offering", Known("term"))
CohortQueries == Query("cohort", Known("program"))
RoomQueries == Query("room", Known("campus"))
AssignmentQueries == Query("assignment", Known("offering"))
EnrollmentQueries == Query("enrollment", Known("profile"))
PeopleQueries == Query("person", {})
ProfileQueries == [table : ProfileKinds, of : {NoFilter}]

Queries ==
    UNION {FacultyQueries, DepartmentQueries, ProgramQueries, YearQueries,
           TermQueries, CourseQueries, OfferingQueries, CohortQueries,
           RoomQueries, AssignmentQueries, EnrollmentQueries, PeopleQueries,
           ProfileQueries}

StructurePage(q, o, offset) ==
    CASE q.table = "faculty" -> FacultyPage(o, offset)
      [] q.table = "department" -> DepartmentPage(o, q.of, offset)
      [] q.table = "program" -> ProgramPage(o, q.of, offset)
      [] q.table = "year" -> YearPage(o, offset)
      [] q.table = "term" -> TermPage(o, q.of, offset)
      [] q.table = "course" -> CoursePage(o, q.of, offset)

DeliveryPage(q, o, offset) ==
    CASE q.table = "offering" -> OfferingPage(o, q.of, offset)
      [] q.table = "cohort" -> CohortPage(o, q.of, NoFilter, offset)
      [] q.table = "room" -> RoomPage(o, q.of, offset)
      [] q.table = "assignment" -> AssignmentPage(o, q.of, offset)
      [] q.table = "enrollment" -> EnrollmentPage(o, q.of, NoFilter, offset)

DirectoryPage(q, o, offset) ==
    IF q.table = "person" THEN PeoplePage(o, offset)
    ELSE ProfilesPage(o, q.table, offset)

Structure == {"faculty", "department", "program", "year", "term", "course"}
Answer(q, o, offset) ==
    CASE q.table \in Structure -> StructurePage(q, o, offset)
      [] q.table \in ProfileKinds \union {"person"} -> DirectoryPage(q, o, offset)
      [] OTHER -> DeliveryPage(q, o, offset)

(* A client pages through one table from the start, page after page, until *)
(* a page is not full.  owed is what the pages held when it began.         *)
Idle == [query |-> [table |-> "none", of |-> NoFilter], offset |-> 0,
         seen |-> {}, owed |-> {}, reading |-> FALSE]

Table(q) == IF q.table \in ProfileKinds THEN db["profile"] ELSE db[q.table]

StartWalk(q) ==
    /\ walk = Idle
    /\ walk' = [query |-> q, offset |-> 0, seen |-> {}, reading |-> TRUE,
                owed |-> UNION {Answer(q, Administrator, n) : n \in 0 .. Cardinality(Table(q))}]
    /\ UNCHANGED <<db, registered>>

NextPage ==
    /\ walk.reading
    /\ LET page == Answer(walk.query, Administrator, walk.offset)
       IN  walk' = [walk EXCEPT
                      !.offset = @ + Limit,
                      !.seen = @ \union page,
                      !.reading = Cardinality(page) = Limit]
    /\ UNCHANGED <<db, registered>>

-----------------------------------------------------------------------------
registryVars == <<db, registered, walk>>

RegistryInit ==
    /\ db = Stored
    /\ registered = 0
    /\ walk = Idle

RegistryNext ==
    \/ registered < MaxRows /\ (RegisterPeople(Administrator)
                                 \/ RegisterStructure(Administrator))
    \/ \E q \in Queries : StartWalk(q)
    \/ NextPage

RegistrySpec == RegistryInit /\ [][RegistryNext]_registryVars

-----------------------------------------------------------------------------
(* Every row refers to rows of its own tenant, and where the catalog names *)
(* a campus or a profile, to one of the right kind.                        *)
NamedRow(row, c) ==
    IF c = "campus" THEN Get("campus", row.organization, row.others[c])
    ELSE GetProfile(row.organization, row.others[c], c)
ReferencesHold ==
    \A t \in DOMAIN db : \A row \in db[t] :
      /\ \A c \in DOMAIN row.parents :
           Exists(c, row.organization, row.parents[c])
      /\ \A c \in DOMAIN row.others : NamedRow(row, c) # {}

(* Rows that refer to the same thing agree about it: a term lies in its    *)
(* year, a cohort is one of the enrollment's program, a policy has the     *)
(* mode of its program.                                                    *)
Referred(row, c) ==
    CHOOSE r \in db[c] : r.id = row.parents[c]
RowsAgree ==
    /\ \A term \in db["term"] : WithinYear(term.about, Referred(term, "year"))
    /\ \A e \in db["enrollment"] :
         "cohort" \in DOMAIN e.parents =>
           Referred(e, "cohort").parents["program"] = e.parents["program"]
    /\ \A policy \in db["policy"] :
         policy.about.mode = Referred(policy, "program").about

(* No tenant knows one national identifier as two persons, whichever form  *)
(* of digest they were stored with.                                        *)
PersonsAreDistinct ==
    \A p, q \in db["person"] :
      (p.organization = q.organization /\ p.about = q.about /\ p.about # NoPin)
        => p = q

(* A client that pages through a table while rows are registered is shown  *)
(* every row that was there when it began, and only rows of its tenant     *)
(* (offset paging of list_* under concurrent inserts).                     *)
PagesMissNothing ==
    /\ (walk # Idle /\ ~walk.reading) => walk.owed \subseteq walk.seen
    /\ \A r \in walk.seen : r.organization = Administrator

(* The registry as the other modules rely on it and as its clients see it  *)
(* (register_* and list_* of the academic service, PeopleService, their    *)
(* repositories and constraints).                                          *)
RegistryIsSound ==
    ReferencesHold /\ RowsAgree /\ PersonsAreDistinct /\ PagesMissNothing
=============================================================================
