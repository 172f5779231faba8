----------------------------- MODULE SelfService -----------------------------
(***************************************************************************)
(* The reads students, teachers and guardians make of their own data, in   *)
(* the portal or through the tools of the MCP gateway.                     *)
(*                                                                         *)
(* A read is a sequence of transactions: who asks is resolved, then the    *)
(* profile behind the membership, then the data, and what an earlier one   *)
(* found is used by the later ones.  Everything it relies on may change in *)
(* between: memberships, roles, the organization, the feature, enrollments *)
(* and the data themselves.  The gateway records the outcome before it     *)
(* answers.  Reads do not affect each other, so one is modelled; tokens    *)
(* and browser sessions are checked before it begins.                      *)
(***************************************************************************)
EXTENDS Naturals, Sequences

CONSTANTS
    People,         \* the persons of the organization
    Nobody,         \* a membership linked to no person
    Sections,       \* the course offerings of its terms
    Worlds,         \* the states the world may be in when a read begins
    MaxChanges      \* bound on the changes before and during a read

VARIABLES
    world,          \* the stored state, as reads see it
    moves,          \* the number of changes made to it
    call,           \* the read under way
    audit,          \* the outcomes the gateway has recorded for it
    answer,         \* what it was answered
    seen            \* ghost: the facts that held at some moment of it

selfServiceVars == <<world, moves, call, audit, answer, seen>>

(* Roles grant permissions; those of the self-service reads.               *)
Permissions ==
    [student |-> {"academics.student", "grading.student", "scheduling.student",
                  "deadlines"},
     teacher |-> {"academics.teacher", "scheduling.teacher", "sync", "deadlines"},
     guardian |-> {"academics.guardian", "grading.guardian"},
     organization_owner |-> {}]
Roles == DOMAIN Permissions
PermissionsOf(roles) == UNION {Permissions[r] : r \in roles}

World ==
    [organization : {"active", "suspended"}, registered : BOOLEAN,
     member : {"active", "suspended", "revoked"}, roles : SUBSET Roles,
     person : People \union {Nobody}, feature : BOOLEAN,
     profiles : SUBSET (People \X {"student", "teacher", "guardian"}),
     links : SUBSET (People \X People),
     assigned : SUBSET (People \X Sections),
     enrollment : [People -> {"none", "active", "ended"}],
     attends : SUBSET (People \X Sections),
     sessions : SUBSET (Sections \X People), graded : SUBSET People,
     evidence : [Sections -> {"none", "unresolved", "accepted"}],
     mapped : SUBSET People]

\* A grade belongs to an enrollment, and an enrollment to a student.
WorldIsSound(w) ==
    /\ w \in World
    /\ \A p \in w.graded : w.enrollment[p] # "none"
    /\ \A p \in People : w.enrollment[p] # "none" => <<p, "student">> \in w.profiles

\* Membership is of a person or of nobody, and the worlds reads begin in are sound.
ReadsFit == Nobody \notin People /\ \A w \in Worlds : WorldIsSound(w)
ASSUME ReadsAssumption == ReadsFit

-----------------------------------------------------------------------------
(* The reads: the steps each makes once the person asking is known.  A     *)
(* step is its name and the person or section it is about.                 *)

StudentSnapshot(p) == <<<<"enrollments", p>>, <<"attendance", p>>>>
ScheduleItems(p) == <<<<"sections", p>>, <<"rooms", p>>>>
StudentReport(p) == StudentSnapshot(p) \o <<<<"grades", p>>>>
GradeSummaries(p) == <<<<"courses", p>>>>

StudentSchedule(p) ==
    StudentSnapshot(p) \o <<<<"sessions", p>>>> \o ScheduleItems(p)
TeacherSchedule(p) == <<<<"teaching", p>>>> \o ScheduleItems(p)
StudentProfile(p) == << >>
StudentGrades(p) == StudentReport(p) \o GradeSummaries(p)
StudentGpa(p) == StudentReport(p)
StudentEvents(p) == <<<<"events", p>>>>
StudentDeadlines(p) == <<<<"mapping", p>>>>
TeacherSections(p) == <<<<"assigned", p>>>>
SectionStudents(p, s) == <<<<"assignment", s>>, <<"roster", s>>, <<"names", s>>>>
TeacherSyncStatus(p) == <<<<"assigned", p>>, <<"evidence", p>>>>
TeacherDeadlines(p) == <<<<"mapping", p>>>>
GuardianEvents(p) == <<<<"events", p>>>>
GuardianStudents(p) == <<<<"linked", p>>>>
OneStudentSummary(q) == StudentReport(q) \o GradeSummaries(q)

StudentReads ==
    {"student_schedule", "student_profile", "student_grades", "student_gpa",
     "student_events", "student_moodle_deadlines"}
GuardianReads == {"guardian_events", "guardian_students"}
TeacherReads ==
    {"teacher_schedule", "teacher_sections", "section_students",
     "teacher_grade_sync_status", "teacher_moodle_deadlines"}
KindOf(read) ==
    CASE read \in StudentReads -> "student"
      [] read \in TeacherReads -> "teacher"
      [] read \in GuardianReads -> "guardian"

Steps(read, p, s) ==
    CASE read = "student_schedule" -> StudentSchedule(p)
      [] read = "student_profile" -> StudentProfile(p)
      [] read = "student_grades" -> StudentGrades(p)
      [] read = "student_gpa" -> StudentGpa(p)
      [] read = "student_events" -> StudentEvents(p)
      [] read = "student_moodle_deadlines" -> StudentDeadlines(p)
      [] read = "teacher_schedule" -> TeacherSchedule(p)
      [] read = "teacher_sections" -> TeacherSections(p)
      [] read = "section_students" -> SectionStudents(p, s)
      [] read = "teacher_grade_sync_status" -> TeacherSyncStatus(p)
      [] read = "teacher_moodle_deadlines" -> TeacherDeadlines(p)
      [] read = "guardian_events" -> GuardianEvents(p)
      [] read = "guardian_students" -> GuardianStudents(p)

(* What is offered where. *)
PortalReads == StudentReads \union TeacherReads \union GuardianReads
McpTools ==
    [get_own_schedule |-> "student_schedule",
     get_own_official_grades |-> "student_grades",
     get_own_gpa_summary |-> "student_gpa",
     get_own_upcoming_events |-> "student_events",
     get_own_moodle_deadlines |-> "student_moodle_deadlines",
     get_assigned_sections |-> "teacher_sections",
     get_section_student_list |-> "section_students",
     get_grade_synchronization_status |-> "teacher_grade_sync_status",
     get_linked_student_summaries |-> "guardian_students"]

(* One of these permissions each step asks of the actor.                   *)
ProfilePermission ==
    [student |-> "academics.student", teacher |-> "academics.teacher",
     guardian |-> "academics.guardian"]
Requires(step, kind) ==
    CASE step = "ownership" -> {ProfilePermission[kind]}
      [] step \in {"enrollments", "events", "courses"} ->
           {"academics.student", "academics.guardian"}
      [] step \in {"assigned", "assignment", "names"} -> {"academics.teacher"}
      [] step \in {"sections", "rooms"} -> {"academics.student", "academics.teacher"}
      [] step = "sessions" -> {"scheduling.student"}
      [] step = "teaching" -> {"scheduling.teacher"}
      [] step = "grades" -> {"grading.student", "grading.guardian"}
      [] step = "mapping" -> {"deadlines"}
      [] step = "evidence" -> {"sync"}
      [] OTHER -> {}

-----------------------------------------------------------------------------
(* A read begins: the steps that resolve the actor, those of the feature   *)
(* when a tool is called, and those of ownership.                          *)
TenantContext == <<<<"organization", Nobody>>, <<"membership", Nobody>>, <<"roles", Nobody>>>>
Entitlement == <<<<"organization", Nobody>>, <<"feature", Nobody>>>>
Ownership == <<<<"ownership", Nobody>>, <<"person", Nobody>>, <<"profile", Nobody>>>>

NoCall == [stage |-> "rest", via |-> "none", read |-> "none", section |-> Nobody,
           todo |-> << >>, permissions |-> {}, person |-> Nobody,
           active |-> FALSE, sections |-> {}, students |-> {}, found |-> {},
           outcome |-> "none"]
BeginRead(via, read, s, steps) ==
    /\ call = NoCall
    /\ call' = [NoCall EXCEPT !.stage = "reading", !.via = via, !.read = read,
                               !.section = s, !.todo = steps]
    /\ UNCHANGED <<world, moves, audit, answer>>

StartPortal ==
    \E read \in PortalReads, s \in Sections :
      BeginRead("portal", read, s, TenantContext \o Ownership)
StartTool ==
    \E tool \in DOMAIN McpTools, s \in Sections :
      BeginRead("mcp", McpTools[tool], s,
            <<<<"subject", Nobody>>>> \o TenantContext \o Entitlement \o Ownership)

(* One step of it: what it finds is kept, or the read is refused.          *)
At(step) ==
    /\ call.stage = "reading" /\ call.todo # << >> /\ Head(call.todo)[1] = step
    /\ LET needed == Requires(step, KindOf(call.read))
       IN  needed = {} \/ needed \intersect call.permissions # {}
    /\ UNCHANGED <<world, moves, audit, answer>>
Of == Head(call.todo)[2]
Found(data) ==
    call' = [call EXCEPT !.todo = Tail(@), !.found = @ \union data]
Refuse(outcome) == call' = [call EXCEPT !.stage = "refused", !.outcome = outcome]
Check(holds) == IF holds THEN Found({}) ELSE Refuse("denied")

Forbidden ==
    /\ call.stage = "reading" /\ call.todo # << >>
    /\ LET needed == Requires(Head(call.todo)[1], KindOf(call.read))
       IN  needed # {} /\ needed \intersect call.permissions = {}
    /\ Refuse("denied")
    /\ UNCHANGED <<world, moves, audit, answer>>

-----------------------------------------------------------------------------
(* Who asks. *)

VerifiedSubject == At("subject") /\ Check(world.registered)
OrganizationIsActive ==
    \E step \in {"organization", "ownership"} :
      At(step) /\ Check(world.organization = "active")
MembershipForIdentity == At("membership") /\ Check(world.member = "active")
(* The roles are read by a statement of their own. *)
RolesOfMembership ==
    /\ At("roles")
    /\ call' = [call EXCEPT !.todo = Tail(@),
                            !.permissions = PermissionsOf(world.roles)]
FeatureEnabled == At("feature") /\ Check(world.feature)

(* The membership is read again, with the person it is linked to, and then *)
(* the person's profile of the kind the read is for.                       *)
ResolvePerson ==
    /\ At("person")
    /\ IF world.member = "active" /\ world.person # Nobody
       THEN call' = [call EXCEPT !.todo = Tail(@), !.person = world.person]
       ELSE Refuse("denied")
GetProfileForPerson ==
    /\ At("profile")
    /\ IF <<call.person, KindOf(call.read)>> \in world.profiles
       THEN call' = [call EXCEPT
                       !.todo = Steps(call.read, call.person, call.section),
                       !.found = IF call.read = "student_profile"
                                 THEN {<<"profile", call.person>>} ELSE {}]
       ELSE Refuse("denied")

-----------------------------------------------------------------------------
(* What is read. *)

(* The student's academic enrollments, and in the same transaction but by  *)
(* another statement the courses attended in the active ones.              *)
SnapshotEnrollments ==
    /\ At("enrollments")
    /\ LET active == world.enrollment[Of] = "active"
       IN  call' = [call EXCEPT
                      !.todo = Tail(@), !.active = active,
                      !.found = IF KindOf(call.read) = "guardian" /\ active
                                THEN @ \union {<<"program", Of>>} ELSE @]
Attended(p) == {s \in Sections : <<p, s>> \in world.attends}
SnapshotAttendance ==
    /\ At("attendance")
    /\ call' = [call EXCEPT !.todo = Tail(@),
                            !.sections = IF call.active THEN Attended(Of) ELSE {}]

SessionsOfSections ==
    /\ At("sessions")
    /\ Found({<<"session", x>> : x \in {y \in world.sessions : y[1] \in call.sections}})
SessionsOfTeacher ==
    /\ At("teaching")
    /\ Found({<<"session", x>> : x \in {y \in world.sessions : y[2] = Of}})
(* Offerings, rooms and courses are never deleted: all are described. *)
DescribeSections == At("sections") /\ Found({})
DescribeRooms == At("rooms") /\ Found({})
DescribeCourses == At("courses") /\ Found({})

(* The grades of every enrollment, active or not. *)
GradesOf(p) == {<<"grade", p>>} \intersect {<<"grade", q>> : q \in world.graded}
ReadGrades ==
    /\ At("grades")
    /\ Found(IF world.enrollment[Of] = "none" THEN {} ELSE GradesOf(Of))
UpcomingEvents == At("events") /\ Found({})

SectionsAssigned ==
    /\ At("assigned")
    /\ LET mine == {s \in Sections : <<Of, s>> \in world.assigned}
       IN  call' = [call EXCEPT !.todo = Tail(@), !.sections = mine,
                               !.found = IF call.read = "teacher_sections"
                                         THEN {<<"section", s>> : s \in mine} ELSE {}]
(* A section of others is as good as none, and its roster is not read. *)
SectionIsNamed == At("assignment") /\ Found({})   \* a slip: nobody asks whose
SectionIsAssigned ==
    At("assignment") /\ Check(<<call.person, Of>> \in world.assigned)
SectionRoster ==
    /\ At("roster")
    /\ Found({<<"student", q>> : q \in
                {p \in People : world.enrollment[p] = "active"
                                  /\ <<p, Of>> \in world.attends}})
RosterNames ==
    /\ At("names")
    /\ Check(\A x \in call.found : <<x[2], "student">> \in world.profiles)
SyncStatus ==
    /\ At("evidence")
    /\ Found({<<"evidence", s, world.evidence[s]>> : s \in call.sections})

(* A guardian's students are summarised one after another.                 *)
LinkedStudents ==
    /\ At("linked")
    /\ LET students == {q \in People : <<Of, q>> \in world.links}
       IN  call' = [call EXCEPT !.todo = Tail(@), !.students = students,
                               !.found = {<<"student", q>> : q \in students}]
NextStudent ==
    /\ call.stage = "reading" /\ call.todo = << >>
    /\ \E q \in call.students :
         call' = [call EXCEPT !.todo = OneStudentSummary(q), !.students = @ \ {q}]
    /\ UNCHANGED <<world, moves, audit, answer>>

(* Deadlines are Moodle's, asked for the account the person is mapped to.  *)
(* The health of the connection is stored before the read goes on.         *)
MoodleAccount ==
    /\ At("mapping")
    /\ call' = [call EXCEPT
                   !.todo = IF Of \in world.mapped
                            THEN <<<<"moodle", Of>>, <<"health", Of>>>> ELSE << >>]
AskMoodle ==
    /\ At("moodle")
    /\ \/ Found({<<"deadlines", Of>>})
       \/ Found({})
RecordHealth ==
    /\ At("health")
    /\ IF call.found # {} THEN Found({}) ELSE Refuse("failed")

-----------------------------------------------------------------------------
(* The end of a read.  Any step may raise an error; the portal's answer is *)
(* given at once, a tool's after its outcome is recorded, and not at all   *)
(* when the record fails.                                                  *)
FailRead ==
    /\ call.stage = "reading" /\ call.todo # << >>
    /\ Refuse("failed")
    /\ UNCHANGED <<world, moves, audit, answer>>
FinishRead ==
    /\ call.stage = "reading" /\ call.todo = << >> /\ call.students = {}
    /\ call' = [call EXCEPT !.stage = IF call.via = "mcp" THEN "finished" ELSE "over",
                            !.outcome = "succeeded"]
    /\ answer' = IF call.via = "mcp" THEN answer ELSE <<call.found>>
    /\ UNCHANGED <<world, moves, audit>>
Record ==
    /\ call.stage \in {"finished", "refused"} /\ call.via = "mcp"
    /\ call' = [call EXCEPT !.stage = "over"]
    /\ \/ /\ audit' = Append(audit, call.outcome)
          /\ answer' = IF call.stage = "finished" THEN <<call.found>> ELSE answer
       \/ UNCHANGED <<audit, answer>>
    /\ UNCHANGED <<world, moves>>

ReadStep ==
    \/ Forbidden \/ FailRead \/ FinishRead \/ Record
    \/ VerifiedSubject \/ OrganizationIsActive \/ MembershipForIdentity
    \/ RolesOfMembership \/ FeatureEnabled \/ ResolvePerson \/ GetProfileForPerson
    \/ SnapshotEnrollments \/ SnapshotAttendance \/ SessionsOfSections
    \/ SessionsOfTeacher \/ DescribeSections \/ DescribeRooms \/ DescribeCourses
    \/ ReadGrades \/ UpcomingEvents \/ SectionsAssigned \/ SectionIsAssigned
    \/ SectionRoster \/ RosterNames \/ SyncStatus \/ LinkedStudents \/ NextStudent
    \/ MoodleAccount \/ AskMoodle \/ RecordHealth

-----------------------------------------------------------------------------
(* What others do to the stored state meanwhile. *)

ChangeOrganization(w) ==
    world' = [w EXCEPT !.organization =
                IF @ = "active" THEN "suspended" ELSE "active"]
ChangeMembership(w) ==
    /\ w.member # "revoked"
    /\ \E m \in {"active", "suspended", "revoked"} \ {w.member} :
         world' = [w EXCEPT !.member = m]
ReplaceRoles(w) ==
    /\ w.member # "revoked"
    /\ \E roles \in {{r} : r \in Roles \ {"organization_owner"}} :
         world' = [w EXCEPT !.roles = roles]
(* Recovering an owner may link its membership to another person. *)
RecoverOwner(w) ==
    /\ w.member # "revoked"
    /\ \E p \in People :
         world' = [w EXCEPT !.member = "active", !.person = p,
                           !.roles = @ \union {"organization_owner"}]
ToggleFeature(w) == world' = [w EXCEPT !.feature = ~@]
LinkStudent(w) ==
    \E p, q \in People :
      /\ {<<p, "guardian">>, <<q, "student">>} \subseteq w.profiles
      /\ world' = [w EXCEPT !.links = @ \union {<<p, q>>}]
AssignSection(w) ==
    \E p \in People, s \in Sections :
      /\ <<p, "teacher">> \in w.profiles
      /\ world' = [w EXCEPT !.assigned = @ \union {<<p, s>>}]
Attend(w) ==
    \E p \in People, s \in Sections :
      /\ w.enrollment[p] = "active"
      /\ world' = [w EXCEPT !.attends = @ \union {<<p, s>>}]
Drop(w) ==
    \E x \in w.attends : world' = [w EXCEPT !.attends = @ \ {x}]
(* A withdrawal ends the courses attended in the same transaction. *)
Withdraw(w) ==
    \E p \in People :
      /\ w.enrollment[p] = "active"
      /\ world' = [w EXCEPT !.enrollment[p] = "ended",
                            !.attends = {x \in @ : x[1] # p}]
Schedule(w) ==
    \E x \in Sections \X People :
      world' = [w EXCEPT !.sessions = IF x \in @ THEN @ \ {x} ELSE @ \union {x}]
Grade(w) ==
    \E p \in People :
      /\ w.enrollment[p] # "none"
      /\ world' = [w EXCEPT !.graded = @ \union {p}]
Evidence(w) ==
    \E s \in Sections, e \in {"unresolved", "accepted"} :
      /\ w.evidence[s] = "none" => e = "unresolved"
      /\ world' = [w EXCEPT !.evidence[s] = e]
MapAccount(w) == \E p \in People : world' = [w EXCEPT !.mapped = @ \union {p}]

Change ==
    /\ call.stage \in {"reading", "finished"}
    /\ moves < MaxChanges
    /\ \/ ChangeOrganization(world) \/ ChangeMembership(world)
       \/ ReplaceRoles(world) \/ RecoverOwner(world) \/ ToggleFeature(world)
       \/ LinkStudent(world) \/ AssignSection(world) \/ Attend(world)
       \/ Drop(world) \/ Withdraw(world) \/ Schedule(world) \/ Grade(world)
       \/ Evidence(world) \/ MapAccount(world)
    /\ world' # world
    /\ moves' = moves + 1
    /\ UNCHANGED <<call, audit, answer>>

-----------------------------------------------------------------------------
(* What a read is entitled to in one state of the world: whether it may be *)
(* made at all, and the data of each person, were that person the one      *)
(* asking.                                                                 *)
May(w, c) ==
    /\ w.organization = "active" /\ w.member = "active"
    /\ c.via = "mcp" => w.registered /\ w.feature
    /\ KindOf(c.read) \in w.roles
    /\ <<w.person, KindOf(c.read)>> \in w.profiles
    /\ c.read = "section_students" => <<w.person, c.section>> \in w.assigned

Attends(w, p, s) == w.enrollment[p] = "active" /\ <<p, s>> \in w.attends
Data(w, c, p) ==
    CASE c.read = "student_profile" -> {<<"profile", p>>}
      [] c.read = "student_schedule" ->
           {<<"session", x>> : x \in {y \in w.sessions : Attends(w, p, y[1])}}
      [] c.read = "teacher_schedule" ->
           {<<"session", x>> : x \in {y \in w.sessions : y[2] = p}}
      [] c.read \in {"student_grades", "student_gpa"} ->
           {<<"grade", q>> : q \in {p} \intersect w.graded}
      [] c.read \in {"student_events", "guardian_events"} -> {}
      [] c.read \in {"student_moodle_deadlines", "teacher_moodle_deadlines"} ->
           {<<"deadlines", q>> : q \in {p} \intersect w.mapped}
      [] c.read = "teacher_sections" ->
           {<<"section", s>> : s \in {t \in Sections : <<p, t>> \in w.assigned}}
      [] c.read = "section_students" ->
           {<<"student", q>> : q \in {r \in People :
              <<p, c.section>> \in w.assigned /\ Attends(w, r, c.section)}}
      [] c.read = "teacher_grade_sync_status" ->
           {<<"evidence", s, w.evidence[s]>> :
              s \in {t \in Sections : <<p, t>> \in w.assigned}}
      [] c.read = "guardian_students" ->
           UNION {{<<"student", q>>}
                    \union {<<"program", r>> : r \in
                               {q} \intersect {t \in People : w.enrollment[t] = "active"}}
                    \union {<<"grade", r>> : r \in {q} \intersect w.graded} :
                  q \in {r \in People : <<p, r>> \in w.links}}

Moment(w, c) ==
    [may |-> May(w, c), member |-> w.member, person |-> w.person,
     data |-> [p \in People |-> Data(w, c, p)]]
WitnessRead ==
    seen' = IF call' = NoCall \/ call.stage \notin {"rest", "reading", "finished"}
            THEN seen ELSE seen \union {Moment(world', call')}

SelfServiceInit ==
    /\ world \in Worlds
    /\ moves = 0 /\ call = NoCall /\ audit = << >> /\ answer = << >>
    /\ seen = {}

SelfServiceNext == (StartPortal \/ StartTool \/ ReadStep \/ Change) /\ WitnessRead
SelfServiceSpec == SelfServiceInit /\ [][SelfServiceNext]_selfServiceVars

-----------------------------------------------------------------------------
SelfServiceTypeOK == world \in World /\ answer \in Seq({call.found})

(* When no more than one change was made meanwhile, the whole answer, or   *)
(* the refusal, is the one of a single moment of the read.  With more, the *)
(* person is one an active membership of the caller was linked to at some  *)
(* moment, and each part was that person's at some moment; only a schedule *)
(* may join a course dropped meanwhile with a session planned since.       *)
AnswersAreEntitled ==
    /\ moves <= 1 =>
         /\ \A n \in DOMAIN answer :
              \E m \in seen : m.may /\ answer[n] = m.data[m.person]
         /\ call.outcome = "denied" => \E m \in seen : ~m.may
    /\ \A n \in DOMAIN answer : \E p \in People :
         /\ \E m \in seen : m.member = "active" /\ m.person = p
         /\ \/ call.read = "student_schedule"
            \/ answer[n] \subseteq UNION {m.data[p] : m \in seen}

(* A tool that answered has left its success and nothing else on record, a *)
(* refused one its refusal or, when the record failed, nothing at all.     *)
ToolsAreRecorded ==
    call.via = "mcp" =>
      /\ answer # << >> => audit = <<"succeeded">>
      /\ call.outcome \in {"denied", "failed"} => audit \in {<< >>, <<call.outcome>>}

(* A self-service read answers what the person asking was entitled to,     *)
(* whatever changed while it was made, and no tool answers unrecorded      *)
(* (ActorOwnedReadService over the reads of memberships, enrollments,      *)
(* rosters and links; _execute of the MCP gateway).                        *)
AnswersAreAuthorized == AnswersAreEntitled /\ ToolsAreRecorded
=============================================================================
