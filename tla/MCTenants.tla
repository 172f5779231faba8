------------------------------ MODULE MCTenants ------------------------------
(***************************************************************************)
(* What one tenant's users are served, part by part: the registry, the     *)
(* curricula, the calendar, proposed timetables, entitlements,             *)
(* notifications and self-service.  The parts share no state, so a         *)
(* behaviour is one of one part (which part, the variable says) and the    *)
(* other parts stay as they began.                                         *)
(***************************************************************************)
EXTENDS Registry, Curriculum, Calendar, MCGeneration, Entitlements, Notifications,
        SelfService

CONSTANTS
    plan, setting

VARIABLE
    part

-----------------------------------------------------------------------------
(* Two tenants with the same codes and different identifiers.  The first   *)
(* has a year and a term of other spans, so that a cohort or a term fits   *)
(* one year only, and a person stored with the older form of digest.       *)
Stock(o, i) ==
    [campus |-> {Row(o, i, <<1>>, << >>, << >>, 1, "active"),
                 Row(o, i + 1, <<5>>, << >>, << >>, 5, "inactive")},
     person |-> {Row(o, i, IF o = 1 THEN LegacyDigest(1) ELSE Digest(1),
                       << >>, << >>, 1, 1)},
     profile |-> {Row(o, i + n[1], <<i, n[2]>>, [person |-> i], << >>, 0, n[2]) :
                    n \in {<<0, "student">>, <<1, "teacher">>, <<2, "guardian">>}},
     link |-> {},
     faculty |-> {Row(o, i, <<1>>, << >>, [campus |-> i], 1, "faculty")},
     department |-> {Row(o, i, <<1>>, [faculty |-> i], << >>, 1, "department")},
     program |-> {Row(o, i + n, <<n + 7>>, [department |-> i], << >>, 1, "hybrid") :
                    n \in 0 .. 2 - o},
     year |-> {Row(o, i + n, <<n + 7>>, << >>, << >>, 8, <<1, 4 - 2 * n>>) :
                 n \in 0 .. 2 - o},
     term |-> {Row(o, i, <<i, 1>>, [year |-> i], << >>, 8, <<1, 2>>)},
     event |-> {},
     course |-> {Row(o, i, <<1>>, [department |-> i], << >>, 1, "course")},
     offering |-> {Row(o, i, <<i, i, 1>>, [course |-> i, term |-> i],
                         [campus |-> i], 1, "offering")},
     cohort |-> {Row(o, i + n, <<n + 7>>, [program |-> i + n, year |-> i], << >>,
                       1, "cohort") : n \in 0 .. 2 - o},
     room |-> {Row(o, i, <<i, 1>>, << >>, [campus |-> i], 1, "room")},
     assignment |-> {}, enrollment |-> {}, policy |-> {}]
StoredRows == [t \in DOMAIN Stock(1, 1) |-> Stock(1, 1)[t] \union Stock(2, 4)[t]]

RegisteredSpans == {<<0, 2>>, <<1, 3>>, <<3, 3>>}

TwoProgramYears == {<<1, 1>>, <<1, 2>>}

PlanGrants == [p \in {plan} |-> {"f"}]
EqualPeriods == [i \in Calls \union {First} |-> <<0, 2>>]

-----------------------------------------------------------------------------
(* A person who studies, teaches a section and is linked to a student, all *)
(* in one tenant; and a teacher no identity is registered for, whose       *)
(* section is another's.                                                   *)
Home ==
    [organization |-> "active", registered |-> TRUE, member |-> "active",
     roles |-> {}, person |-> 1, feature |-> TRUE,
     profiles |-> {<<1, "student">>, <<1, "teacher">>, <<1, "guardian">>,
                   <<2, "student">>, <<2, "teacher">>},
     links |-> {<<1, 2>>}, assigned |-> {<<1, "s">>},
     enrollment |-> 1 :> "active" @@ 2 :> "active", attends |-> {<<1, "s">>},
     sessions |-> {<<"s", 1>>}, graded |-> {1}, evidence |-> "s" :> "accepted",
     mapped |-> {1}]
PersonalWorlds ==
    {[Home EXCEPT !.roles = {"student", "teacher", "guardian"}],
     [Home EXCEPT !.roles = {"teacher"}, !.assigned = {<<2, "s">>}, !.registered = FALSE]}

-----------------------------------------------------------------------------
tenantVars == <<part, registryVars, curriculumVars, calendarVars, proposalVars, allVars,
                notificationVars, selfServiceVars>>

NothingRegistered ==
    db = [t \in DOMAIN Stored |-> {}] /\ registered = 0 /\ walk = Idle

TenantsInit ==
    /\ part \in {"registry", "curriculum", "calendar", "generation", "entitlements",
                 "notifications", "self-service"}
    /\ IF part = "registry" THEN RegistryInit ELSE NothingRegistered
    /\ CurriculumInit /\ CalendarInit /\ GenerationInit /\ NotificationInit
    /\ InitialTenancy
    /\ part # "entitlements" => subscription = None
    /\ SelfServiceInit
    /\ part # "self-service" => world = CHOOSE w \in Worlds : TRUE

TenantsNext ==
    /\ UNCHANGED part
    /\ \/ /\ part = "registry" /\ RegistryNext
          /\ UNCHANGED <<curriculumVars, calendarVars, proposalVars, allVars,
                         notificationVars, selfServiceVars>>
       \/ /\ part = "curriculum" /\ CurriculumNext
          /\ UNCHANGED <<registryVars, calendarVars, proposalVars, allVars,
                         notificationVars, selfServiceVars>>
       \/ /\ part = "calendar" /\ CalendarNext
          /\ UNCHANGED <<registryVars, curriculumVars, proposalVars, allVars,
                         notificationVars, selfServiceVars>>
       \/ /\ part = "generation" /\ GenerationNext
          /\ UNCHANGED <<registryVars, curriculumVars, calendarVars, allVars,
                         notificationVars, selfServiceVars>>
       \/ /\ part = "entitlements" /\ EntitlementNext
          /\ UNCHANGED <<registryVars, curriculumVars, calendarVars, proposalVars,
                         notificationVars, selfServiceVars>>
       \/ /\ part = "notifications" /\ NotificationNext
          /\ UNCHANGED <<registryVars, curriculumVars, calendarVars, proposalVars,
                         allVars, selfServiceVars>>
       \/ /\ part = "self-service" /\ SelfServiceNext
          /\ UNCHANGED <<registryVars, curriculumVars, calendarVars, proposalVars,
                         allVars, notificationVars>>

TenantsSpec == TenantsInit /\ [][TenantsNext]_tenantVars
=============================================================================
