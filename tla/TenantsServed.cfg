\* Seven parts of what tenants are served, each in behaviours of its own: two operators,
\* three senders, two activities of one teacher, and the small worlds MCTenants defines.
SPECIFICATION TenantsSpec
CONSTANTS
    None = None
    Nobody = Nobody
    First = First
    plan = plan
    setting = setting

    Administrator = 1
    NewIds = {0, 9}
    Codes = {1, 2}
    MaxRows = 1
    Limit = 1
    MaxCredits = 1
    Stored <- StoredRows
    Spans <- RegisteredSpans

    Courses = {1, 2}
    Strangers = {3}
    ProgramYears <- TwoProgramYears
    Identifiers = {1, 2}
    MaxVersions = 2

    Teachers = {1}
    Others = {2}
    CalendarEnd = 3
    MaxEvents = 3
    MaxWindows = 2

    room1 = room1
    room2 = room2
    teacher = teacher
    Activities = {1, 2}
    Rooms = {room1, room2}
    Slots <- FourSlots
    Fits <- Everywhere
    Uses <- OneTeacher
    Required <- TwiceThenOnce
    MaxVersion = 1

    Calls = {c1, c2}
    Plans = {plan}
    Configurations = {setting}
    Features = {"f", "b"}
    Base = {"b"}
    Grants <- PlanGrants
    Periods <- EqualPeriods
    LastInstant = 0

    Senders = {d1, d2, d3}
    Recipients = {1}
    External = {"email", "sms"}
    Configured = {"email"}
    MaxChoices = 2

    People = {1, 2}
    Sections = {"s"}
    MaxChanges = 2
    Worlds <- PersonalWorlds
SYMMETRY Symmetry
INVARIANTS
    RegistryIsSound CurriculaAreNotMixed WindowsAreExact
    ProposalIsSound UnscheduledHasNoPlace
    AnswersWereTrue DeliveriesAreTrue AnswersAreAuthorized
CHECK_DEADLOCK FALSE
