\* Two students of two programs compete for a seat; three requests and three
\* decisions overlap with every transition and change of configuration.
CONSTANTS
    s1 = s1
    s2 = s2
    p1 = p1
    p2 = p2
    o1 = o1
    o2 = o2
    r1 = r1
    r2 = r2
    r3 = r3
    d1 = d1
    d2 = d2
    d3 = d3
    Students = {s1, s2}
    Programs = {p1, p2}
    ProgramOf <- TwoPrograms
    Offerings = {o1, o2}
    Capacity <- TwoSeats
    Clashes = {{o1, o2}}
    Curricula <- TwoCurricula
    Policies <- TwoPolicies
    Requests = {r1, r2, r3}
    StudentOf <- ThreeRequests
    Selected <- ThreeSelections
    Decisions = {d1, d2, d3}
    RequestOf <- ThreeDecisions
    Approves = {d1, d2}
SPECIFICATION Spec
CHECK_DEADLOCK FALSE
INVARIANTS
    EnrolledIsEntitled
    SelectionsAreWhole
PROPERTIES
    ApprovalIsCurrent
    ClosedTermSettles
