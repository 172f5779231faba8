\* Three concurrent calls of any kind on one enrollment; the guard
\* connection of one of them may drop.
SPECIFICATION Spec
CONSTANTS
    Requests = {r1, r2, r3}
    Unreliable = {r1}
    Enrollments = {e1}
    Expectations = {0, 1}
    Nobody = Nobody
    NoGrade = NoGrade
    Unspecified = Unspecified
SYMMETRY Symmetry
INVARIANTS
    HistoryExplainsGrade
    ExpectedRevisionHonoured
    AuditTellsTheTruth
PROPERTIES
    ClosureFlagTrueAtCommit
    ClosedTermNeedsAmendment
    ClosureWaitsForGuards
