\* Two reviewers and an ordinary grade write on one enrollment; a delivery, which may
\* be repeated, and a reconciliation run bring in the same two events.
CONSTANTS
    Events = {v1, v2}
    Senders = {s1}
    Runs = {u1}
    Reviewers = {r1, r2}
    Graders = {g1}
    Enrollments = {e1}
    Nothing = Nothing
    NoGrade = NoGrade
SPECIFICATION Spec
SYMMETRY Symmetry
CHECK_DEADLOCK FALSE
INVARIANTS
    LineageIsTrue
    RunsTellTheTruth
PROPERTIES
    ResolutionIsFinal
    ReviewersReplaceWhatTheyRead
