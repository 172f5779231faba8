\* One application from its draft on, and two after their reviews for the one or two
\* seats of a quota that is configured at any time, with two calls at a time.
CONSTANTS
    Requests = {r1, r2}
    Applications = {a1, a2}
    Stages = {s1}
    Outcomes = {"accepted", "rejected", "waitlisted"}
    MaxReviews = 2
    MaxCapacity = 2
    Nothing = Nothing
SPECIFICATION AdmissionsSpec
SYMMETRY Symmetry
INVARIANTS
    DecisionsAgree
    ConversionIsWhole
    ReviewedBeforeAcceptance
PROPERTIES
    AcceptanceFitsQuota
