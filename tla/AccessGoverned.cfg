\* Two calls of every kind overlap: on one session, which the browser may replace by a
\* login and the provider may end, on two memberships and on two administrators.
CONSTANTS
    Calls = {c1, c2}
    First = k0
    Flows = {f1}
    MaxToken = 3
    Subjects = {s1, s2}
    Members = {1, 2}
SPECIFICATION Spec
SYMMETRY Symmetry
CHECK_DEADLOCK FALSE
INVARIANTS
    AnOwnerRemains
    LocksNeverCircle
    LogoutLeavesNothing
PROPERTIES
    AnAdministratorRemains
    StaleRequestsChangeNothing
    RotationIsSafe
