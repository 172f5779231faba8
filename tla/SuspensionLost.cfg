\* A configuration that was read before a suspension is stored after it.
CONSTANTS
    Calls = {c1, c2, c3}
    Plans = {p1}
    Configurations = {old, new}
    None = None
SPECIFICATION Spec
CHECK_DEADLOCK FALSE
PROPERTIES
    SuspensionHolds
