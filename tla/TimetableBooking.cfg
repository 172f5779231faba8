\* Two sessions of one teacher are created, moved, locked and twice replaced, in two
\* slots and two rooms, by calls that overlap in every way.
CONSTANTS
    i1 = i1
    i2 = i2
    room1 = room1
    room2 = room2
    teacher = teacher
    c1 = c1
    c2 = c2
    m1 = m1
    k1 = k1
    Sessions = {i1, i2}
    Slots = {slot1, slot2}
    Uses <- TwoRooms
    Creators = {c1, c2}
    Movers = {m1}
    Lockers = {k1}
    Target <- Targets
    MaxVersion = 2
    Replacers = {g1, g2}
SPECIFICATION Spec
SYMMETRY Symmetry
CHECK_DEADLOCK FALSE
INVARIANTS
    NoDoubleBooking
PROPERTIES
    ChangesBuildOnWhatIsStored
