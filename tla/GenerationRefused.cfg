\* Generation, locks and moves in turn, until a proposal cannot be applied.
CONSTANTS
    room1 = room1
    room2 = room2
    teacher = teacher
    Activities = {1, 2}
    Rooms = {room1, room2}
    Slots <- FourSlots
    Fits <- Everywhere
    Uses <- OneTeacher
    Required <- TwiceThenOnce
    MaxVersion = 2
SPECIFICATION GenerationSpec
SYMMETRY Symmetry
INVARIANTS
    RegenerationApplies
