\* Preserved sessions keep the ordinals they have, and the next ones are counted from
\* their number: a name is proposed again, in the place it was preserved in.
CONSTANTS
    room1 = room1
    room2 = room2
    teacher = teacher
    Activities = {1, 2}
    Rooms = {room1, room2}
    Slots <- FourSlots
    Fits <- Everywhere
    Uses <- OneTeacher
    Required <- TwiceThenOnce
    MaxVersion = 1
SPECIFICATION GenerationSpec
SYMMETRY Symmetry
INVARIANTS
    ProposalBooksNothingTwice
