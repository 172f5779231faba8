---------------------------- MODULE MCTimetable ----------------------------
(***************************************************************************)
(* Instances of Timetable.  Slots and rooms are interchangeable.           *)
(***************************************************************************)
EXTENDS Timetable, TLC

CONSTANTS i1, i2, room1, room2, teacher, c1, c2, m1, k1

\* Two sessions by one teacher, who may meet in either room.
TwoRooms == {{room1, teacher}, {room2, teacher}}
Targets == (c1 :> i1) @@ (c2 :> i2) @@ (m1 :> i1) @@ (k1 :> i1)
Symmetry == Permutations(Slots) \cup Permutations({room1, room2})
=============================================================================
