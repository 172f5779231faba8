---------------------------- MODULE MCGeneration ----------------------------
(***************************************************************************)
(* An instance of Generation: two activities of one teacher, the first of  *)
(* which meets twice.  There is room for all of it unless a session is     *)
(* placed, or kept, in the slot that spans two others.  Rooms are alike.   *)
(***************************************************************************)
EXTENDS Generation, TLC

CONSTANTS room1, room2, teacher

FourSlots == {{1}, {2}, {1, 2}, {3}}
Everywhere == [a \in Activities |-> FourSlots \X Rooms]
OneTeacher == [a \in Activities |-> {teacher}]
TwiceThenOnce == [a \in Activities |-> IF a = 1 THEN 2 ELSE 1]
Symmetry == Permutations(Rooms)
=============================================================================
