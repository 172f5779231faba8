------------------------------- MODULE Calendar -------------------------------
(***************************************************************************)
(* The intervals generation is given: when instruction may take place in a *)
(* horizon, worked out from the calendar's events, and when each teacher   *)
(* is available, worked out from the windows kept for it.                  *)
(***************************************************************************)
EXTENDS Naturals, FiniteSets, Sequences, SequencesExt, FiniteSetsExt

CONSTANTS
    Teachers,       \* the teacher profiles of the tenant
    Others,         \* profiles that are no teachers of the tenant
    CalendarEnd,    \* instants are 0 .. CalendarEnd
    MaxEvents,      \* bound on the calendar's events
    MaxWindows      \* bound on the windows kept

VARIABLES
    events,         \* the calendar: [span, instruction]
    windows         \* the availability kept: [teacher, span]

Intervals == {s \in (0 .. CalendarEnd) \X (0 .. CalendarEnd) : s[1] < s[2]}
Meets(s, horizon) == s[1] < horizon[2] /\ s[2] > horizon[1]

-----------------------------------------------------------------------------
AddEvent ==
    \E span \in Intervals, instruction \in BOOLEAN :
      /\ Cardinality(events) < MaxEvents
      /\ events' = events \union {[span |-> span, instruction |-> instruction]}
      /\ UNCHANGED windows

(* No teacher has two windows of the same bounds. *)
SaveWindow(w) ==
    /\ w \notin windows
    /\ windows' = windows \union {w}
CreateWindow(w) ==
    /\ Cardinality(windows) < MaxWindows
    /\ w.teacher \in Teachers
    /\ SaveWindow(w)
    /\ UNCHANGED events
PostWindow ==
    \E w \in [teacher : Teachers \union Others, span : Intervals] : CreateWindow(w)

RemoveWindow(w) == windows' = windows \ {w}
DeleteWindow == \E w \in windows : RemoveWindow(w) /\ UNCHANGED events

-----------------------------------------------------------------------------
(* Sorted intervals, the ones that overlap or touch made one. *)
Sorted(spans) ==
    SetToSortSeq(spans, LAMBDA s, t : s[1] < t[1] \/ (s[1] = t[1] /\ s[2] < t[2]))
(* A slip: the joined interval ends where the later one does. *)
JoinedToLater(merged, s) ==
    IF merged = << >> \/ s[1] > merged[Len(merged)][2]
    THEN Append(merged, s)
    ELSE [merged EXCEPT ![Len(merged)] = <<@[1], s[2]>>]
Joined(merged, s) ==
    IF merged = << >> \/ s[1] > merged[Len(merged)][2]
    THEN Append(merged, s)
    ELSE [merged EXCEPT ![Len(merged)] = <<@[1], Max({@[2], s[2]})>>]
MergeWindows(spans) == FoldLeft(Joined, << >>, Sorted(spans))

(* A teacher the tenant does not have is available at no time. *)
ConstraintWindows(teachers, horizon) ==
    {w \in windows : w.teacher \in teachers /\ Meets(w.span, horizon)}
Availability(teacher, horizon) ==
    MergeWindows({w.span : w \in {v \in ConstraintWindows(Teachers, horizon) :
                                    v.teacher = teacher}})

(* The parts of a segment outside one blocked interval. *)
Outside(s, b) ==
    IF b[2] <= s[1] \/ b[1] >= s[2] THEN {s}
    ELSE {<<s[1], t>> : t \in {b[1]} \intersect (s[1] + 1 .. CalendarEnd)}
           \union {<<t, s[2]>> : t \in {b[2]} \intersect (0 .. s[2] - 1)}
Without(s, blocked) ==
    FoldSet(LAMBDA b, parts : UNION {Outside(p, b) : p \in parts}, {s}, blocked)
Clipped(s, horizon) == <<Max({s[1], horizon[1]}), Min({s[2], horizon[2]})>>

EventsIn(horizon) == {e \in events : Meets(e.span, horizon)}
InstructionWindows(horizon) ==
    LET of(kind) == {Clipped(e.span, horizon) :
                       e \in {f \in EventsIn(horizon) : f.instruction = kind}}
    IN  MergeWindows(UNION {Without(s, of(FALSE)) : s \in of(TRUE)})

-----------------------------------------------------------------------------
calendarVars == <<events, windows>>
CalendarInit == events = {} /\ windows = {}
CalendarNext == AddEvent \/ PostWindow \/ DeleteWindow
CalendarSpec == CalendarInit /\ [][CalendarNext]_calendarVars

(* The unit instants an interval covers, and those a sequence covers when  *)
(* its intervals are in order and leave a gap between each two.            *)
Covers(s) == s[1] .. s[2] - 1
Disjoint(seq) == \A n \in 1 .. Len(seq) - 1 : seq[n][2] < seq[n + 1][1]
Instants(seq) == UNION {Covers(seq[n]) : n \in 1 .. Len(seq)}

(* In any horizon the instruction windows are exactly the instants some    *)
(* event allows and none blocks, and the availability of a teacher exactly *)
(* the windows kept for it that meet the horizon, each as disjoint         *)
(* intervals in order (_instruction_windows, _merge_windows).              *)
WindowsAreExact ==
    \A horizon \in Intervals :
      LET instruction == InstructionWindows(horizon)
          Open(kind) == UNION {Covers(e.span) :
                                 e \in {f \in events : f.instruction = kind}}
      IN  /\ Disjoint(instruction)
          /\ Instants(instruction) =
               (Open(TRUE) \ Open(FALSE)) \intersect Covers(horizon)
          /\ \A t \in Teachers \union Others :
               /\ Disjoint(Availability(t, horizon))
               /\ Instants(Availability(t, horizon)) =
                    UNION {Covers(w.span) :
                             w \in {v \in windows : v.teacher = t
                                                      /\ Meets(v.span, horizon)}}
=============================================================================
