----------------------------- MODULE Generation -----------------------------
(***************************************************************************)
(* The deterministic heuristic that proposes a timetable, and the life of  *)
(* its proposals: generated from the stored sessions, applied, locked or   *)
(* moved by hand, and generated again.  One proposal at a time; Timetable  *)
(* has the calls that overlap.                                             *)
(*                                                                         *)
(* A generated session is named for its activity, its ordinal, its slot    *)
(* and its room, and it keeps that name when it is moved: the same place   *)
(* is proposed under the same name again.  The ordinals that are placed go *)
(* on after as many as were preserved, whichever those are, so that a      *)
(* preserved name may be proposed a second time.                           *)
(*                                                                         *)
(* A slot is the set of the instants it covers.  The rules a session must  *)
(* meet by itself (calendar, availability, type and size of the room) are  *)
(* given as the places that fit an activity.  The policy of preferences is *)
(* left open: any place that is free may be the cheapest.                  *)
(***************************************************************************)
EXTENDS Integers, FiniteSets

CONSTANTS
    Activities,   \* numbers, in the order of the identifiers
    Slots,        \* sets of instants
    Rooms,
    Fits,         \* the places, <<slot, room>>, that fit each activity
    Uses,         \* the teachers and required groups of each activity
    Required,     \* how many sessions each activity needs
    MaxVersion    \* bound: versions grow up to here

ASSUME ActivitiesAssumption ==
    /\ Activities \subseteq Nat
    /\ Required \in [Activities -> Nat]
    /\ Fits \in [Activities -> SUBSET (Slots \X Rooms)]

VARIABLES
    timetable,    \* the stored sessions
    stage,        \* "idle", "placing" or "proposed"
    asserted,     \* locked_session_ids: the names to be preserved
    ordinal,      \* the next session to be placed of each activity
    placed,       \* the sessions placed: after the preserved ones, the proposal
    unscheduled   \* the ordinals, <<activity, ordinal>>, that found no place

proposalVars == <<timetable, stage, asserted, ordinal, placed, unscheduled>>

Names == Activities \X Nat \X Slots \X Rooms
Session == [id : Names, slot : Slots, room : Rooms, locked : BOOLEAN, version : Nat]

GenerationInit ==
    /\ timetable = {}
    /\ stage = "idle"
    /\ asserted = {}
    /\ ordinal = [a \in Activities |-> 0]
    /\ placed = {}
    /\ unscheduled = {}

----------------------------------------------------------------------------
ActivityOf(s) == s.id[1]
Ids(sessions) == {s.id : s \in sessions}
Named(ids) == {s \in timetable : s.id \in ids}
Kept == Named(asserted)
Locked == {s \in timetable : s.locked}

\* The list of the proposal, whose two parts may have a session or a name in common.
Proposal == Kept \cup placed
NamesAreDistinct == Ids(Kept) \cap Ids(placed) = {}

SharesResource(s, t) ==
    s.room = t.room \/ Uses[ActivityOf(s)] \cap Uses[ActivityOf(t)] # {}

BookedTwice(s, t) == s.slot \cap t.slot # {} /\ SharesResource(s, t)

\* detect_hard_conflicts passes over a session of the candidate's own name.
Conflict(s, t) == s.id # t.id /\ BookedTwice(s, t)

Candidate(a, o, place) ==
    [id |-> <<a, o, place[1], place[2]>>, slot |-> place[1], room |-> place[2],
     locked |-> FALSE, version |-> 0]

\* _candidate_attempts: the candidates without a hard conflict.
FreePlaces(a, o, sessions) ==
    {place \in Fits[a] : \A s \in sessions : ~Conflict(Candidate(a, o, place), s)}

Count(a, sessions) == Cardinality({s \in sessions : ActivityOf(s) = a})

\* The order of placement: the scarcest activity first, by what is free beside
\* the preserved sessions, then by identifier.
Scarcity(a) == Cardinality(FreePlaces(a, Count(a, Kept), Kept))
Before(a, b) == Scarcity(a) < Scarcity(b) \/ (Scarcity(a) = Scarcity(b) /\ a < b)

\* What keeps a proposal from being complete: preserved sessions that conflict with
\* one another, and what could not be placed.
Clashes == \E s, t \in Kept : Conflict(s, t)
Resolved == unscheduled = {} /\ ~Clashes

Remaining == {a \in Activities : ordinal[a] < Required[a]}
IsNext(a) == a \in Remaining /\ \A b \in Remaining \ {a} : Before(a, b)

----------------------------------------------------------------------------
\* generate: preserve the sessions the client asserts, which must exist.
Begin ==
    /\ stage = "idle"
    /\ \E ids \in SUBSET Ids(timetable) :
          /\ asserted' = ids
          /\ ordinal' = [a \in Activities |-> Count(a, Named(ids))]
    /\ stage' = "placing"
    /\ UNCHANGED <<timetable, placed, unscheduled>>

\* Slips: a placement looks at the preserved sessions only, or gives up when the place
\* it prefers is taken.
PlaceBesideKept(a) ==
    LET free == FreePlaces(a, ordinal[a], Kept) IN
    /\ stage = "placing" /\ IsNext(a)
    /\ ordinal' = [ordinal EXCEPT ![a] = @ + 1]
    /\ IF free = {}
       THEN /\ unscheduled' = unscheduled \cup {<<a, ordinal[a]>>}
            /\ UNCHANGED placed
       ELSE /\ \E place \in free :
                  placed' = placed \cup {Candidate(a, ordinal[a], place)}
            /\ UNCHANGED unscheduled
    /\ UNCHANGED <<timetable, stage, asserted>>
PlacePreferred(a) ==
    /\ stage = "placing" /\ IsNext(a)
    /\ ordinal' = [ordinal EXCEPT ![a] = @ + 1]
    /\ \E place \in Fits[a] :
          IF place \in FreePlaces(a, ordinal[a], Proposal)
          THEN /\ placed' = placed \cup {Candidate(a, ordinal[a], place)}
               /\ UNCHANGED unscheduled
          ELSE /\ unscheduled' = unscheduled \cup {<<a, ordinal[a]>>}
               /\ UNCHANGED placed
    /\ UNCHANGED <<timetable, stage, asserted>>

\* _place_activity: an ordinal finds a place or stays unscheduled.
Place(a) ==
    LET free == FreePlaces(a, ordinal[a], Proposal) IN
    /\ stage = "placing" /\ IsNext(a)
    /\ ordinal' = [ordinal EXCEPT ![a] = @ + 1]
    /\ IF free = {}
       THEN /\ unscheduled' = unscheduled \cup {<<a, ordinal[a]>>}
            /\ UNCHANGED placed
       ELSE /\ \E place \in free :
                  placed' = placed \cup {Candidate(a, ordinal[a], place)}
            /\ UNCHANGED unscheduled
    /\ UNCHANGED <<timetable, stage, asserted>>

Finish ==
    /\ stage = "placing" /\ Remaining = {}
    /\ stage' = "proposed"
    /\ UNCHANGED <<timetable, asserted, ordinal, placed, unscheduled>>

\* apply_proposal and prepare_generated_replacement, for a proposal made from the
\* stored timetable.  Activities that were left unscheduled are no obstacle.
Applicable ==
    /\ Proposal # {} /\ NamesAreDistinct
    /\ \A s, t \in Proposal : ~Conflict(s, t)
    /\ Locked \subseteq Proposal
    /\ \A s \in placed, t \in timetable : s.id = t.id => s.version = t.version

\* A proposed session that is stored and not preserved gets its next version.
Prepared(s) ==
    IF s.id \in Ids(timetable \ (Kept \cup Locked))
    THEN [s EXCEPT !.version = @ + 1] ELSE s

Discarded ==
    /\ stage' = "idle"
    /\ asserted' = {}
    /\ ordinal' = [a \in Activities |-> 0]
    /\ placed' = {}
    /\ unscheduled' = {}

Apply ==
    /\ stage = "proposed" /\ Applicable
    /\ \A s \in Proposal : s.version < MaxVersion
    /\ timetable' = {Prepared(s) : s \in Proposal}
    /\ Discarded

\* A proposal is refused, or never applied.
Discard ==
    /\ stage = "proposed"
    /\ Discarded
    /\ UNCHANGED timetable

----------------------------------------------------------------------------
Edit(s, edited) ==
    /\ stage = "idle" /\ s.version < MaxVersion
    /\ timetable' = (timetable \ {s}) \cup {[edited EXCEPT !.version = @ + 1]}
    /\ UNCHANGED <<stage, asserted, ordinal, placed, unscheduled>>

\* set_session_lock.
SetLock(s) == \E flag \in BOOLEAN : Edit(s, [s EXCEPT !.locked = flag])

\* move_session: to a slot that fits and is free.
Move(s) ==
    \E slot \in Slots \ {s.slot} :
        LET moved == [s EXCEPT !.slot = slot] IN
        /\ <<slot, s.room>> \in Fits[ActivityOf(s)]
        /\ \A t \in timetable : ~Conflict(moved, t)
        /\ Edit(s, moved)

GenerationNext ==
    \/ Begin \/ Finish \/ Apply \/ Discard
    \/ \E a \in Activities : Place(a)
    \/ \E s \in timetable : SetLock(s) \/ Move(s)

GenerationSpec == GenerationInit /\ [][GenerationNext]_proposalVars
----------------------------------------------------------------------------
(***************************************************************************)
(* Properties.                                                             *)
(***************************************************************************)

Ordinals(a) == Count(a, Kept)..(Required[a] - 1)

\* No two stored sessions have one name, or share a resource in overlapping slots.
StoredIsSound == \A s, t \in timetable : s.id = t.id \/ BookedTwice(s, t) => s = t

\* A finished proposal that leaves nothing unresolved has a session for every ordinal
\* still needed, no two of which are booked twice, and books nothing beside a preserved
\* session unless it proposes that one's name again.  Even then what is stored books
\* nothing twice, whatever is generated, applied, locked and moved.
ProposalIsSound ==
    /\ stage = "proposed" /\ Resolved =>
          /\ \A a \in Activities : \A o \in Ordinals(a) :
                \E s \in placed : ActivityOf(s) = a /\ s.id[2] = o
          /\ \A s, t \in placed : BookedTwice(s, t) => s = t
          /\ \A s \in placed, t \in Kept : BookedTwice(s, t) => s.id = t.id
    /\ StoredIsSound

\* What was left unscheduled has no free place in the finished proposal either,
\* whatever was placed after it.
UnscheduledHasNoPlace ==
    stage = "proposed" =>
        \A u \in unscheduled : FreePlaces(u[1], u[2], Proposal) = {}

\* "Reject hard conflicts": a proposal that leaves nothing unresolved books nothing
\* twice.
\* Not kept: a preserved name that is proposed again may be in its place again.
ProposalBooksNothingTwice ==
    stage = "proposed" /\ Resolved => \A s \in placed, t \in Kept : ~BookedTwice(s, t)

\* What is generated with every stored lock preserved, nothing unresolved and no name
\* twice can be applied: regeneration around locked sessions is straightforward.
\* Not kept: a name that is stored has a version the generator does not give it.
RegenerationApplies ==
    stage = "proposed" /\ Resolved /\ NamesAreDistinct
    /\ Proposal # {} /\ Ids(Locked) \subseteq asserted
        => Applicable
=============================================================================
