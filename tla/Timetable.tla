----------------------------- MODULE Timetable -----------------------------
(***************************************************************************)
(* The timetable of one organization: manual creation and moves, locks     *)
(* that generation must respect, and the replacement of the whole          *)
(* timetable by a generated proposal.                                      *)
(*                                                                         *)
(* A manual call reads without locks, checks, records its intent and then  *)
(* writes in one transaction: a shared try-lock on the tenant and          *)
(* exclusive try-locks on the room, the teachers and the required groups   *)
(* of the session, a second check on what is stored by then, and a         *)
(* compare-and-swap of the version.  Setting the lock flag writes the      *)
(* whole session by the same steps, without the second check.  A           *)
(* replacement takes the tenant lock exclusively.  No lock is waited for:  *)
(* a call that misses one ends with a retryable conflict.                  *)
(*                                                                         *)
(* A slot stands for the occurrences of a session, and sessions overlap    *)
(* when they share it.  Rooms, teachers and required groups are alike to   *)
(* the conflict rules: they are resources.  What a slot must satisfy by    *)
(* itself (room type, capacity, calendar, availability) is left out.       *)
(***************************************************************************)
EXTENDS Integers, FiniteSets

CONSTANTS
    Sessions,         \* session identifiers
    Slots,            \* meeting times
    Uses,             \* the sets of resources a session may be placed with
    Creators,         \* calls that create the session they name
    Movers, Lockers,  \* calls that move a session, and that set its lock flag
    Replacers,        \* generations of a proposal, each applied at most once
    Target,           \* the session of each manual call
    MaxVersion        \* bound: versions grow up to here

VARIABLES
    timetable,     \* the stored sessions: a function on their identifiers
    deleted,       \* the identifiers a replacement has ever deleted
    pc, base,      \* each call's progress and what it read
    value          \* what a manual call writes, what a replacer proposes

vars == <<timetable, deleted, pc, base, value>>

Manual == Creators \cup Movers \cup Lockers

ASSUME CallsAssumption ==
    /\ Creators \cap (Movers \cup Lockers) = {} /\ Movers \cap Lockers = {}
    /\ Manual \cap Replacers = {}
ASSUME TargetAssumption == Target \in [Manual -> Sessions]
ASSUME VersionAssumption == MaxVersion \in Nat

SessionRecords == [slot : Slots, uses : Uses, locked : BOOLEAN, version : 0..MaxVersion]
Timetables == UNION {[ids -> SessionRecords] : ids \in SUBSET Sessions}
Nothing == [ids \in {} |-> {}]

TypeOK ==
    /\ timetable \in Timetables
    /\ deleted \subseteq Sessions
    /\ pc \in [Manual \cup Replacers -> {"idle", "ready", "locked", "saved", "failed"}]
    /\ base \in [Manual \cup Replacers -> Timetables]
    /\ value \in [Manual \cup Replacers -> Timetables]

Init ==
    /\ timetable = Nothing
    /\ deleted = {}
    /\ pc = [c \in Manual \cup Replacers |-> "idle"]
    /\ base = [c \in Manual \cup Replacers |-> Nothing]
    /\ value = [c \in Manual \cup Replacers |-> Nothing]

----------------------------------------------------------------------------
Stored(i) == i \in DOMAIN timetable

\* detect_hard_conflicts on two sessions: they overlap and share a room, a
\* teacher or a required group.
Overlap(a, b) == a.slot = b.slot /\ a.uses \cap b.uses # {}

ConflictFree(i, placed, sessions) ==
    \A j \in DOMAIN sessions \ {i} : ~Overlap(placed, sessions[j])

\* A call ends and forgets what it read.
Finish(c, outcome) ==
    /\ pc' = [pc EXCEPT ![c] = outcome]
    /\ base' = [base EXCEPT ![c] = Nothing]
    /\ value' = [value EXCEPT ![c] = Nothing]

Prepare(c, read, written) ==
    /\ pc' = [pc EXCEPT ![c] = "ready"]
    /\ base' = [base EXCEPT ![c] = read]
    /\ value' = [value EXCEPT ![c] = written]
    /\ UNCHANGED <<timetable, deleted>>

----------------------------------------------------------------------------
(***************************************************************************)
(* Manual calls.                                                           *)
(***************************************************************************)

One(i, record) == [j \in {i} |-> record]

\* create_session: the unlocked check, then the intent.
Create(c) ==
    /\ pc[c] = "idle"
    /\ \E slot \in Slots, uses \in Uses :
          LET new == [slot |-> slot, uses |-> uses, locked |-> FALSE, version |-> 0] IN
          /\ ConflictFree(Target[c], new, timetable)
          /\ Prepare(c, Nothing, One(Target[c], new))

\* move_session: only the time changes, and the version grows by one.
Move(c) ==
    LET i == Target[c] IN
    /\ pc[c] = "idle" /\ Stored(i)
    /\ timetable[i].version < MaxVersion
    /\ \E slot \in Slots \ {timetable[i].slot} :
          LET moved == [timetable[i] EXCEPT !.slot = slot, !.version = @ + 1] IN
          /\ ConflictFree(i, moved, timetable)
          /\ Prepare(c, One(i, timetable[i]), One(i, moved))

\* set_session_lock: the rest of the session is written back as it was read.
SetLock(c) ==
    LET i == Target[c] IN
    /\ pc[c] = "idle" /\ Stored(i)
    /\ timetable[i].version < MaxVersion
    /\ \E flag \in BOOLEAN :
          Prepare(c, One(i, timetable[i]),
                  One(i, [timetable[i] EXCEPT !.locked = flag, !.version = @ + 1]))

\* The resources whose advisory locks a manual transaction holds.
Locks(c) == value[c][Target[c]].uses

InTransaction == {c \in Manual : pc[c] = "locked"}

\* Slip: only the session itself is locked.
TryLocksOnSession(c) == \A d \in InTransaction : Target[d] # Target[c]

\* _acquire_normal_write_locks, without waiting.
TryLocks(c) == \A d \in InTransaction : Locks(d) \cap Locks(c) = {}

\* save_conflict_free_session and save_session up to the conflict check, which
\* sees what is committed once the locks are held.
Acquire(c) ==
    /\ pc[c] = "ready"
    /\ TryLocks(c)
    /\ c \notin Lockers => ConflictFree(Target[c], value[c][Target[c]], timetable)
    /\ pc' = [pc EXCEPT ![c] = "locked"]
    /\ UNCHANGED <<timetable, deleted, base, value>>

\* Slip: an existing session is overwritten whatever its version.
IsCurrentUnversioned(c) == Stored(Target[c]) <=> c \notin Creators

\* The row as it is when its lock is taken: absent for a creation, of the
\* version that was read for an edit.
IsCurrent(c) ==
    IF c \in Creators THEN ~Stored(Target[c])
    ELSE /\ Stored(Target[c])
         /\ timetable[Target[c]].version = base[c][Target[c]].version

\* _save_session.
Save(c) ==
    /\ pc[c] = "locked"
    /\ IsCurrent(c)
    /\ timetable' = [i \in DOMAIN timetable \cup {Target[c]} |->
          IF i = Target[c] THEN value[c][i] ELSE timetable[i]]
    /\ Finish(c, "saved")
    /\ UNCHANGED deleted

\* A conflict, a lock that is taken, a changed version or the end of the process.
Refuse(c) ==
    /\ pc[c] \in {"ready", "locked"}
    /\ Finish(c, "failed")
    /\ UNCHANGED <<timetable, deleted>>

----------------------------------------------------------------------------
(***************************************************************************)
(* Generation.                                                             *)
(***************************************************************************)

Locked(sessions) == {i \in DOMAIN sessions : sessions[i].locked}
Versions(sessions) == [i \in DOMAIN sessions |-> sessions[i].version]

\* The proposal comes back from the client, bound to the versions it was generated
\* from.  A kept session carries its version, a new one starts at zero; locked
\* sessions are proposed as they are.
Proposals(read) == {p \in Timetables :
    /\ p # Nothing
    /\ \A i \in DOMAIN p :
          /\ p[i].version = IF i \in DOMAIN read THEN read[i].version ELSE 0
          /\ i \notin Locked(read) => ~p[i].locked
          /\ ConflictFree(i, p[i], p)
    /\ \A i \in Locked(read) : i \in DOMAIN p /\ p[i] = read[i]}

Generate(g) ==
    /\ pc[g] = "idle"
    /\ \E p \in Proposals(timetable) : Prepare(g, timetable, p)

\* prepare_generated_replacement compares the versions of all sessions.
UnchangedSince(read) == Versions(timetable) = Versions(read)

\* The tenant lock: shared by the manual transactions, exclusive here.
TenantFree == InTransaction = {}

\* replace_generated_schedule: sessions that are not locked get the next version,
\* sessions that are not proposed are deleted.
ReplaceSchedule(g) ==
    /\ pc[g] = "ready" /\ TenantFree
    /\ UnchangedSince(base[g])
    /\ \A i \in Locked(timetable) : i \in DOMAIN value[g] /\ value[g][i] = timetable[i]
    /\ \A i \in DOMAIN value[g] : Stored(i) => timetable[i].version < MaxVersion
    /\ timetable' = [i \in DOMAIN value[g] |->
          IF Stored(i) /\ i \notin Locked(timetable)
          THEN [value[g][i] EXCEPT !.version = timetable[i].version + 1]
          ELSE value[g][i]]
    /\ deleted' = deleted \cup (DOMAIN timetable \ DOMAIN value[g])
    /\ Finish(g, "saved")

Next ==
    \/ \E c \in Creators : Create(c)
    \/ \E c \in Movers : Move(c)
    \/ \E c \in Lockers : SetLock(c)
    \/ \E c \in Manual : Acquire(c) \/ Save(c)
    \/ \E g \in Replacers : Generate(g) \/ ReplaceSchedule(g)
    \/ \E c \in Manual \cup Replacers : Refuse(c)

Spec == Init /\ [][Next]_vars
----------------------------------------------------------------------------
(***************************************************************************)
(* Properties.  Versions start at zero with every row, so that a row which *)
(* a replacement deletes and the next one stores again passes for the one  *)
(* an older call has read: ADR-0008 promises more than the properties can  *)
(* for such identifiers (see the README).                                  *)
(***************************************************************************)

\* No room, teacher or required group is ever booked twice at one time, whichever
\* manual calls, lock changes and replacements overlap.  (Of well-typed sessions.)
NoDoubleBooking ==
    /\ TypeOK
    /\ \A i, j \in DOMAIN timetable \ deleted :
          i # j => ~Overlap(timetable[i], timetable[j])

\* No edit is lost: a saved move or lock change is made of the session as it is
\* stored at that moment, never of an older reading.
EditsBuildOnWhatIsStored ==
    [][\A c \in Movers \cup Lockers :
          pc[c] = "locked" /\ pc'[c] = "saved" /\ Target[c] \notin deleted =>
             Stored(Target[c]) /\ base[c][Target[c]] = timetable[Target[c]]]_vars

\* A proposal replaces exactly the timetable it was generated from, so that no
\* manual change made meanwhile is discarded, and no locked session changes.
ReplacementIsBound ==
    [][\A g \in Replacers :
          pc[g] = "ready" /\ pc'[g] = "saved" =>
             /\ DOMAIN timetable = DOMAIN base[g]
             /\ \A i \in DOMAIN timetable \ deleted : timetable[i] = base[g][i]
             /\ \A i \in Locked(timetable) :
                   i \in DOMAIN timetable' /\ timetable'[i] = timetable[i]]_vars

\* Whatever changes the timetable, one session or all of it, is made of what is
\* stored at that moment (save_session, replace_timetable).
ChangesBuildOnWhatIsStored == EditsBuildOnWhatIsStored /\ ReplacementIsBound
=============================================================================
