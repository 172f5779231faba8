-------------------------- MODULE TimetableProofs --------------------------
(***************************************************************************)
(* No double booking and no lost edit, for any sessions, slots, resources  *)
(* and number of overlapping calls.                                        *)
(*                                                                         *)
(* The inductive invariant is BookingInv.  ReadingsHold is why comparing a *)
(* version is enough: what a call has read is older than what is stored,   *)
(* or the same.  LocksExclude and CheckedWritesFit are why a check before  *)
(* the write is: the calls past their locks share no resource, so none of  *)
(* them can store what another has found no conflict with, and a           *)
(* replacement waits for all of them.                                      *)
(***************************************************************************)
EXTENDS Timetable, TLAPS

Calls == Manual \cup Replacers
Editors == Movers \cup Lockers
Underway == {"ready", "locked"}

\* A manual call under way writes one session; an editor has read it, and
\* changes neither its resources nor, if it sets the lock flag, its slot.
WritesFit ==
    /\ \A c \in Manual : pc[c] \in Underway =>
          value[c] \in [{Target[c]} -> SessionRecords]
    /\ \A c \in Editors : pc[c] \in Underway =>
          /\ base[c] \in [{Target[c]} -> SessionRecords]
          /\ value[c][Target[c]].version = base[c][Target[c]].version + 1
          /\ value[c][Target[c]].uses = base[c][Target[c]].uses
    /\ \A c \in Lockers : pc[c] \in Underway =>
          value[c][Target[c]].slot = base[c][Target[c]].slot

\* Whatever a call has read of a session that no replacement deleted is stored
\* still, or a later version of it is.
ReadingsHold ==
    \A c \in Calls : \A i \in DOMAIN base[c] \ deleted :
        /\ Stored(i)
        /\ base[c][i].version <= timetable[i].version
        /\ base[c][i].version = timetable[i].version => base[c][i] = timetable[i]

LocksExclude ==
    \A c, d \in Manual : c # d /\ pc[c] = "locked" /\ pc[d] = "locked" =>
        Locks(c) \cap Locks(d) = {}

CheckedWritesFit ==
    \A c \in Manual \ Lockers : pc[c] = "locked" =>
        ConflictFree(Target[c], value[c][Target[c]], timetable)

\* A proposal is free of conflicts in itself.
ProposalsFit ==
    \A g \in Replacers : pc[g] = "ready" =>
        \A i \in DOMAIN value[g] : ConflictFree(i, value[g][i], value[g])

NothingOverlaps ==
    \A i, j \in DOMAIN timetable \ deleted : i # j => ~Overlap(timetable[i], timetable[j])

\* Only a manual call takes locks.
ReplacersTakeNoLocks == \A g \in Replacers : pc[g] # "locked"

BookingInv ==
    /\ TypeOK
    /\ WritesFit /\ ReadingsHold
    /\ LocksExclude /\ CheckedWritesFit
    /\ ProposalsFit /\ ReplacersTakeNoLocks
    /\ NothingOverlaps

USE CallsAssumption, TargetAssumption, VersionAssumption

----------------------------------------------------------------------------
\* A timetable is a function from some of the sessions to their records.
LEMMA TimetableFacts ==
    ASSUME NEW table
    PROVE  table \in Timetables <=>
              DOMAIN table \subseteq Sessions /\ table \in [DOMAIN table -> SessionRecords]
BY DEF Timetables

\* Nothing is a timetable without sessions.
LEMMA NothingFacts == Nothing \in Timetables /\ DOMAIN Nothing = {}
<1>1. Nothing \in [{} -> SessionRecords] /\ DOMAIN Nothing = {}
  BY DEF Nothing
<1>2. {} \in SUBSET Sessions
  OBVIOUS
<1> QED BY <1>1, <1>2 DEF Timetables

\* A single session is a timetable.
LEMMA OneIsATimetable ==
    ASSUME NEW i \in Sessions, NEW table \in [{i} -> SessionRecords]
    PROVE  table \in Timetables
BY DEF Timetables

\* Who overlaps with whom does not depend on whose turn it is to ask.
LEMMA OverlapIsMutual == \A a, b : Overlap(a, b) => Overlap(b, a)
BY DEF Overlap

----------------------------------------------------------------------------
\* Nothing is stored, and nobody has read anything, at first.
LEMMA BookingInitially == Init => BookingInv
<1> SUFFICES ASSUME Init PROVE BookingInv
  OBVIOUS
<1>1. TypeOK
  BY NothingFacts DEF Init, TypeOK
<1>2. \A c \in Calls : pc[c] = "idle" /\ DOMAIN base[c] = {}
  BY NothingFacts DEF Init, Calls
<1>3. DOMAIN timetable = {}
  BY NothingFacts DEF Init
<1> QED
  BY <1>1, <1>2, <1>3 DEF BookingInv, WritesFit, ReadingsHold, LocksExclude, CheckedWritesFit,
     ProposalsFit, NothingOverlaps, ReplacersTakeNoLocks, Calls, Manual, Editors, Underway

\* A call that ends takes nothing with it: what is known of the others stays.
\* (The timetable may have changed; these parts do not look at it.)
LEMMA FinishKeeps ==
    ASSUME BookingInv, NEW c \in Calls, NEW outcome \in {"saved", "failed"},
           Finish(c, outcome)
    PROVE  /\ pc' \in [Calls -> {"idle", "ready", "locked", "saved", "failed"}]
           /\ base' \in [Calls -> Timetables] /\ value' \in [Calls -> Timetables]
           /\ WritesFit' /\ LocksExclude' /\ ProposalsFit' /\ ReplacersTakeNoLocks'
           /\ \A d \in Calls \ {c} : /\ pc'[d] = pc[d] /\ base'[d] = base[d]
                                     /\ value'[d] = value[d]
           /\ pc'[c] = outcome /\ DOMAIN base'[c] = {}
<1> USE DEF BookingInv
<1>1. \A d \in Calls : /\ d # c => /\ pc'[d] = pc[d] /\ base'[d] = base[d]
                                   /\ value'[d] = value[d]
                       /\ d = c => pc'[d] = outcome /\ base'[d] = Nothing
  BY DEF Finish, TypeOK, Calls
<1>2. /\ pc' \in [Calls -> {"idle", "ready", "locked", "saved", "failed"}]
      /\ base' \in [Calls -> Timetables] /\ value' \in [Calls -> Timetables]
  BY NothingFacts DEF Finish, TypeOK, Calls
<1>3. WritesFit'
  BY <1>1 DEF WritesFit, Calls, Manual, Editors, Underway
<1>4. LocksExclude'
  BY <1>1 DEF LocksExclude, Locks, Calls
<1>5. ProposalsFit'
  BY <1>1 DEF ProposalsFit, ConflictFree, Calls
<1>6. ReplacersTakeNoLocks'
  BY <1>1 DEF ReplacersTakeNoLocks, Calls
<1> QED
  BY <1>1, <1>2, <1>3, <1>4, <1>5, <1>6, NothingFacts

\* What a call writes is prepared from what it read just then.
LEMMA PrepareInv ==
    ASSUME BookingInv, NEW c \in Manual, pc[c] = "idle",
           NEW read \in Timetables, NEW record \in SessionRecords,
           Prepare(c, read, One(Target[c], record)),
           \A i \in DOMAIN read : Stored(i) /\ read[i] = timetable[i],
           c \in Editors =>
              /\ read \in [{Target[c]} -> SessionRecords]
              /\ record.version = read[Target[c]].version + 1
              /\ record.uses = read[Target[c]].uses,
           c \in Lockers => record.slot = read[Target[c]].slot
    PROVE  BookingInv'
<1> USE DEF BookingInv
<1> DEFINE written == One(Target[c], record)
<1>1. /\ written \in [{Target[c]} -> SessionRecords] /\ written[Target[c]] = record
      /\ written \in Timetables /\ c \in Calls /\ c \notin Replacers
  BY OneIsATimetable DEF One, Calls, Manual
<1>2. \A d \in Calls :
        /\ d # c => pc'[d] = pc[d] /\ base'[d] = base[d] /\ value'[d] = value[d]
        /\ d = c => pc'[d] = "ready" /\ base'[d] = read /\ value'[d] = written
  BY DEF Prepare, TypeOK, Calls
<1>3. timetable' = timetable /\ deleted' = deleted
  BY DEF Prepare
<1>4. TypeOK'
  BY <1>1, <1>3 DEF Prepare, TypeOK
<1>5. WritesFit'
  <2>2. ASSUME NEW d \in Manual, pc'[d] \in Underway
        PROVE  value'[d] \in [{Target[d]} -> SessionRecords]
    BY <1>1, <1>2, <2>2 DEF WritesFit, Calls
  <2>3. ASSUME NEW d \in Editors, pc'[d] \in Underway
        PROVE  /\ base'[d] \in [{Target[d]} -> SessionRecords]
               /\ value'[d][Target[d]].version = base'[d][Target[d]].version + 1
               /\ value'[d][Target[d]].uses = base'[d][Target[d]].uses
    <3>1. d \in Calls
      BY DEF Editors, Manual, Calls
    <3>2. CASE d = c
      <4>1. base'[d] = read /\ value'[d][Target[d]] = record
        BY <1>1, <1>2, <3>1, <3>2
      <4> HIDE DEF written
      <4> QED BY <2>3, <3>2, <4>1
    <3>3. CASE d # c
      BY <1>2, <2>3, <3>1, <3>3 DEF WritesFit
    <3> QED BY <3>2, <3>3
  <2>4. ASSUME NEW d \in Lockers, pc'[d] \in Underway
        PROVE  value'[d][Target[d]].slot = base'[d][Target[d]].slot
    <3>1. d \in Calls
      BY DEF Manual, Calls
    <3>2. CASE d = c
      BY <1>1, <1>2, <2>4, <3>1, <3>2
    <3>3. CASE d # c
      BY <1>2, <2>4, <3>1, <3>3 DEF WritesFit
    <3> QED BY <3>2, <3>3
  <2> HIDE DEF written
  <2> QED BY <2>2, <2>3, <2>4 DEF WritesFit
<1>6. ReadingsHold'
  <2> SUFFICES ASSUME NEW d \in Calls, NEW i \in DOMAIN base'[d] \ deleted
               PROVE  /\ Stored(i)
                      /\ base'[d][i].version <= timetable[i].version
                      /\ base'[d][i].version = timetable[i].version =>
                            base'[d][i] = timetable[i]
    BY <1>3 DEF ReadingsHold, Stored
  <2>1. CASE d = c
    <3>1. Stored(i) /\ base'[d][i] = timetable[i]
      BY <1>2, <2>1
    <3>2. timetable[i].version \in Int
      BY <3>1, TimetableFacts DEF TypeOK, Stored, SessionRecords
    <3> QED BY <3>1, <3>2
  <2>2. CASE d # c
    BY <1>2, <2>2 DEF ReadingsHold
  <2> QED BY <2>1, <2>2
<1>7. LocksExclude' /\ CheckedWritesFit'
  BY <1>2, <1>3 DEF LocksExclude, CheckedWritesFit, Locks, ConflictFree, Calls
<1>8. ProposalsFit' /\ ReplacersTakeNoLocks'
  BY <1>1, <1>2 DEF ProposalsFit, ReplacersTakeNoLocks, ConflictFree, Calls
<1>9. NothingOverlaps'
  BY <1>3 DEF NothingOverlaps
<1> QED BY <1>4, <1>5, <1>6, <1>7, <1>8, <1>9

\* A creation prepares an unlocked session of version zero.
LEMMA CreateInv ==
    ASSUME BookingInv, NEW c \in Creators, Create(c)
    PROVE  BookingInv'
<1>1. PICK slot \in Slots, uses \in Uses :
        Prepare(c, Nothing, One(Target[c],
                [slot |-> slot, uses |-> uses, locked |-> FALSE, version |-> 0]))
  BY DEF Create
<1>2. [slot |-> slot, uses |-> uses, locked |-> FALSE, version |-> 0] \in SessionRecords
  BY DEF SessionRecords
<1>3. c \in Manual /\ c \notin Editors /\ c \notin Lockers
  BY DEF Manual, Editors
<1>4. pc[c] = "idle"
  BY DEF Create
<1> QED BY ONLY BookingInv, <1>1, <1>2, <1>3, <1>4, NothingFacts, PrepareInv

\* An edit of the session as it is stored, by one version.
LEMMA EditInv ==
    ASSUME BookingInv, NEW c \in Editors, pc[c] = "idle", Stored(Target[c]),
           NEW record \in SessionRecords,
           record.version = timetable[Target[c]].version + 1,
           record.uses = timetable[Target[c]].uses,
           c \in Lockers => record.slot = timetable[Target[c]].slot,
           Prepare(c, One(Target[c], timetable[Target[c]]), One(Target[c], record))
    PROVE  BookingInv'
<1> DEFINE i == Target[c]
           read == One(i, timetable[i])
<1>1. c \in Manual /\ i \in Sessions
  BY DEF Manual, Editors
<1>2. timetable[i] \in SessionRecords
  BY TimetableFacts DEF BookingInv, TypeOK, Stored
<1>3. read \in [{i} -> SessionRecords] /\ read[i] = timetable[i]
  BY <1>2 DEF One
<1>4. read \in Timetables /\ \A j \in DOMAIN read : Stored(j) /\ read[j] = timetable[j]
  BY <1>1, <1>3, OneIsATimetable
<1>5. Prepare(c, read, One(i, record))
  OBVIOUS
<1> HIDE DEF read
<1> QED BY <1>1, <1>3, <1>4, <1>5, PrepareInv

\* Changing a field and the version of a record leaves the rest of it alone.
LEMMA EditedRecord ==
    ASSUME NEW old \in SessionRecords, old.version < MaxVersion
    PROVE  /\ \A slot \in Slots :
                LET moved == [old EXCEPT !.slot = slot, !.version = @ + 1]
                IN  /\ moved \in SessionRecords /\ moved.version = old.version + 1
                    /\ moved.uses = old.uses
           /\ \A flag \in BOOLEAN :
                LET flagged == [old EXCEPT !.locked = flag, !.version = @ + 1]
                IN  /\ flagged \in SessionRecords /\ flagged.version = old.version + 1
                    /\ flagged.uses = old.uses /\ flagged.slot = old.slot
<1>1. old.version + 1 \in 0..MaxVersion
  BY DEF SessionRecords
<1> QED BY <1>1 DEF SessionRecords

\* A move changes the slot only.
LEMMA MoveInv ==
    ASSUME BookingInv, NEW c \in Movers, Move(c)
    PROVE  BookingInv'
<1> DEFINE i == Target[c]
<1>1. PICK slot \in Slots :
        Prepare(c, One(i, timetable[i]),
                One(i, [timetable[i] EXCEPT !.slot = slot, !.version = @ + 1]))
  BY DEF Move
<1>2. pc[c] = "idle" /\ Stored(i) /\ timetable[i].version < MaxVersion
  BY DEF Move
<1>3. timetable[i] \in SessionRecords
  BY <1>2, TimetableFacts DEF BookingInv, TypeOK, Stored
<1> DEFINE record == [timetable[i] EXCEPT !.slot = slot, !.version = @ + 1]
<1>4. /\ record \in SessionRecords /\ record.version = timetable[i].version + 1
      /\ record.uses = timetable[i].uses
  BY <1>2, <1>3, EditedRecord
<1>5. c \in Editors /\ c \notin Lockers
  BY DEF Editors
<1> HIDE DEF record
<1>6. Prepare(c, One(i, timetable[i]), One(i, record))
  BY <1>1 DEF record
<1> QED BY <1>2, <1>4, <1>5, <1>6, EditInv

\* Setting the lock flag changes nothing else.
LEMMA SetLockInv ==
    ASSUME BookingInv, NEW c \in Lockers, SetLock(c)
    PROVE  BookingInv'
<1> DEFINE i == Target[c]
<1>1. PICK flag \in BOOLEAN :
        Prepare(c, One(i, timetable[i]),
                One(i, [timetable[i] EXCEPT !.locked = flag, !.version = @ + 1]))
  BY DEF SetLock
<1>2. pc[c] = "idle" /\ Stored(i) /\ timetable[i].version < MaxVersion
  BY DEF SetLock
<1>3. timetable[i] \in SessionRecords
  BY <1>2, TimetableFacts DEF BookingInv, TypeOK, Stored
<1> DEFINE record == [timetable[i] EXCEPT !.locked = flag, !.version = @ + 1]
<1>4. /\ record \in SessionRecords /\ record.version = timetable[i].version + 1
      /\ record.uses = timetable[i].uses /\ record.slot = timetable[i].slot
  BY <1>2, <1>3, EditedRecord
<1>5. c \in Editors
  BY DEF Editors
<1> HIDE DEF record
<1>6. Prepare(c, One(i, timetable[i]), One(i, record))
  BY <1>1 DEF record
<1> QED BY <1>2, <1>4, <1>5, <1>6, EditInv

\* A call whose locks exclude those of the others, and whose write was checked
\* against what is stored, enters its transaction.
LEMMA AcquireInv ==
    ASSUME BookingInv, NEW c \in Manual, Acquire(c)
    PROVE  BookingInv'
<1> USE DEF BookingInv
<1>1. UNCHANGED <<timetable, deleted, base, value>> /\ pc[c] = "ready" /\ c \in Calls
  BY DEF Acquire, Calls
<1>2. \A d \in Calls : /\ d # c => pc'[d] = pc[d]
                       /\ d = c => pc'[d] = "locked"
  BY DEF Acquire, TypeOK, Calls
<1>3. TypeOK'
  BY <1>1 DEF Acquire, TypeOK
<1>4. WritesFit' /\ ReadingsHold'
  BY <1>1, <1>2 DEF WritesFit, ReadingsHold, Stored, Calls, Manual, Editors, Underway
<1>5. LocksExclude'
  <2>1. \A d \in Manual : pc[d] = "locked" => Locks(d) \cap Locks(c) = {}
    BY DEF Acquire, TryLocks, InTransaction
  <2> QED BY <1>1, <1>2, <2>1 DEF LocksExclude, Locks, Calls
<1>6. CheckedWritesFit'
  <2>1. c \notin Lockers => ConflictFree(Target[c], value[c][Target[c]], timetable)
    BY DEF Acquire
  <2> QED BY <1>1, <1>2, <2>1 DEF CheckedWritesFit, ConflictFree, Calls
<1>7. ProposalsFit' /\ ReplacersTakeNoLocks' /\ NothingOverlaps'
  BY <1>1, <1>2 DEF ProposalsFit, ReplacersTakeNoLocks, NothingOverlaps, ConflictFree, Calls
<1> QED BY <1>3, <1>4, <1>5, <1>6, <1>7

\* A call that is refused leaves everything as it was.
LEMMA RefuseInv ==
    ASSUME BookingInv, NEW c \in Calls, Refuse(c)
    PROVE  BookingInv'
<1> USE DEF BookingInv
<1>1. Finish(c, "failed") /\ timetable' = timetable /\ deleted' = deleted
  BY DEF Refuse
<1>2. /\ pc' \in [Calls -> {"idle", "ready", "locked", "saved", "failed"}]
      /\ base' \in [Calls -> Timetables] /\ value' \in [Calls -> Timetables]
      /\ WritesFit' /\ LocksExclude' /\ ProposalsFit' /\ ReplacersTakeNoLocks'
      /\ \A d \in Calls \ {c} : /\ pc'[d] = pc[d] /\ base'[d] = base[d]
                                /\ value'[d] = value[d]
      /\ pc'[c] = "failed" /\ DOMAIN base'[c] = {}
  BY ONLY BookingInv, <1>1, FinishKeeps, "failed" \in {"saved", "failed"}
<1>3. TypeOK'
  BY <1>1, <1>2 DEF TypeOK, Calls
<1>4. ReadingsHold'
  BY <1>1, <1>2 DEF ReadingsHold, Stored
<1>5. CheckedWritesFit' /\ NothingOverlaps'
  BY <1>1, <1>2 DEF CheckedWritesFit, NothingOverlaps, ConflictFree, Calls
<1> QED BY <1>2, <1>3, <1>4, <1>5

\* An editor that finds the version it has read finds the session it has read.
LEMMA VersionsTell ==
    ASSUME BookingInv, NEW c \in Editors, pc[c] = "locked", IsCurrent(c),
           Target[c] \notin deleted
    PROVE  base[c][Target[c]] = timetable[Target[c]]
<1>1. DOMAIN base[c] = {Target[c]} /\ c \in Calls /\ c \notin Creators
  BY DEF BookingInv, WritesFit, Calls, Manual, Editors, Underway
<1>2. timetable[Target[c]].version = base[c][Target[c]].version
  BY <1>1 DEF IsCurrent
<1> QED BY <1>1, <1>2 DEF BookingInv, ReadingsHold

\* A write is stored that fits what is stored and what the others will store.
LEMMA SaveInv ==
    ASSUME BookingInv, NEW c \in Manual, Save(c)
    PROVE  BookingInv'
<1> USE DEF BookingInv
<1> DEFINE i == Target[c]
<1>1. /\ Finish(c, "saved") /\ deleted' = deleted /\ pc[c] = "locked" /\ IsCurrent(c)
      /\ timetable' = [j \in DOMAIN timetable \cup {i} |->
            IF j = i THEN value[c][j] ELSE timetable[j]]
      /\ c \in Calls /\ i \in Sessions
  BY DEF Save, Calls
<1>2. /\ pc' \in [Calls -> {"idle", "ready", "locked", "saved", "failed"}]
      /\ base' \in [Calls -> Timetables] /\ value' \in [Calls -> Timetables]
      /\ WritesFit' /\ LocksExclude' /\ ProposalsFit' /\ ReplacersTakeNoLocks'
      /\ \A d \in Calls \ {c} : /\ pc'[d] = pc[d] /\ base'[d] = base[d]
                                /\ value'[d] = value[d]
      /\ pc'[c] = "saved" /\ DOMAIN base'[c] = {}
  BY ONLY BookingInv, <1>1, FinishKeeps, "saved" \in {"saved", "failed"}
<1>3. value[c] \in [{i} -> SessionRecords] /\ value[c][i] \in SessionRecords
  BY <1>1 DEF WritesFit, Underway
<1>4. /\ DOMAIN timetable' = DOMAIN timetable \cup {i} /\ timetable'[i] = value[c][i]
      /\ \A j \in DOMAIN timetable \ {i} : timetable'[j] = timetable[j]
  BY <1>1
<1>5. DOMAIN timetable \subseteq Sessions /\ timetable \in [DOMAIN timetable -> SessionRecords]
  BY TimetableFacts DEF TypeOK
<1>6. TypeOK'
  <2>1. timetable' \in [DOMAIN timetable \cup {i} -> SessionRecords]
    BY <1>1, <1>3, <1>5
  <2>2. timetable' \in Timetables
    BY <1>1, <1>4, <1>5, <2>1, TimetableFacts
  <2> QED BY <1>1, <1>2, <2>2 DEF TypeOK, Calls
<1>7. c \in Editors => /\ i \in DOMAIN timetable
                       /\ value[c][i].version = timetable[i].version + 1
  BY <1>1 DEF WritesFit, IsCurrent, Stored, Editors, Underway
<1>8. c \notin Editors => i \notin DOMAIN timetable
  BY <1>1 DEF IsCurrent, Stored, Manual, Editors
<1>9. ReadingsHold'
  <2> SUFFICES ASSUME NEW d \in Calls, NEW j \in DOMAIN base'[d] \ deleted
               PROVE  /\ j \in DOMAIN timetable'
                      /\ base'[d][j].version <= timetable'[j].version
                      /\ base'[d][j].version = timetable'[j].version =>
                            base'[d][j] = timetable'[j]
    BY <1>1 DEF ReadingsHold, Stored
  <2>1. d # c /\ base'[d] = base[d]
    BY <1>2
  <2>2. /\ j \in DOMAIN timetable
        /\ base[d][j].version <= timetable[j].version
        /\ base[d][j].version = timetable[j].version => base[d][j] = timetable[j]
    BY <2>1 DEF ReadingsHold, Stored
  <2>3. CASE j = i
    <3>1. base[d][j].version \in Int /\ timetable[j].version \in Int
      <4>1. base[d][j] \in SessionRecords
        BY <2>1, TimetableFacts DEF TypeOK, Calls
      <4> QED BY <4>1, <1>5, <2>2 DEF SessionRecords
    <3>2. timetable'[j].version = timetable[j].version + 1
      BY <1>4, <1>7, <1>8, <2>2, <2>3
    <3> QED BY <1>4, <2>1, <2>2, <3>1, <3>2
  <2>4. CASE j # i
    BY <1>4, <2>1, <2>2, <2>4
  <2> QED BY <2>3, <2>4
<1>10. CheckedWritesFit'
  <2> SUFFICES ASSUME NEW d \in Manual \ Lockers, pc'[d] = "locked",
                      NEW j \in DOMAIN timetable' \ {Target[d]}
               PROVE  ~Overlap(value'[d][Target[d]], timetable'[j])
    BY DEF CheckedWritesFit, ConflictFree
  <2>1. d # c /\ pc[d] = "locked" /\ value'[d] = value[d]
    BY <1>2 DEF Calls
  <2>2. CASE j = i
    <3>1. Locks(d) \cap Locks(c) = {}
      BY <1>1, <2>1 DEF LocksExclude
    <3> QED BY <1>4, <2>1, <2>2, <3>1 DEF Locks, Overlap
  <2>3. CASE j # i
    BY <1>4, <2>1, <2>3 DEF CheckedWritesFit, ConflictFree
  <2> QED BY <2>2, <2>3
<1>11. NothingOverlaps'
  <2>1. ASSUME NEW j \in DOMAIN timetable \ deleted, j # i, i \notin deleted
        PROVE  ~Overlap(value[c][i], timetable[j])
    <3>1. CASE c \in Lockers
      <4>1. /\ i \in DOMAIN timetable /\ base[c][i] = timetable[i]
        BY <1>1, <1>7, <2>1, <3>1, VersionsTell DEF Editors
      <4>2. value[c][i].slot = timetable[i].slot /\ value[c][i].uses = timetable[i].uses
        BY <1>1, <3>1, <4>1 DEF WritesFit, Editors, Underway
      <4> QED BY <2>1, <4>1, <4>2 DEF NothingOverlaps, Overlap
    <3>2. CASE c \notin Lockers
      BY <1>1, <2>1, <3>2 DEF CheckedWritesFit, ConflictFree
    <3> QED BY <3>1, <3>2
  <2> SUFFICES ASSUME NEW j \in DOMAIN timetable' \ deleted,
                      NEW k \in DOMAIN timetable' \ deleted, j # k
               PROVE  ~Overlap(timetable'[j], timetable'[k])
    BY <1>1 DEF NothingOverlaps
  <2>2. CASE j # i /\ k # i
    BY <1>4, <2>2 DEF NothingOverlaps
  <2>3. CASE j = i
    BY <1>4, <2>1, <2>3
  <2>4. CASE k = i
    BY <1>4, <2>1, <2>4, OverlapIsMutual
  <2> QED BY <2>2, <2>3, <2>4
<1> QED BY <1>2, <1>6, <1>9, <1>10, <1>11

----------------------------------------------------------------------------
\* A proposal is made of the timetable as it is, and free of conflicts in itself.
LEMMA GenerateInv ==
    ASSUME BookingInv, NEW g \in Replacers, Generate(g)
    PROVE  BookingInv'
<1> USE DEF BookingInv
<1>1. PICK p \in Proposals(timetable) : Prepare(g, timetable, p)
  BY DEF Generate
<1>2. p \in Timetables /\ \A i \in DOMAIN p : ConflictFree(i, p[i], p)
  BY DEF Proposals
<1>3. g \in Calls /\ g \notin Manual /\ timetable' = timetable /\ deleted' = deleted
  BY <1>1 DEF Calls, Prepare
<1>4. \A d \in Calls :
        /\ d # g => pc'[d] = pc[d] /\ base'[d] = base[d] /\ value'[d] = value[d]
        /\ d = g => pc'[d] = "ready" /\ base'[d] = timetable /\ value'[d] = p
  BY <1>1 DEF Prepare, TypeOK, Calls
<1>5. TypeOK'
  BY <1>1, <1>2, <1>3 DEF Prepare, TypeOK
<1>6. WritesFit' /\ LocksExclude' /\ CheckedWritesFit'
  <2>1. \A d \in Manual : pc'[d] = pc[d] /\ base'[d] = base[d] /\ value'[d] = value[d]
    BY <1>3, <1>4 DEF Calls
  <2>2. Editors \subseteq Manual /\ Lockers \subseteq Manual
    BY DEF Editors, Manual
  <2>3. WritesFit'
    BY <2>1, <2>2 DEF WritesFit
  <2>4. LocksExclude'
    BY <2>1 DEF LocksExclude, Locks
  <2>5. CheckedWritesFit'
    BY <1>3, <2>1 DEF CheckedWritesFit, ConflictFree
  <2> QED BY <2>3, <2>4, <2>5
<1>7. ReadingsHold'
  <2>1. \A i \in DOMAIN timetable : timetable[i].version \in Int
    BY TimetableFacts DEF TypeOK, SessionRecords
  <2> QED BY <1>3, <1>4, <2>1 DEF ReadingsHold, Stored
<1>8. ProposalsFit' /\ ReplacersTakeNoLocks' /\ NothingOverlaps'
  BY <1>2, <1>3, <1>4
     DEF ProposalsFit, ReplacersTakeNoLocks, NothingOverlaps, ConflictFree, Calls
<1> QED BY <1>5, <1>6, <1>7, <1>8

\* What a replacement stores: every session where it was proposed; a session that
\* was stored is a later version of itself, or itself if it is locked.
LEMMA ReplacementFacts ==
    ASSUME BookingInv, NEW g \in Replacers, ReplaceSchedule(g)
    PROVE  /\ timetable' \in Timetables /\ DOMAIN timetable' = DOMAIN value[g]
           /\ \A i \in DOMAIN value[g] :
                /\ timetable'[i].slot = value[g][i].slot
                /\ timetable'[i].uses = value[g][i].uses
                /\ Stored(i) => \/ timetable'[i] = timetable[i]
                                \/ timetable'[i].version = timetable[i].version + 1
<1> USE DEF BookingInv
<1> DEFINE later(i) == [value[g][i] EXCEPT !.version = timetable[i].version + 1]
<1>1. timetable' = [i \in DOMAIN value[g] |->
          IF Stored(i) /\ i \notin Locked(timetable) THEN later(i) ELSE value[g][i]]
  BY DEF ReplaceSchedule
<1>2. \A i \in DOMAIN value[g] : Stored(i) => timetable[i].version < MaxVersion
  BY DEF ReplaceSchedule
<1>3. \A i \in Locked(timetable) : i \in DOMAIN value[g] /\ value[g][i] = timetable[i]
  BY DEF ReplaceSchedule
<1>4. /\ DOMAIN value[g] \subseteq Sessions
      /\ \A i \in DOMAIN value[g] : value[g][i] \in SessionRecords
  BY TimetableFacts DEF TypeOK, Calls
<1>5. \A i \in DOMAIN timetable : timetable[i] \in SessionRecords
  BY TimetableFacts DEF TypeOK
<1>6. ASSUME NEW i \in DOMAIN value[g], Stored(i)
      PROVE  /\ later(i) \in SessionRecords /\ later(i).version = timetable[i].version + 1
             /\ later(i).slot = value[g][i].slot /\ later(i).uses = value[g][i].uses
  <2>1. timetable[i].version + 1 \in 0..MaxVersion
    BY <1>2, <1>5, <1>6 DEF Stored, SessionRecords
  <2> QED BY <1>4, <2>1 DEF SessionRecords
<1> HIDE DEF later
<1>7. timetable' \in [DOMAIN value[g] -> SessionRecords]
  BY <1>1, <1>4, <1>6
<1>8. timetable' \in Timetables /\ DOMAIN timetable' = DOMAIN value[g]
  BY <1>4, <1>7, TimetableFacts
<1>9. ASSUME NEW i \in DOMAIN value[g]
      PROVE  /\ timetable'[i].slot = value[g][i].slot
             /\ timetable'[i].uses = value[g][i].uses
             /\ Stored(i) => \/ timetable'[i] = timetable[i]
                             \/ timetable'[i].version = timetable[i].version + 1
  BY <1>1, <1>3, <1>6
<1> QED BY <1>8, <1>9

\* A replacement stores a timetable without conflicts, in nobody's transaction.
LEMMA ReplaceInv ==
    ASSUME BookingInv, NEW g \in Replacers, ReplaceSchedule(g)
    PROVE  BookingInv'
<1> USE DEF BookingInv
<1>1. /\ timetable' \in Timetables /\ DOMAIN timetable' = DOMAIN value[g]
      /\ \A i \in DOMAIN value[g] :
            /\ timetable'[i].slot = value[g][i].slot
            /\ timetable'[i].uses = value[g][i].uses
            /\ Stored(i) => \/ timetable'[i] = timetable[i]
                            \/ timetable'[i].version = timetable[i].version + 1
  BY ReplacementFacts
<1>2. /\ Finish(g, "saved") /\ pc[g] = "ready" /\ g \in Calls
      /\ deleted' = deleted \cup (DOMAIN timetable \ DOMAIN value[g])
      /\ \A c \in Manual : pc[c] # "locked"
  BY DEF ReplaceSchedule, TenantFree, InTransaction, Calls
<1>3. /\ pc' \in [Calls -> {"idle", "ready", "locked", "saved", "failed"}]
      /\ base' \in [Calls -> Timetables] /\ value' \in [Calls -> Timetables]
      /\ WritesFit' /\ LocksExclude' /\ ProposalsFit' /\ ReplacersTakeNoLocks'
      /\ \A d \in Calls \ {g} : /\ pc'[d] = pc[d] /\ base'[d] = base[d]
                                /\ value'[d] = value[d]
      /\ pc'[g] = "saved" /\ DOMAIN base'[g] = {}
  BY ONLY BookingInv, <1>2, FinishKeeps, "saved" \in {"saved", "failed"}
<1>4. DOMAIN timetable \subseteq Sessions
  BY TimetableFacts DEF TypeOK
<1>5. TypeOK'
  BY <1>1, <1>2, <1>3, <1>4 DEF TypeOK, Calls
<1>6. ReadingsHold'
  <2> SUFFICES ASSUME NEW d \in Calls, NEW i \in DOMAIN base'[d] \ deleted'
               PROVE  /\ i \in DOMAIN timetable'
                      /\ base'[d][i].version <= timetable'[i].version
                      /\ base'[d][i].version = timetable'[i].version =>
                            base'[d][i] = timetable'[i]
    BY DEF ReadingsHold, Stored
  <2>1. base'[d] = base[d]
    BY <1>3
  <2>2. /\ i \in DOMAIN timetable
        /\ base[d][i].version <= timetable[i].version
        /\ base[d][i].version = timetable[i].version => base[d][i] = timetable[i]
    BY <1>2, <2>1 DEF ReadingsHold, Stored
  <2>3. i \in DOMAIN value[g]
    BY <1>2, <2>2
  <2>4. base[d][i].version \in Int /\ timetable[i].version \in Int
    BY <2>1, <2>2, TimetableFacts DEF TypeOK, Calls, SessionRecords
  <2> QED BY <1>1, <2>1, <2>2, <2>3, <2>4 DEF Stored
<1>7. CheckedWritesFit'
  BY <1>2, <1>3 DEF CheckedWritesFit, Calls, Manual
<1>8. NothingOverlaps'
  <2>1. \A i, j \in DOMAIN value[g] : i # j => ~Overlap(value[g][i], value[g][j])
    BY <1>2 DEF ProposalsFit, ConflictFree
  <2> QED BY <1>1, <2>1 DEF NothingOverlaps, Overlap
<1> QED BY <1>3, <1>5, <1>6, <1>7, <1>8

----------------------------------------------------------------------------
\* Every step keeps the invariant.
LEMMA BookingStep == BookingInv /\ [Next]_vars => BookingInv'
<1> SUFFICES ASSUME BookingInv, [Next]_vars PROVE BookingInv'
  OBVIOUS
<1>1. CASE \E c \in Creators : Create(c)
  BY <1>1, CreateInv
<1>2. CASE \E c \in Movers : Move(c)
  BY <1>2, MoveInv
<1>3. CASE \E c \in Lockers : SetLock(c)
  BY <1>3, SetLockInv
<1>4. CASE \E c \in Manual : Acquire(c) \/ Save(c)
  BY <1>4, AcquireInv, SaveInv
<1>5. CASE \E g \in Replacers : Generate(g) \/ ReplaceSchedule(g)
  BY <1>5, GenerateInv, ReplaceInv
<1>6. CASE \E c \in Manual \cup Replacers : Refuse(c)
  BY <1>6, RefuseInv DEF Calls
<1>7. CASE UNCHANGED vars
  BY <1>7 DEF vars, BookingInv, TypeOK, WritesFit, ReadingsHold, LocksExclude,
     CheckedWritesFit, ProposalsFit, ReplacersTakeNoLocks, NothingOverlaps, Stored, Locks,
     ConflictFree
<1> QED BY <1>1, <1>2, <1>3, <1>4, <1>5, <1>6, <1>7 DEF Next

\* The invariant behind both properties of the timetable.
THEOREM BookingCorrect == Spec => []BookingInv
BY BookingInitially, BookingStep, PTL DEF Spec

\* Rooms, teachers and required groups are never booked twice at one time, however
\* many creations, moves, lock changes and replacements overlap (save_session,
\* replace_generated_schedule).
THEOREM NothingIsDoubleBooked == Spec => []NoDoubleBooking
<1>1. BookingInv => NoDoubleBooking
  BY DEF BookingInv, NothingOverlaps, NoDoubleBooking
<1> QED BY <1>1, BookingCorrect, PTL

\* An edit is saved over the session it has read (save_session's comparison of the
\* version): the calls that end in "saved" are writes, and VersionsTell.
LEMMA EditsBuild ==
    ASSUME BookingInv, [Next]_vars, NEW c \in Editors, pc[c] = "locked", pc'[c] = "saved",
           Target[c] \notin deleted
    PROVE  Stored(Target[c]) /\ base[c][Target[c]] = timetable[Target[c]]
<1> USE DEF BookingInv
<1>1. c \in Manual /\ c \in Calls /\ c \notin Creators /\ c \notin Replacers
  BY DEF Manual, Editors, Calls
<1>2. \A d, record, read : Prepare(d, read, record) => pc'[c] \in {pc[c], "ready"}
  BY <1>1 DEF Prepare, TypeOK, Calls
<1>3. \A d, outcome : Finish(d, outcome) => pc'[c] = IF d = c THEN outcome ELSE pc[c]
  BY <1>1 DEF Finish, TypeOK, Calls
<1>4. ~ \/ \E d \in Creators : Create(d)
        \/ \E d \in Movers : Move(d)
        \/ \E d \in Lockers : SetLock(d)
        \/ \E g \in Replacers : Generate(g)
  BY <1>2 DEF Create, Move, SetLock, Generate
<1>5. ~ \/ \E d \in Manual : Acquire(d)
        \/ \E g \in Replacers : ReplaceSchedule(g)
        \/ \E d \in Manual \cup Replacers : Refuse(d)
        \/ UNCHANGED vars
  <2>1. \A d \in Manual : Acquire(d) => pc'[c] \in {pc[c], "locked"}
    BY <1>1 DEF Acquire, TypeOK, Calls
  <2> QED BY <1>1, <1>3, <2>1 DEF ReplaceSchedule, Refuse, vars
<1>6. Save(c)
  <2>1. PICK d \in Manual : Save(d)
    BY <1>4, <1>5 DEF Next
  <2>2. Finish(d, "saved")
    BY <2>1 DEF Save
  <2> QED BY <1>3, <2>1, <2>2
<1>7. IsCurrent(c)
  BY <1>6 DEF Save
<1> QED BY <1>1, <1>7, VersionsTell DEF IsCurrent

\* A replacement finds the versions it was generated from, and so the timetable
\* (prepare_generated_replacement).
LEMMA ReplacementsBuild ==
    ASSUME BookingInv, [Next]_vars, NEW g \in Replacers, pc[g] = "ready", pc'[g] = "saved"
    PROVE  /\ DOMAIN timetable = DOMAIN base[g]
           /\ \A i \in DOMAIN timetable \ deleted : timetable[i] = base[g][i]
           /\ \A i \in Locked(timetable) :
                 i \in DOMAIN timetable' /\ timetable'[i] = timetable[i]
<1> USE DEF BookingInv
<1>1. g \in Calls /\ g \notin Manual
  BY DEF Calls
<1>2. \A d, record, read : Prepare(d, read, record) => pc'[g] \in {pc[g], "ready"}
  BY <1>1 DEF Prepare, TypeOK, Calls
<1>3. \A d, outcome : Finish(d, outcome) => pc'[g] = IF d = g THEN outcome ELSE pc[g]
  BY <1>1 DEF Finish, TypeOK, Calls
<1>4. ~ \/ \E d \in Creators : Create(d)
        \/ \E d \in Movers : Move(d)
        \/ \E d \in Lockers : SetLock(d)
        \/ \E d \in Replacers : Generate(d)
  BY <1>2 DEF Create, Move, SetLock, Generate
<1>5. ~ \/ \E d \in Manual : Acquire(d) \/ Save(d)
        \/ \E d \in Manual \cup Replacers : Refuse(d)
        \/ UNCHANGED vars
  <2>1. \A d \in Manual : Acquire(d) => pc'[g] = pc[g]
    BY <1>1 DEF Acquire, TypeOK, Calls
  <2>2. \A d \in Manual : ~Save(d)
    BY <1>1, <1>3 DEF Save
  <2> QED BY <1>3, <2>1, <2>2 DEF Refuse, vars
<1>6. ReplaceSchedule(g)
  <2>1. PICK d \in Replacers : ReplaceSchedule(d)
    BY <1>4, <1>5 DEF Next
  <2>2. Finish(d, "saved")
    BY <2>1 DEF ReplaceSchedule
  <2> QED BY <1>3, <2>1, <2>2
<1>7. Versions(timetable) = Versions(base[g])
  BY <1>6 DEF ReplaceSchedule, UnchangedSince
<1>8. /\ DOMAIN timetable = DOMAIN base[g]
      /\ \A i \in DOMAIN timetable : timetable[i].version = base[g][i].version
  BY <1>7 DEF Versions
<1>9. \A i \in DOMAIN timetable \ deleted : timetable[i] = base[g][i]
  BY <1>1, <1>8 DEF ReadingsHold
<1>10. \A i \in Locked(timetable) : i \in DOMAIN timetable' /\ timetable'[i] = timetable[i]
  <2>1. \A i \in Locked(timetable) : i \in DOMAIN value[g] /\ value[g][i] = timetable[i]
    BY <1>6 DEF ReplaceSchedule
  <2>2. timetable' = [i \in DOMAIN value[g] |->
            IF Stored(i) /\ i \notin Locked(timetable)
            THEN [value[g][i] EXCEPT !.version = timetable[i].version + 1]
            ELSE value[g][i]]
    BY <1>6 DEF ReplaceSchedule
  <2> QED BY <2>1, <2>2
<1> QED BY <1>8, <1>9, <1>10

\* No edit and no manual change is lost: whatever changes the timetable is made of
\* what is stored at that moment, although only versions are compared.
THEOREM NoEditIsLost == Spec => ChangesBuildOnWhatIsStored
<1>1. BookingInv /\ [Next]_vars =>
        [\A c \in Movers \cup Lockers :
            pc[c] = "locked" /\ pc'[c] = "saved" /\ Target[c] \notin deleted =>
               Stored(Target[c]) /\ base[c][Target[c]] = timetable[Target[c]]]_vars
  BY EditsBuild DEF Editors
<1>2. BookingInv /\ [Next]_vars =>
        [\A g \in Replacers : pc[g] = "ready" /\ pc'[g] = "saved" =>
            /\ DOMAIN timetable = DOMAIN base[g]
            /\ \A i \in DOMAIN timetable \ deleted : timetable[i] = base[g][i]
            /\ \A i \in Locked(timetable) :
                  i \in DOMAIN timetable' /\ timetable'[i] = timetable[i]]_vars
  BY ReplacementsBuild
<1> QED BY <1>1, <1>2, BookingCorrect, PTL
        DEF Spec, ChangesBuildOnWhatIsStored, EditsBuildOnWhatIsStored, ReplacementIsBound
=============================================================================
