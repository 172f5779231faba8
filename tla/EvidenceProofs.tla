--------------------------- MODULE EvidenceProofs ---------------------------
(***************************************************************************)
(* External evidence keeps its lineage, its resolution is final, runs      *)
(* report what they did and reviewers replace only what they have read, for*)
(* any number of events, deliveries, runs, reviewers and grades.           *)
(*                                                                         *)
(* What the invariants rest on: that a call has written a grade stays true *)
(* of the ledger whatever is written later, so that the link an acceptance *)
(* stores stays backed; a run's counts are accounts of the events it has   *)
(* passed, which others may have stored but nobody removes; and a grade    *)
(* that has been replaced since it was read has a later revision.          *)
(***************************************************************************)
EXTENDS GradeEvidence, FiniteSetTheorems, TLAPS

(***************************************************************************)
(* The ledger.                                                             *)
(***************************************************************************)

Entries == [number : Nat, previous : Authors, replacement : Authors, afterClosure : BOOLEAN]

LedgerFits ==
    /\ termClosed \in BOOLEAN
    /\ grade \in [Enrollments -> Grades \cup {NoGrade}]
    /\ history \in [Enrollments -> Seq(Entries)]

\* Whatever a call has written stays written.
NothingIsUnwritten == \A r \in Authors, e \in Enrollments : Wrote(r, e) => Wrote(r, e)'

\* Appending to a history keeps what it says.
LEMMA HistoryGrows ==
    ASSUME LedgerFits, NEW e \in Enrollments, NEW entry \in Entries,
           history' = [history EXCEPT ![e] = Append(@, entry)]
    PROVE  /\ history' \in [Enrollments -> Seq(Entries)]
           /\ \A f \in Enrollments : \A n \in 1 .. Len(history[f]) :
                 n \in 1 .. Len(history'[f]) /\ history'[f][n] = history[f][n]
<1>1. \A f \in Enrollments :
         history[f] \in Seq(Entries)
         /\ history'[f] = IF f = e THEN Append(history[f], entry) ELSE history[f]
  BY DEF LedgerFits
<1>2. \A s \in Seq(Entries) :
         /\ Append(s, entry) \in Seq(Entries) /\ Len(Append(s, entry)) = Len(s) + 1
         /\ Len(s) \in Nat
         /\ \A n \in 1 .. Len(s) : Append(s, entry)[n] = s[n]
  OBVIOUS
<1>3. history' \in [Enrollments -> Seq(Entries)]
  BY <1>1, <1>2 DEF LedgerFits
<1> QED BY <1>1, <1>2, <1>3

\* Recording a grade writes it.
LEMMA RecordWrites ==
    ASSUME LedgerFits, NEW e \in Enrollments, NEW r \in Authors, Ledger!Record(e, r)
    PROVE  LedgerFits' /\ NothingIsUnwritten /\ Wrote(r, e)'
<1> DEFINE recorded == [score |-> r, revision |-> 0, recordedBy |-> r,
                        recordedAfterClosure |-> termClosed,
                        recordingExplained |-> termClosed]
<1>1. /\ grade[e] = NoGrade /\ UNCHANGED <<termClosed, history>>
      /\ grade' = [grade EXCEPT ![e] = recorded]
  BY DEF Ledger!Record
<1>2. recorded \in Grades /\ recorded.recordedBy = r
  BY DEF LedgerFits, Grades
<1> HIDE DEF recorded
<1>3. LedgerFits'
  BY <1>1, <1>2 DEF LedgerFits
<1>4. \A f \in Enrollments : grade'[f] = IF f = e THEN recorded ELSE grade[f]
  BY <1>1 DEF LedgerFits
<1>5. Wrote(r, e)'
  BY <1>2, <1>4, NoGradeAssumption DEF Wrote
<1>6. NothingIsUnwritten
  BY <1>1, <1>4 DEF NothingIsUnwritten, Wrote
<1> QED BY <1>3, <1>5, <1>6

\* So does revising one, which keeps who recorded it.
LEMMA ReviseWrites ==
    ASSUME LedgerFits, NEW e \in Enrollments, NEW r \in Authors, Ledger!Revise(e, r)
    PROVE  LedgerFits' /\ NothingIsUnwritten /\ Wrote(r, e)'
<1> DEFINE revised == [grade[e] EXCEPT !.score = r, !.revision = grade[e].revision + 1]
           entry == [number |-> grade[e].revision + 1, previous |-> grade[e].score,
                     replacement |-> r, afterClosure |-> termClosed]
<1>1. /\ grade[e] # NoGrade /\ UNCHANGED termClosed
      /\ grade' = [grade EXCEPT ![e] = revised]
      /\ history' = [history EXCEPT ![e] = Append(@, entry)]
  BY DEF Ledger!Revise
<1>2. grade[e] \in Grades
  BY <1>1 DEF LedgerFits
<1>3. revised \in Grades /\ revised.recordedBy = grade[e].recordedBy
  <2>1. \A g \in Grades : \A n \in Nat :
           LET h == [g EXCEPT !.score = r, !.revision = n] IN
           h \in Grades /\ h.recordedBy = g.recordedBy
    BY DEF Grades
  <2>2. grade[e].revision + 1 \in Nat
    BY <1>2 DEF Grades
  <2> QED BY <1>2, <2>1, <2>2
<1>4. entry \in Entries /\ entry.replacement = r
  BY <1>2 DEF Grades, Entries, LedgerFits
<1> HIDE DEF revised, entry
<1>5. /\ history' \in [Enrollments -> Seq(Entries)]
      /\ \A f \in Enrollments : \A n \in 1 .. Len(history[f]) :
            n \in 1 .. Len(history'[f]) /\ history'[f][n] = history[f][n]
  BY <1>1, <1>4, HistoryGrows
<1>6. LedgerFits'
  BY <1>1, <1>3, <1>5 DEF LedgerFits
<1>7. \A f \in Enrollments : grade'[f] = IF f = e THEN revised ELSE grade[f]
  BY <1>1 DEF LedgerFits
<1>8. \A f \in Enrollments : grade[f] # NoGrade =>
         grade'[f] # NoGrade /\ grade'[f].recordedBy = grade[f].recordedBy
  BY <1>3, <1>7, NoGradeAssumption
<1>9. NothingIsUnwritten
  BY <1>5, <1>8 DEF NothingIsUnwritten, Wrote
<1>10. /\ Len(history[e]) + 1 \in 1 .. Len(history'[e])
       /\ history'[e][Len(history[e]) + 1] = entry
  <2>1. history[e] \in Seq(Entries) /\ history'[e] = Append(history[e], entry)
    BY <1>1 DEF LedgerFits
  <2> QED BY <1>4, <2>1
<1>11. Wrote(r, e)'
  BY <1>4, <1>10 DEF Wrote
<1> QED BY <1>6, <1>9, <1>11

\* Steps that leave the ledger alone.
LEMMA LedgerRests ==
    ASSUME LedgerFits, UNCHANGED ledger
    PROVE  LedgerFits' /\ NothingIsUnwritten
BY DEF LedgerFits, ledger, NothingIsUnwritten, Wrote

\* One grade after another: the first one, or a later revision.
Follows(old, new) ==
    new \in Grades /\ (old = NoGrade \/ (old \in Grades /\ old.revision < new.revision))

\* A write gives one enrollment a grade of the writer's that follows the one it had.
LEMMA WriteFollows ==
    ASSUME LedgerFits, NEW e \in Enrollments, NEW x \in Authors,
           Ledger!Record(e, x) \/ Ledger!Revise(e, x)
    PROVE  \A f \in Enrollments :
              \/ grade'[f] = grade[f]
              \/ f = e /\ Follows(grade[f], grade'[f]) /\ grade'[f].score = x
<1>1. CASE Ledger!Record(e, x)
  BY <1>1 DEF Ledger!Record, LedgerFits, Follows, Grades
<1>2. CASE Ledger!Revise(e, x)
  <2>1. ASSUME NEW g \in Grades
        PROVE  LET h == [g EXCEPT !.score = x, !.revision = g.revision + 1] IN
               h \in Grades /\ g.revision < h.revision /\ h.score = x
    <3>1. g.revision \in Nat /\ g.revision + 1 \in Nat /\ g.revision < g.revision + 1
      BY DEF Grades
    <3>2. \A n \in Nat : LET h == [g EXCEPT !.score = x, !.revision = n] IN
             h \in Grades /\ h.revision = n /\ h.score = x
      BY DEF Grades
    <3> QED BY <3>1, <3>2
  <2>2. grade[e] \in Grades
    BY <1>2 DEF LedgerFits, Ledger!Revise
  <2> QED BY <1>2, <2>1, <2>2 DEF Ledger!Revise, LedgerFits, Follows
<1> QED BY <1>1, <1>2

\* What a reviewer's write does to the ledger.
LEMMA WriteGradeWrites ==
    ASSUME LedgerFits, TypeOK, NEW r \in Reviewers, WriteGrade(r)
    PROVE  LedgerFits' /\ NothingIsUnwritten /\ Wrote(r, call[r].target)'
<1>1. PICK e \in Enrollments : e = call[r].target /\ e = call'[r].target
  BY DEF TypeOK, Calls, WriteGrade
<1>2. r \in Authors
  BY DEF Authors
<1>3. CASE Ledger!Record(e, r)
  BY <1>1, <1>2, <1>3, RecordWrites
<1>4. CASE Ledger!Revise(e, r)
  BY <1>1, <1>2, <1>4, ReviseWrites
<1> QED BY <1>1, <1>3, <1>4 DEF WriteGrade, ReviseExpected

\* Ordinary grade writes and the closure.
LEMMA OthersWrite ==
    ASSUME LedgerFits, CloseTerm \/ \E g \in Graders : GradeDirectly(g)
    PROVE  LedgerFits' /\ NothingIsUnwritten
<1>1. CASE CloseTerm
  BY <1>1 DEF CloseTerm, Ledger!Close, LedgerFits, NothingIsUnwritten, Wrote
<1>2. ASSUME NEW g \in Graders, GradeDirectly(g)
      PROVE  LedgerFits' /\ NothingIsUnwritten
  <2>1. g \in Authors
    BY DEF Authors
  <2>2. PICK e \in Enrollments : Ledger!Record(e, g) \/ Ledger!Revise(e, g)
    BY <1>2 DEF GradeDirectly
  <2> QED BY <2>1, <2>2, RecordWrites, ReviseWrites
<1> QED BY <1>1, <1>2

----------------------------------------------------------------------------
(***************************************************************************)
(* Reconciliation runs.                                                    *)
(***************************************************************************)

Stored == {v \in Events : status[v] # "absent"}

\* The account a run gives of the events it has passed.
Account(x, stored) ==
    /\ x \in RunRecords
    /\ x.new <= Cardinality(stored)
    /\ x.status = "planned" =>
          x.left = Events /\ x.new = 0 /\ x.duplicate = 0 /\ x.unmapped = 0
    /\ x.status \in {"running", "succeeded"} =>
          /\ x.new + x.duplicate + x.unmapped = Cardinality(Events \ x.left)
          /\ Cardinality((Events \ x.left) \ stored) <= x.unmapped
    /\ x.status = "succeeded" => x.left = {}

RunsAccount == \A u \in Runs : Account(run[u], Stored)

\* Sets of events can be counted, and no more than all.
LEMMA EventsCount ==
    ASSUME NEW S \in SUBSET Events
    PROVE  /\ IsFiniteSet(S) /\ Cardinality(S) \in Nat
           /\ Cardinality(Events) \in Nat /\ Cardinality(S) <= Cardinality(Events)
<1>1. IsFiniteSet(S) /\ Cardinality(S) <= Cardinality(Events)
  BY EventsAssumption, FS_Subset
<1> QED BY <1>1, EventsAssumption, FS_CardinalityType

\* Of two sets of events the larger has no fewer.
LEMMA SubsetCount ==
    ASSUME NEW T \in SUBSET Events, NEW S \in SUBSET T
    PROVE  Cardinality(S) <= Cardinality(T)
BY EventsCount, FS_Subset

\* An event that is not in a set is one more.
LEMMA OneMore ==
    ASSUME NEW S \in SUBSET Events, NEW v \in Events
    PROVE  Cardinality(S \cup {v}) = IF v \in S THEN Cardinality(S) ELSE Cardinality(S) + 1
BY EventsCount, FS_AddElement

\* An account stays true when more is stored.
LEMMA AccountLasts ==
    ASSUME NEW stored \in SUBSET Events, NEW more \in SUBSET Events, stored \subseteq more,
           NEW x, Account(x, stored)
    PROVE  Account(x, more)
<1>1. Cardinality(stored) <= Cardinality(more)
  BY SubsetCount
<1>2. (Events \ x.left) \ more \in SUBSET ((Events \ x.left) \ stored)
  OBVIOUS
<1>3. Cardinality((Events \ x.left) \ more) <= Cardinality((Events \ x.left) \ stored)
  BY <1>2, SubsetCount
<1>4. /\ Cardinality(stored) \in Nat /\ Cardinality(more) \in Nat
      /\ Cardinality((Events \ x.left) \ more) \in Nat
      /\ Cardinality((Events \ x.left) \ stored) \in Nat
      /\ Cardinality(Events) \in Nat
  <2>1. (Events \ x.left) \ more \in SUBSET Events /\ (Events \ x.left) \ stored \in SUBSET Events
    OBVIOUS
  <2> QED BY <2>1, EventsCount
<1>5. x \in RunRecords /\ x.new \in Nat /\ x.unmapped \in Nat
  BY <1>4 DEF Account, RunRecords
<1> QED BY <1>1, <1>3, <1>4, <1>5 DEF Account

\* An observation is counted once, as new or as a duplicate.
LEMMA AccountObserves ==
    ASSUME NEW stored \in SUBSET Events, NEW x, Account(x, stored), x.status = "running",
           NEW v \in x.left, NEW y \in [status : {"running"}, left : {x.left \ {v}},
               new : {x.new + IF v \in stored THEN 0 ELSE 1},
               duplicate : {x.duplicate + IF v \in stored THEN 1 ELSE 0},
               unmapped : {x.unmapped}]
    PROVE  Account(y, stored \cup {v})
<1>1. x \in RunRecords /\ v \in Events /\ y.left = x.left \ {v} /\ y.unmapped = x.unmapped
  BY DEF Account, RunRecords
<1>2. Events \ y.left = (Events \ x.left) \cup {v} /\ v \notin Events \ x.left
      /\ Events \ x.left \in SUBSET Events /\ Events \ y.left \in SUBSET Events
  BY <1>1
<1>3. Cardinality(Events \ y.left) = Cardinality(Events \ x.left) + 1
  BY <1>1, <1>2, OneMore
<1>4. (Events \ y.left) \ (stored \cup {v}) \in SUBSET ((Events \ x.left) \ stored)
      /\ (Events \ x.left) \ stored \in SUBSET Events
  BY <1>2
<1>5. Cardinality((Events \ y.left) \ (stored \cup {v})) <= Cardinality((Events \ x.left) \ stored)
  BY <1>4, SubsetCount
<1>6. Cardinality(stored \cup {v})
         = IF v \in stored THEN Cardinality(stored) ELSE Cardinality(stored) + 1
  BY <1>1, OneMore
<1>7. /\ Cardinality(stored) \in Nat /\ Cardinality(Events) \in Nat
      /\ Cardinality(Events \ x.left) \in Nat
      /\ Cardinality(Events \ y.left) \in Nat
      /\ Cardinality(Events \ y.left) <= Cardinality(Events)
      /\ Cardinality((Events \ x.left) \ stored) \in Nat
      /\ Cardinality((Events \ y.left) \ (stored \cup {v})) \in Nat
  <2>1. (Events \ y.left) \ (stored \cup {v}) \in SUBSET Events
    OBVIOUS
  <2> QED BY <1>2, <1>4, <2>1, EventsCount
<1>8. x.new \in Nat /\ x.duplicate \in Nat /\ x.unmapped \in Nat
  BY <1>1, <1>7 DEF RunRecords
<1>9. x.new + x.duplicate + x.unmapped = Cardinality(Events \ x.left)
      /\ Cardinality((Events \ x.left) \ stored) <= x.unmapped
      /\ x.new <= Cardinality(stored)
  BY DEF Account
<1>10. y.new + y.duplicate + y.unmapped = Cardinality(Events \ y.left)
       /\ y.new \in Nat /\ y.duplicate \in Nat /\ y.unmapped \in Nat
       /\ y.new <= Cardinality(stored \cup {v})
  <2>1. CASE v \in stored
    <3>1. y.new = x.new + 0 /\ y.duplicate = x.duplicate + 1
      BY <2>1
    <3> QED BY <1>1, <1>3, <1>6, <1>7, <1>8, <1>9, <2>1, <3>1
  <2>2. CASE v \notin stored
    <3>1. y.new = x.new + 1 /\ y.duplicate = x.duplicate + 0
      BY <2>2
    <3> QED BY <1>1, <1>3, <1>6, <1>7, <1>8, <1>9, <2>2, <3>1
  <2> QED BY <2>1, <2>2
<1>11. y \in RunRecords
  <2>1. y.new \in 0 .. Cardinality(Events) /\ y.duplicate \in 0 .. Cardinality(Events)
        /\ y.unmapped \in 0 .. Cardinality(Events)
    BY <1>7, <1>10
  <2>2. y.left \in SUBSET Events
    BY <1>1 DEF RunRecords
  <2> QED BY <2>1, <2>2 DEF RunRecords
<1> QED BY <1>1, <1>5, <1>7, <1>8, <1>9, <1>10, <1>11 DEF Account

\* A learner that is not mapped is counted as that.
LEMMA AccountSkips ==
    ASSUME NEW stored \in SUBSET Events, NEW x, Account(x, stored), x.status = "running",
           NEW v \in x.left, NEW y \in [status : {"running"}, left : {x.left \ {v}},
               new : {x.new}, duplicate : {x.duplicate}, unmapped : {x.unmapped + 1}]
    PROVE  Account(y, stored)
<1>1. x \in RunRecords /\ v \in Events /\ y.left = x.left \ {v} /\ y.unmapped = x.unmapped + 1
      /\ y.new = x.new /\ y.duplicate = x.duplicate
  BY DEF Account, RunRecords
<1>2. Events \ y.left = (Events \ x.left) \cup {v} /\ v \notin Events \ x.left
      /\ Events \ x.left \in SUBSET Events /\ Events \ y.left \in SUBSET Events
  BY <1>1
<1>3. Cardinality(Events \ y.left) = Cardinality(Events \ x.left) + 1
  BY <1>1, <1>2, OneMore
<1>4. /\ (Events \ y.left) \ stored \in SUBSET (((Events \ x.left) \ stored) \cup {v})
      /\ ((Events \ x.left) \ stored) \cup {v} \in SUBSET Events
      /\ (Events \ x.left) \ stored \in SUBSET Events
      /\ (Events \ y.left) \ stored \in SUBSET Events
  BY <1>1, <1>2
<1>5. /\ Cardinality((Events \ y.left) \ stored) <= Cardinality(((Events \ x.left) \ stored) \cup {v})
      /\ Cardinality(((Events \ x.left) \ stored) \cup {v})
            \in {Cardinality((Events \ x.left) \ stored), Cardinality((Events \ x.left) \ stored) + 1}
  BY <1>1, <1>4, SubsetCount, OneMore
<1>6. /\ Cardinality(stored) \in Nat /\ Cardinality(Events) \in Nat
      /\ Cardinality(Events \ x.left) \in Nat
      /\ Cardinality(Events \ y.left) \in Nat
      /\ Cardinality(Events \ y.left) <= Cardinality(Events)
      /\ Cardinality((Events \ x.left) \ stored) \in Nat
      /\ Cardinality((Events \ y.left) \ stored) \in Nat
  BY <1>2, <1>4, EventsCount
<1>7. x.new \in Nat /\ x.duplicate \in Nat /\ x.unmapped \in Nat
  BY <1>1, <1>6 DEF RunRecords
<1>8. x.new + x.duplicate + x.unmapped = Cardinality(Events \ x.left)
      /\ Cardinality((Events \ x.left) \ stored) <= x.unmapped
      /\ x.new <= Cardinality(stored)
  BY DEF Account
<1>9. y.new + y.duplicate + y.unmapped = Cardinality(Events \ y.left)
      /\ Cardinality((Events \ y.left) \ stored) <= y.unmapped
      /\ y.new \in Nat /\ y.duplicate \in Nat /\ y.unmapped \in Nat
  BY <1>1, <1>3, <1>5, <1>6, <1>7, <1>8
<1>10. y \in RunRecords
  <2>1. y.new \in 0 .. Cardinality(Events) /\ y.duplicate \in 0 .. Cardinality(Events)
        /\ y.unmapped \in 0 .. Cardinality(Events)
    BY <1>6, <1>9
  <2>2. y.left \in SUBSET Events
    BY <1>1 DEF RunRecords
  <2> QED BY <2>1, <2>2 DEF RunRecords
<1> QED BY <1>1, <1>8, <1>9, <1>10 DEF Account

\* The steps of runs.
LEMMA RunsKeepAccount ==
    ASSUME TypeOK, RunsAccount, Stored \subseteq Stored', NEW u \in Runs,
           \/ CreateRun(u) \/ CompleteRun(u) \/ FailRun(u)
           \/ \E v \in Events : Observe(u, v) \/ SkipUnmapped(u, v)
    PROVE  RunsAccount'
<1> DEFINE x == run[u]
<1>0. /\ Account(x, Stored) /\ x \in RunRecords /\ run \in [Runs -> RunRecords]
      /\ Stored \in SUBSET Events /\ Stored' \in SUBSET Events
  BY DEF RunsAccount, TypeOK, Stored
<1>1. ASSUME NEW y, run' = [run EXCEPT ![u] = y], Account(y, Stored')
      PROVE  RunsAccount'
  <2>1. ASSUME NEW w \in Runs PROVE Account(run'[w], Stored')
    <3>1. CASE w = u
      BY <1>0, <1>1, <3>1
    <3>2. CASE w # u
      <4>1. run'[w] = run[w] /\ Account(run[w], Stored)
        BY <1>0, <1>1, <3>2 DEF RunsAccount
      <4> QED BY <1>0, <4>1, AccountLasts
    <3> QED BY <3>1, <3>2
  <2> QED BY <2>1 DEF RunsAccount
<1>2. CASE CreateRun(u)
  <2> DEFINE y == [x EXCEPT !.status = "running"]
  <2>1. run' = [run EXCEPT ![u] = y] /\ x.status = "planned"
    BY <1>2 DEF CreateRun
  <2>2. /\ y \in RunRecords /\ y.status = "running" /\ y.left = Events
        /\ y.new = 0 /\ y.duplicate = 0 /\ y.unmapped = 0
    BY <1>0, <2>1 DEF Account, RunRecords
  <2> HIDE DEF y
  <2>3. Cardinality(Events \ y.left) = 0 /\ Cardinality((Events \ y.left) \ Stored') = 0
    <3>1. Events \ y.left = {} /\ (Events \ y.left) \ Stored' = {}
      BY <2>2
    <3> QED BY <3>1, FS_EmptySet
  <2>4. Cardinality(Stored') \in Nat
    BY <1>0, EventsCount
  <2>5. Account(y, Stored')
    BY <2>2, <2>3, <2>4 DEF Account
  <2> QED BY <1>1, <2>1, <2>5
<1>3. CASE CompleteRun(u)
  <2> DEFINE y == [x EXCEPT !.status = "succeeded"]
  <2>1. run' = [run EXCEPT ![u] = y] /\ x.status = "running" /\ x.left = {}
    BY <1>3 DEF CompleteRun
  <2>2. /\ y \in RunRecords /\ y.status = "succeeded" /\ y.left = x.left
        /\ y.new = x.new /\ y.duplicate = x.duplicate /\ y.unmapped = x.unmapped
    BY <1>0 DEF RunRecords
  <2>3. Account(x, Stored')
    BY <1>0, AccountLasts
  <2> HIDE DEF y
  <2>4. Account(y, Stored')
    BY <2>1, <2>2, <2>3 DEF Account
  <2> QED BY <1>1, <2>1, <2>4
<1>4. CASE FailRun(u)
  <2> DEFINE y == [x EXCEPT !.status = "failed", !.new = 0, !.duplicate = 0, !.unmapped = 0]
  <2>1. run' = [run EXCEPT ![u] = y]
    BY <1>4 DEF FailRun
  <2>2. Cardinality(Stored') \in Nat /\ Cardinality(Events) \in Nat
    BY <1>0, EventsCount
  <2>3. y \in RunRecords /\ y.status = "failed" /\ y.new = 0
    <3>1. 0 \in 0 .. Cardinality(Events)
      BY <2>2
    <3>2. \A g \in RunRecords :
             LET h == [g EXCEPT !.status = "failed", !.new = 0, !.duplicate = 0, !.unmapped = 0] IN
             h \in RunRecords /\ h.status = "failed" /\ h.new = 0
      BY <3>1 DEF RunRecords
    <3> QED BY <1>0, <3>2
  <2> HIDE DEF y
  <2>4. Account(y, Stored')
    BY <2>2, <2>3 DEF Account
  <2> QED BY <1>1, <2>1, <2>4
<1>5. ASSUME NEW v \in Events, Observe(u, v) PROVE RunsAccount'
  <2>1. /\ x.status = "running" /\ v \in x.left
        /\ run' = [run EXCEPT ![u].left = @ \ {v},
                              ![u].new = @ + IF status[v] = "absent" THEN 1 ELSE 0,
                              ![u].duplicate = @ + IF status[v] = "absent" THEN 0 ELSE 1]
    BY <1>5 DEF Observe
  <2>2. v \in Stored <=> status[v] # "absent"
    BY DEF Stored
  <2> DEFINE y == [status |-> "running", left |-> x.left \ {v},
                   new |-> x.new + IF v \in Stored THEN 0 ELSE 1,
                   duplicate |-> x.duplicate + IF v \in Stored THEN 1 ELSE 0,
                   unmapped |-> x.unmapped]
  <2>3. run' = [run EXCEPT ![u] = y]
    BY <1>0, <2>1, <2>2 DEF RunRecords
  <2>4. Account(y, Stored \cup {v})
    BY <1>0, <2>1, AccountObserves
  <2>5. Stored \cup {v} \subseteq Stored'
    BY <1>0, <1>5 DEF Observe, AcceptEventOnce, Stored, TypeOK
  <2>6. Account(y, Stored')
    <3> HIDE DEF y
    <3> QED BY <1>0, <2>4, <2>5, AccountLasts
  <2> HIDE DEF y
  <2> QED BY <1>1, <2>3, <2>6
<1>6. ASSUME NEW v \in Events, SkipUnmapped(u, v) PROVE RunsAccount'
  <2>1. /\ x.status = "running" /\ v \in x.left
        /\ run' = [run EXCEPT ![u].left = @ \ {v}, ![u].unmapped = @ + 1]
    BY <1>6 DEF SkipUnmapped
  <2> DEFINE y == [status |-> "running", left |-> x.left \ {v}, new |-> x.new,
                   duplicate |-> x.duplicate, unmapped |-> x.unmapped + 1]
  <2>2. run' = [run EXCEPT ![u] = y]
    BY <1>0, <2>1 DEF RunRecords
  <2>3. Account(y, Stored)
    BY <1>0, <2>1, AccountSkips
  <2>4. Account(y, Stored')
    <3> HIDE DEF y
    <3> QED BY <1>0, <2>3, AccountLasts
  <2> HIDE DEF y
  <2> QED BY <1>1, <2>2, <2>4
<1> QED BY <1>2, <1>3, <1>4, <1>5, <1>6

----------------------------------------------------------------------------
(***************************************************************************)
(* The evidence.                                                           *)
(***************************************************************************)

\* A reviewer about to record an acceptance has written its grade.
WritersHold == \A r \in Reviewers : pc[r] = "link" => Wrote(r, call[r].target)

\* A link names a call on that evidence which has written the grade it was for.
LinksHold == \A v \in Events :
    /\ status[v] = "accepted" => link[v] # Nothing
    /\ status[v] = "rejected" => link[v] = Nothing
    /\ link[v] # Nothing =>
          call[link[v]].event = v /\ Wrote(link[v], call[link[v]].target)

\* What a reviewer has read is the grade still, or one that was replaced since.
Behind(read, stored) ==
    read # NoGrade => stored \in Grades /\ (read = stored \/ read.revision < stored.revision)
ReadingsHold ==
    /\ seen \in [Reviewers -> Grades \cup {NoGrade}]
    /\ \A r \in Reviewers : Behind(seen[r], grade[call[r].target])

EvidenceInv ==
    TypeOK /\ LedgerFits /\ RunsAccount /\ WritersHold /\ LinksHold /\ ReadingsHold

Intakes ==
    \/ \E a \in Senders : \E v \in Events : Deliver(a, v)
    \/ \E a \in Senders \cup Runs : MarkOutcome(a)
    \/ \E a \in Senders : DropDelivery(a)
RunSteps == \E u \in Runs :
    \/ CreateRun(u) \/ CompleteRun(u) \/ FailRun(u)
    \/ \E v \in Events : Observe(u, v) \/ SkipUnmapped(u, v)
Reviews == \E r \in Reviewers :
    \/ GetPendingEvidence(r) \/ LoadCurrent(r) \/ WriteGrade(r)
    \/ RecordAcceptance(r) \/ RecordRejection(r) \/ EndReview(r)
Writes == CloseTerm \/ \E g \in Graders : GradeDirectly(g)

\* Every step is one of these.
LEMMA StepsAre == Next => Intakes \/ RunSteps \/ Reviews \/ Writes
BY DEF Next, Intakes, RunSteps, Reviews, Writes

\* The steps that leave the ledger alone.
LEMMA LedgerStays ==
    ASSUME [Next]_vars, ~Writes, \A r \in Reviewers : ~WriteGrade(r)
    PROVE  UNCHANGED ledger
<1>1. CASE Intakes \/ RunSteps
  BY <1>1 DEF Intakes, RunSteps, Deliver, MarkOutcome, DropDelivery, CreateRun, CompleteRun,
              FailRun, Observe, SkipUnmapped
<1>2. CASE Reviews
  BY <1>2 DEF Reviews, GetPendingEvidence, LoadCurrent, RecordAcceptance, RecordRejection,
              EndReview
<1>3. CASE UNCHANGED vars
  BY <1>3 DEF vars
<1> QED BY <1>1, <1>2, <1>3, StepsAre

\* What was written stays written.
LEMMA LedgerMoves ==
    ASSUME TypeOK, LedgerFits, [Next]_vars
    PROVE  LedgerFits' /\ NothingIsUnwritten
BY LedgerStays, LedgerRests, WriteGradeWrites, OthersWrite DEF Writes

\* The calls are as they were, and evidence that is stored stays stored.
LEMMA EvidenceStays ==
    ASSUME TypeOK, [Next]_vars
    PROVE  call' = call /\ Stored \subseteq Stored'
<1>1. call' = call
  BY DEF Next, vars, review, Deliver, MarkOutcome, DropDelivery, CreateRun, CompleteRun, FailRun,
         Observe, SkipUnmapped, GetPendingEvidence, LoadCurrent, WriteGrade, RecordAcceptance,
         RecordRejection, EndReview, GradeDirectly, CloseTerm
<1>2. CASE UNCHANGED status
  BY <1>1, <1>2 DEF Stored
<1>3. ASSUME NEW a, NEW v \in Events, AcceptEventOnce(a, v)
      PROVE  Stored \subseteq Stored'
  BY <1>3 DEF AcceptEventOnce, Stored, TypeOK
<1>4. ASSUME NEW a \in Senders \cup Runs, MarkOutcome(a)
      PROVE  Stored \subseteq Stored'
  BY <1>4 DEF MarkOutcome, IntakeOutcome, Stored, TypeOK
<1>5. ASSUME NEW r \in Reviewers, RecordAcceptance(r) \/ RecordRejection(r)
      PROVE  Stored \subseteq Stored'
  BY <1>5 DEF RecordAcceptance, RecordRejection, Stored, TypeOK
<1>6. CASE Intakes
  BY <1>1, <1>2, <1>3, <1>4, <1>6 DEF Intakes, Deliver, DropDelivery, evidence
<1>7. CASE RunSteps
  BY <1>1, <1>2, <1>3, <1>7 DEF RunSteps, CreateRun, CompleteRun, FailRun, Observe, SkipUnmapped, evidence
<1>8. CASE Reviews
  BY <1>1, <1>2, <1>5, <1>8 DEF Reviews, GetPendingEvidence, LoadCurrent, WriteGrade, EndReview, evidence
<1>9. CASE Writes
  BY <1>1, <1>2, <1>9 DEF Writes, CloseTerm, GradeDirectly, evidence
<1>10. CASE UNCHANGED vars
  BY <1>1, <1>2, <1>10 DEF vars, evidence
<1> QED BY <1>1, <1>6, <1>7, <1>8, <1>9, <1>10, StepsAre

\* Runs change by their own steps only.
LEMMA AccountsAreKept ==
    ASSUME TypeOK, RunsAccount, [Next]_vars
    PROVE  RunsAccount'
<1>1. Stored \subseteq Stored' /\ Stored \in SUBSET Events /\ Stored' \in SUBSET Events
  BY EvidenceStays DEF Stored
<1>2. CASE RunSteps
  BY <1>1, <1>2, RunsKeepAccount DEF RunSteps
<1>3. CASE UNCHANGED run
  <2>1. ASSUME NEW u \in Runs PROVE Account(run'[u], Stored')
    BY <1>1, <1>3, AccountLasts DEF RunsAccount
  <2> QED BY <2>1 DEF RunsAccount
<1>4. CASE Intakes
  <2>1. UNCHANGED run
    BY <1>4 DEF Intakes, Deliver, MarkOutcome, DropDelivery
  <2> QED BY <1>3, <2>1
<1>5. CASE Reviews
  <2>1. UNCHANGED run
    BY <1>5 DEF Reviews, GetPendingEvidence, LoadCurrent, WriteGrade, RecordAcceptance,
                RecordRejection, EndReview
  <2> QED BY <1>3, <2>1
<1>6. CASE Writes
  <2>1. UNCHANGED run
    BY <1>6 DEF Writes, CloseTerm, GradeDirectly
  <2> QED BY <1>3, <2>1
<1>7. CASE UNCHANGED vars
  BY <1>3, <1>7 DEF vars
<1> QED BY <1>2, <1>4, <1>5, <1>6, <1>7, StepsAre

\* Every step leads to a well-typed state.
LEMMA TypesAreKept ==
    ASSUME TypeOK, RunsAccount, [Next]_vars
    PROVE  TypeOK'
<1>1. call' \in [Reviewers -> Calls]
  BY EvidenceStays DEF TypeOK
<1>2. run' \in [Runs -> RunRecords]
  <2>1. \A u \in Runs : run'[u] \in RunRecords
    BY AccountsAreKept DEF RunsAccount, Account
  <2>2. run' = [u \in Runs |-> run'[u]]
    <3>1. CASE RunSteps
      <4> DEFINE total == run' = [u \in Runs |-> run'[u]]
      <4>1. ASSUME NEW u \in Runs, CreateRun(u) \/ CompleteRun(u) \/ FailRun(u) PROVE total
        BY <4>1 DEF CreateRun, CompleteRun, FailRun, TypeOK
      <4>2. ASSUME NEW u \in Runs, NEW v \in Events, Observe(u, v) PROVE total
        BY <4>2 DEF Observe, TypeOK
      <4>3. ASSUME NEW u \in Runs, NEW v \in Events, SkipUnmapped(u, v) PROVE total
        BY <4>3 DEF SkipUnmapped, TypeOK
      <4> QED BY <3>1, <4>1, <4>2, <4>3 DEF RunSteps
    <3>2. CASE ~RunSteps
      <4>1. UNCHANGED run
        BY <3>2, StepsAre DEF vars, Intakes, Reviews, Writes, Deliver, MarkOutcome, DropDelivery,
           GetPendingEvidence, LoadCurrent, WriteGrade, RecordAcceptance, RecordRejection,
           EndReview, CloseTerm, GradeDirectly
      <4> QED BY <4>1 DEF TypeOK
    <3> QED BY <3>1, <3>2
  <2> QED BY <2>1, <2>2
<1>3. ASSUME NEW a \in Senders \cup Runs, NEW v \in Events, AcceptEventOnce(a, v)
      PROVE  /\ status' \in [Events -> Statuses]
             /\ intake' \in [Senders \cup Runs -> Events \cup {Nothing}]
  BY <1>3 DEF AcceptEventOnce, TypeOK, Statuses
<1>4. CASE Intakes
  <2>1. UNCHANGED <<link, pc>>
    BY <1>4 DEF Intakes, Deliver, MarkOutcome, DropDelivery, evidence, review
  <2>2. /\ status' \in [Events -> Statuses]
        /\ intake' \in [Senders \cup Runs -> Events \cup {Nothing}]
    <3>1. ASSUME NEW a \in Senders, NEW v \in Events, Deliver(a, v)
          PROVE  /\ status' \in [Events -> Statuses]
                 /\ intake' \in [Senders \cup Runs -> Events \cup {Nothing}]
      BY <1>3, <3>1 DEF Deliver
    <3>2. ASSUME NEW a \in Senders \cup Runs, MarkOutcome(a) \/ DropDelivery(a)
          PROVE  /\ status' \in [Events -> Statuses]
                 /\ intake' \in [Senders \cup Runs -> Events \cup {Nothing}]
      BY <3>2 DEF MarkOutcome, DropDelivery, IntakeOutcome, TypeOK, Statuses, evidence
    <3> QED BY <1>4, <3>1, <3>2 DEF Intakes
  <2> QED BY <1>1, <1>2, <2>1, <2>2 DEF TypeOK
<1>5. CASE RunSteps
  <2>1. UNCHANGED <<link, pc>>
    BY <1>5 DEF RunSteps, CreateRun, CompleteRun, FailRun, Observe, SkipUnmapped, evidence, review
  <2>2. /\ status' \in [Events -> Statuses]
        /\ intake' \in [Senders \cup Runs -> Events \cup {Nothing}]
    <3>1. ASSUME NEW u \in Runs, NEW v \in Events, Observe(u, v)
          PROVE  /\ status' \in [Events -> Statuses]
                 /\ intake' \in [Senders \cup Runs -> Events \cup {Nothing}]
      BY <1>3, <3>1 DEF Observe
    <3>2. ASSUME NEW u \in Runs, NEW v \in Events,
                 CreateRun(u) \/ CompleteRun(u) \/ SkipUnmapped(u, v)
          PROVE  UNCHANGED <<status, intake>>
      BY <3>2 DEF CreateRun, CompleteRun, SkipUnmapped, evidence
    <3>3. ASSUME NEW u \in Runs, CreateRun(u) \/ CompleteRun(u)
          PROVE  UNCHANGED <<status, intake>>
      BY <3>3 DEF CreateRun, CompleteRun, evidence
    <3>4. ASSUME NEW u \in Runs, FailRun(u)
          PROVE  /\ status' \in [Events -> Statuses]
                 /\ intake' \in [Senders \cup Runs -> Events \cup {Nothing}]
      BY <3>4 DEF FailRun, TypeOK, evidence
    <3> QED BY <1>5, <3>1, <3>2, <3>3, <3>4 DEF RunSteps, TypeOK
  <2> QED BY <1>1, <1>2, <2>1, <2>2 DEF TypeOK
<1>6. CASE Reviews
  <2>1. PICK r \in Reviewers :
           \/ GetPendingEvidence(r) \/ LoadCurrent(r) \/ WriteGrade(r)
           \/ RecordAcceptance(r) \/ RecordRejection(r) \/ EndReview(r)
    BY <1>6 DEF Reviews
  <2>2. \E step \in Steps \cup Ended : pc' = [pc EXCEPT ![r] = step]
    BY <2>1 DEF Goto, Steps, Ended, GetPendingEvidence, LoadCurrent, WriteGrade,
                RecordAcceptance, RecordRejection, EndReview
  <2>3. pc' \in [Reviewers \cup Graders -> {"idle"} \cup Steps \cup Ended]
    BY <2>2 DEF TypeOK
  <2>4. UNCHANGED intake
    BY <2>1 DEF GetPendingEvidence, LoadCurrent, WriteGrade, RecordAcceptance,
                RecordRejection, EndReview
  <2>5. CASE UNCHANGED <<status, link>>
    BY <1>1, <1>2, <2>3, <2>4, <2>5 DEF TypeOK
  <2>6. CASE RecordAcceptance(r) \/ RecordRejection(r)
    <3>1. status' \in [Events -> Statuses] /\ link' \in [Events -> Reviewers \cup {Nothing}]
      BY <2>6 DEF RecordAcceptance, RecordRejection, TypeOK, Statuses, Resolved, Calls
    <3> QED BY <1>1, <1>2, <2>3, <2>4, <3>1 DEF TypeOK
  <2> QED BY <2>1, <2>5, <2>6
          DEF GetPendingEvidence, LoadCurrent, WriteGrade, EndReview, evidence
<1>7. CASE Writes
  <2>1. UNCHANGED <<status, link, intake>>
    BY <1>7 DEF Writes, CloseTerm, GradeDirectly, evidence
  <2>2. pc' \in [Reviewers \cup Graders -> {"idle"} \cup Steps \cup Ended]
    BY <1>7 DEF Writes, CloseTerm, GradeDirectly, Goto, TypeOK, Ended, review
  <2> QED BY <1>1, <1>2, <2>1, <2>2 DEF TypeOK
<1>8. CASE UNCHANGED vars
  BY <1>8 DEF vars, evidence, review, TypeOK
<1> QED BY <1>4, <1>5, <1>6, <1>7, <1>8, StepsAre

\* A reviewer reaches its acceptance by writing the grade, which stays written.
LEMMA WritersAreKept ==
    ASSUME TypeOK, LedgerFits, WritersHold, [Next]_vars
    PROVE  WritersHold'
<1> SUFFICES ASSUME NEW r \in Reviewers, pc'[r] = "link"
             PROVE  Wrote(r, call[r].target)'
  BY DEF WritersHold
<1>1. call' = call /\ r \in Authors /\ call[r].target \in Enrollments
  BY EvidenceStays DEF Authors, TypeOK, Calls
<1>2. CASE pc[r] = "link"
  <2>1. PICK e \in Enrollments : e = call[r].target /\ e = call'[r].target
    BY <1>1
  <2>2. Wrote(r, e)
    BY <1>2, <2>1 DEF WritersHold
  <2>3. Wrote(r, e)'
    BY <1>1, <2>2, LedgerMoves DEF NothingIsUnwritten
  <2> QED BY <2>1, <2>3
<1>3. CASE WriteGrade(r)
  BY <1>3, WriteGradeWrites
<1>4. CASE pc[r] # "link" /\ ~WriteGrade(r)
  <2>1. pc' # pc
    BY <1>4
  <2>2. PICK x \in Reviewers \cup Graders, step \in Steps \cup Ended :
           /\ pc' = [pc EXCEPT ![x] = step]
           /\ step = "link" => x \in Reviewers /\ WriteGrade(x)
    <3>1. CASE Reviews
      <4>1. PICK q \in Reviewers :
               \/ GetPendingEvidence(q) \/ LoadCurrent(q) \/ WriteGrade(q)
               \/ RecordAcceptance(q) \/ RecordRejection(q) \/ EndReview(q)
        BY <3>1 DEF Reviews
      <4>2. CASE WriteGrade(q)
        BY <4>2 DEF WriteGrade, Goto, Steps
      <4>3. CASE \/ GetPendingEvidence(q) \/ LoadCurrent(q)
                 \/ RecordAcceptance(q) \/ RecordRejection(q) \/ EndReview(q)
        BY <4>3 DEF Goto, Steps, Ended, GetPendingEvidence, LoadCurrent, RecordAcceptance,
                    RecordRejection, EndReview
      <4> QED BY <4>1, <4>2, <4>3
    <3>2. CASE Writes
      <4>1. CASE CloseTerm
        BY <2>1, <4>1 DEF CloseTerm, review
      <4>2. ASSUME NEW g \in Graders, GradeDirectly(g)
            PROVE  pc' = [pc EXCEPT ![g] = "succeeded"]
        BY <4>2 DEF GradeDirectly, Goto
      <4> QED BY <3>2, <4>1, <4>2 DEF Writes, Ended
    <3>3. CASE Intakes \/ RunSteps \/ UNCHANGED vars
      <4>1. UNCHANGED pc
        BY <3>3 DEF Intakes, RunSteps, vars, Deliver, MarkOutcome, DropDelivery, CreateRun,
                    CompleteRun, FailRun, Observe, SkipUnmapped, review
      <4> QED BY <2>1, <4>1
    <3> QED BY <3>1, <3>2, <3>3, StepsAre
  <2>3. x = r /\ step = "link"
    BY <1>4, <2>2 DEF TypeOK
  <2> QED BY <1>4, <2>2, <2>3
<1> QED BY <1>2, <1>3, <1>4

\* How one piece of evidence may change.
EvidenceStep(v) ==
    \/ status'[v] = status[v] /\ link'[v] = link[v]
    \/ status'[v] = "pending" /\ link'[v] = link[v]
    \/ status'[v] = "rejected" /\ link'[v] = Nothing
    \/ status'[v] = "accepted" /\ \E r \in Reviewers :
          link'[v] = r /\ call[r].event = v /\ pc[r] = "link"

\* Evidence comes in, is returned to review, rejected or accepted.
LEMMA EvidenceMoves ==
    ASSUME TypeOK, [Next]_vars, NEW v \in Events
    PROVE  EvidenceStep(v)
<1> USE DEF EvidenceStep
<1>1. ASSUME NEW a, NEW w \in Events, AcceptEventOnce(a, w), UNCHANGED link
      PROVE  EvidenceStep(v)
  BY <1>1 DEF AcceptEventOnce, TypeOK
<1>2. ASSUME NEW a \in Senders \cup Runs, MarkOutcome(a)
      PROVE  EvidenceStep(v)
  BY <1>2 DEF MarkOutcome, IntakeOutcome, TypeOK
<1>3. ASSUME NEW r \in Reviewers, RecordAcceptance(r) \/ RecordRejection(r)
      PROVE  EvidenceStep(v)
  BY <1>3 DEF RecordAcceptance, RecordRejection, TypeOK
<1>4. CASE UNCHANGED <<status, link>>
  BY <1>4
<1>5. CASE Intakes
  BY <1>1, <1>2, <1>4, <1>5 DEF Intakes, Deliver, DropDelivery, evidence
<1>6. CASE RunSteps
  BY <1>1, <1>4, <1>6 DEF RunSteps, CreateRun, CompleteRun, FailRun, Observe, SkipUnmapped, evidence
<1>7. CASE Reviews
  BY <1>3, <1>4, <1>7 DEF Reviews, GetPendingEvidence, LoadCurrent, WriteGrade, EndReview, evidence
<1>8. CASE Writes
  BY <1>4, <1>8 DEF Writes, CloseTerm, GradeDirectly, evidence
<1>9. CASE UNCHANGED vars
  BY <1>4, <1>9 DEF vars, evidence
<1> QED BY <1>5, <1>6, <1>7, <1>8, <1>9, StepsAre

\* So links stay backed.
LEMMA LinksAreKept ==
    ASSUME TypeOK, LedgerFits, WritersHold, LinksHold, [Next]_vars
    PROVE  LinksHold'
<1> SUFFICES ASSUME NEW v \in Events
             PROVE  /\ status'[v] = "accepted" => link'[v] # Nothing
                    /\ status'[v] = "rejected" => link'[v] = Nothing
                    /\ link'[v] # Nothing =>
                          call'[link'[v]].event = v
                          /\ Wrote(link[v], call[link[v]].target)'
  BY DEF LinksHold
<1>1. call' = call /\ EvidenceStep(v) /\ NothingIsUnwritten
  BY EvidenceStays, EvidenceMoves, LedgerMoves
<1>2. \A r \in Reviewers : r \in Authors /\ call[r].target \in Enrollments /\ r # Nothing
  BY NothingAssumption DEF TypeOK, Calls, Authors
<1>3. /\ status'[v] = "accepted" => link'[v] # Nothing
      /\ status'[v] = "rejected" => link'[v] = Nothing
  BY <1>1, <1>2 DEF EvidenceStep, LinksHold
<1>4. ASSUME link'[v] # Nothing
      PROVE  call'[link'[v]].event = v /\ Wrote(link[v], call[link[v]].target)'
  <2>1. PICK r \in Reviewers :
           r = link'[v] /\ call[r].event = v /\ Wrote(r, call[r].target)
    <3>1. CASE link'[v] = link[v]
      <4>1. link[v] \in Reviewers
        BY <1>4, <3>1 DEF TypeOK
      <4> QED BY <1>4, <3>1, <4>1 DEF LinksHold
    <3>2. CASE \E r \in Reviewers : link'[v] = r /\ call[r].event = v /\ pc[r] = "link"
      BY <3>2 DEF WritersHold
    <3> QED BY <1>1, <1>4, <3>1, <3>2 DEF EvidenceStep
  <2>2. PICK e \in Enrollments : e = call[r].target
    BY <1>2
  <2>3. Wrote(r, e)'
    BY <1>1, <1>2, <2>1, <2>2 DEF NothingIsUnwritten
  <2>4. link'[v] = r /\ call'[link'[v]].target = e /\ call'[link'[v]].event = v
    BY <1>1, <2>1, <2>2
  <2> QED BY <2>3, <2>4
<1> QED BY <1>3, <1>4

\* A grade is replaced by one that follows it, and a grade of a reviewer's is written by
\* the reviewer itself, over what it has read.
LEMMA GradesFollow ==
    ASSUME TypeOK, LedgerFits, ReadingsHold, [Next]_vars, NEW e \in Enrollments
    PROVE  /\ grade'[e] = grade[e] \/ Follows(grade[e], grade'[e])
           /\ \A r \in Reviewers :
                 grade'[e] # grade[e] /\ grade'[e].score = r => grade[e] = seen[r]
<1>1. CASE UNCHANGED ledger
  BY <1>1 DEF ledger
<1>2. CASE CloseTerm
  BY <1>2 DEF CloseTerm, Ledger!Close
<1>3. ASSUME NEW g \in Graders, GradeDirectly(g)
      PROVE  grade'[e] = grade[e] \/ (Follows(grade[e], grade'[e]) /\ grade'[e].score = g)
  <2>1. PICK f \in Enrollments : Ledger!Record(f, g) \/ Ledger!Revise(f, g)
    BY <1>3 DEF GradeDirectly
  <2> QED BY <2>1, WriteFollows DEF Authors
<1>4. ASSUME NEW q \in Reviewers, WriteGrade(q)
      PROVE  \/ grade'[e] = grade[e]
             \/ /\ Follows(grade[e], grade'[e])
                /\ grade'[e].score = q /\ grade[e] = seen[q]
  <2>1. PICK f \in Enrollments : f = call[q].target
    BY DEF TypeOK, Calls
  <2>2. \/ seen[q] = NoGrade /\ Ledger!Record(f, q)
        \/ seen[q] # NoGrade /\ grade[f].revision = seen[q].revision /\ Ledger!Revise(f, q)
    BY <1>4, <2>1 DEF WriteGrade, ReviseExpected
  <2>3. \/ grade'[e] = grade[e]
        \/ e = f /\ Follows(grade[e], grade'[e]) /\ grade'[e].score = q
    BY <2>2, WriteFollows DEF Authors
  <2>4. grade[f] = seen[q]
    <3>1. CASE seen[q] = NoGrade
      BY <2>2, <3>1 DEF Ledger!Record
    <3>2. CASE seen[q] # NoGrade
      <4>1. seen[q] \in Grades /\ grade[f] \in Grades
            /\ (seen[q] = grade[f] \/ seen[q].revision < grade[f].revision)
        BY <2>1, <3>2 DEF ReadingsHold, Behind
      <4> QED BY <2>2, <3>2, <4>1 DEF Grades
    <3> QED BY <3>1, <3>2
  <2> QED BY <2>3, <2>4
<1>5. Reviewers \cap Graders = {}
  BY CallersAssumption
<1> QED BY <1>1, <1>2, <1>3, <1>4, <1>5, LedgerStays DEF Writes

\* What a grade is behind, those that follow it are behind.
LEMMA StaysBehind ==
    ASSUME NEW read \in Grades \cup {NoGrade}, NEW old \in Grades \cup {NoGrade}, NEW new,
           Behind(read, old), new = old \/ Follows(old, new)
    PROVE  Behind(read, new)
BY NoGradeAssumption DEF Behind, Follows, Grades

\* A reviewer reads what is stored; what others write is a later revision.
LEMMA ReadingsAreKept ==
    ASSUME TypeOK, LedgerFits, ReadingsHold, [Next]_vars
    PROVE  ReadingsHold'
<1>1. call' = call
  BY EvidenceStays
<1>2. ASSUME NEW q \in Reviewers, LoadCurrent(q)
      PROVE  ReadingsHold'
  <2>1. /\ seen' = [seen EXCEPT ![q] = grade[call[q].target]]
        /\ UNCHANGED grade
    BY <1>2 DEF LoadCurrent, ledger
  <2>2. grade[call[q].target] \in Grades \cup {NoGrade}
    BY DEF LedgerFits, TypeOK, Calls
  <2>3. Behind(grade[call[q].target], grade[call[q].target])
    BY <2>2 DEF Behind
  <2> QED BY <1>1, <2>1, <2>2, <2>3 DEF ReadingsHold
<1>3. CASE UNCHANGED seen
  <2>1. \A r \in Reviewers : Behind(seen[r], grade'[call[r].target])
    <3> TAKE r \in Reviewers
    <3>1. PICK e \in Enrollments : e = call[r].target
      BY DEF TypeOK, Calls
    <3>2. grade[e] \in Grades \cup {NoGrade} /\ seen[r] \in Grades \cup {NoGrade}
          /\ Behind(seen[r], grade[e])
      BY <3>1 DEF LedgerFits, ReadingsHold
    <3>3. grade'[e] = grade[e] \/ Follows(grade[e], grade'[e])
      BY GradesFollow
    <3> QED BY <3>1, <3>2, <3>3, StaysBehind
  <2> QED BY <1>1, <1>3, <2>1 DEF ReadingsHold
<1>4. ASSUME \A q \in Reviewers : ~LoadCurrent(q)
      PROVE  UNCHANGED seen
  BY <1>4 DEF Next, vars, review, Deliver, MarkOutcome, DropDelivery, CreateRun, CompleteRun,
              FailRun, Observe, SkipUnmapped, GetPendingEvidence, WriteGrade, RecordAcceptance,
              RecordRejection, EndReview, GradeDirectly, CloseTerm
<1> QED BY <1>2, <1>3, <1>4

\* At first there is no evidence and no grade.
LEMMA EvidenceInitially == Init => EvidenceInv
<1> SUFFICES ASSUME Init PROVE EvidenceInv
  OBVIOUS
<1>1. Cardinality(Events) \in Nat /\ Cardinality(Stored) \in Nat
  BY EventsCount DEF Stored
<1>2. TypeOK
  <2>1. 0 \in 0 .. Cardinality(Events)
    BY <1>1
  <2> QED BY <2>1 DEF Init, TypeOK, Statuses, RunRecords
<1>3. LedgerFits
  <2>1. << >> \in Seq(Entries)
    OBVIOUS
  <2> QED BY <2>1 DEF Init, LedgerFits
<1>4. RunsAccount
  BY <1>1, <1>2 DEF Init, RunsAccount, Account, TypeOK
<1>5. WritersHold /\ LinksHold /\ ReadingsHold
  BY DEF Init, WritersHold, LinksHold, ReadingsHold, Behind
<1> QED BY <1>2, <1>3, <1>4, <1>5 DEF EvidenceInv

----------------------------------------------------------------------------
(***************************************************************************)
(* The theorems.                                                           *)
(***************************************************************************)

\* The inductive invariant: links and acceptances under way are backed by grades
\* their calls have written, runs account for the events they have passed, and what a
\* reviewer has read is stored still or was replaced by a later revision.
THEOREM EvidenceCorrect == Spec => []EvidenceInv
<1>1. EvidenceInv /\ [Next]_vars => EvidenceInv'
  BY TypesAreKept, LedgerMoves, AccountsAreKept, WritersAreKept, LinksAreKept,
     ReadingsAreKept DEF EvidenceInv
<1> QED BY EvidenceInitially, <1>1, PTL DEF Spec

\* Accepted evidence names a call that committed a grade for the participation it
\* resolved, however acceptances, redeliveries and crashes interleave.
THEOREM LineageHolds == Spec => []LineageIsTrue
<1>1. EvidenceInv => LineageIsTrue
  BY DEF EvidenceInv, LinksHold, LineageIsTrue
<1> QED BY EvidenceCorrect, <1>1, PTL

\* A reconciliation run that reports success has made every observation, and what
\* it counts as new is stored, whoever else stores the same events.
THEOREM RunsAreHonest == Spec => []RunsTellTheTruth
<1>1. EvidenceInv => RunsTellTheTruth
  <2> SUFFICES ASSUME EvidenceInv, NEW u \in Runs
               PROVE  /\ run[u].new <= Cardinality(Stored)
                      /\ run[u].status = "succeeded" =>
                            /\ run[u].new + run[u].duplicate + run[u].unmapped = Cardinality(Events)
                            /\ Cardinality(Events \ Stored) <= run[u].unmapped
    BY DEF RunsTellTheTruth, Stored
  <2>1. Account(run[u], Stored)
    BY DEF EvidenceInv, RunsAccount
  <2>2. run[u].left = {} => Events \ run[u].left = Events
    OBVIOUS
  <2> QED BY <2>1, <2>2 DEF Account
<1> QED BY EvidenceCorrect, <1>1, PTL

\* Once an event has been dispositioned its resolution is final.
THEOREM ResolutionsAreFinal == Spec => ResolutionIsFinal
<1>1. ASSUME EvidenceInv, [Next]_vars, NEW v \in Events, status[v] \in Resolved,
             \A a \in Senders \cup Runs : intake[a] # v
      PROVE  status'[v] = status[v] /\ link'[v] = link[v]
  <2>0. TypeOK
    BY <1>1 DEF EvidenceInv
  <2> DEFINE final == status'[v] = status[v] /\ link'[v] = link[v]
  <2>1. ASSUME NEW a, NEW w \in Events, AcceptEventOnce(a, w), UNCHANGED link PROVE final
    BY <1>1, <2>0, <2>1 DEF AcceptEventOnce, TypeOK, Resolved
  <2>2. ASSUME NEW a \in Senders \cup Runs, MarkOutcome(a) PROVE final
    BY <1>1, <2>0, <2>2 DEF MarkOutcome, TypeOK, evidence
  <2>3. ASSUME NEW r \in Reviewers, RecordAcceptance(r) \/ RecordRejection(r) PROVE final
    BY <1>1, <2>0, <2>3 DEF RecordAcceptance, RecordRejection, IsPending, TypeOK, Resolved
  <2>4. ASSUME UNCHANGED <<status, link>> PROVE final
    BY <2>4
  <2> HIDE DEF final
  <2>5. ASSUME Intakes PROVE final
    BY <2>1, <2>2, <2>4, <2>5 DEF Intakes, Deliver, DropDelivery, evidence
  <2>6. ASSUME RunSteps PROVE final
    BY <2>1, <2>4, <2>6 DEF RunSteps, CreateRun, CompleteRun, FailRun, Observe, SkipUnmapped, evidence
  <2>7. ASSUME Reviews PROVE final
    BY <2>3, <2>4, <2>7 DEF Reviews, GetPendingEvidence, LoadCurrent, WriteGrade, EndReview, evidence
  <2>8. ASSUME Writes PROVE final
    BY <2>4, <2>8 DEF Writes, CloseTerm, GradeDirectly, evidence
  <2>9. ASSUME UNCHANGED vars PROVE final
    BY <2>4, <2>9 DEF vars, evidence
  <2>10. final
    BY <1>1, <2>5, <2>6, <2>7, <2>8, <2>9, StepsAre
  <2> QED BY <2>10 DEF final
<1>2. EvidenceInv /\ [Next]_vars =>
         [\A v \in Events :
             status[v] \in Resolved /\ (\A a \in Senders \cup Runs : intake[a] # v)
             => status'[v] = status[v] /\ link'[v] = link[v]]_<<status, link, intake>>
  BY <1>1
<1> QED BY EvidenceCorrect, <1>2, PTL DEF Spec, ResolutionIsFinal

\* A grade accepted from evidence replaces the grade its reviewer has read, though it
\* read it in an earlier transaction and others write meanwhile.
THEOREM ReplacementsWereRead == Spec => ReviewersReplaceWhatTheyRead
<1>1. EvidenceInv /\ [Next]_vars =>
         [\A e \in Enrollments, r \in Reviewers :
             grade'[e] # grade[e] /\ grade'[e].score = r => grade[e] = seen[r]]_ledger
  BY GradesFollow DEF EvidenceInv
<1> QED BY EvidenceCorrect, <1>1, PTL DEF Spec, ReviewersReplaceWhatTheyRead
=============================================================================
