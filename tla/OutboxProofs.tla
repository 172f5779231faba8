---------------------------- MODULE OutboxProofs ----------------------------
(***************************************************************************)
(* Safety of the outbox for every number of workers and events, every batch*)
(* size, lease and bound.                                                  *)
(*                                                                         *)
(* The inductive invariant is OutboxInv.  ClaimsAreHeld ties a row to the  *)
(* batch of the worker it names.  Under timely workers the converse holds  *)
(* too, BatchesAreOwned, because only claims whose owner is gone get old   *)
(* enough to be taken over, LiveClaimsAreFresh; that batches are disjoint  *)
(* follows.  AttemptsCounted says how many claims an event in each state   *)
(* has behind it: a retry has one left, and only a dead worker's claim can *)
(* be the one that exceeds the bound, a crash later.                       *)
(*                                                                         *)
(* The second half is about provisioning as the consumer of the outbox.    *)
(* Its invariant, ActivationInv, stands on OutboxInv: the lease of an      *)
(* event protects the list of jobs its worker goes through, and a lease of *)
(* each job protects one execution against the others.                     *)
(***************************************************************************)
EXTENDS Activation, TLAPS

LiveClaimsAreFresh ==
    Timely => \A e \in Events : owner[e] \in Workers => age[e] < Lease

BatchesAreOwned ==
    Timely => \A e \in Events, w \in Workers : e \in batch[w] => owner[e] = w

AttemptsOf(e) ==
    /\ status[e] \in {"absent", "pending"} => attempts[e] = 0
    /\ status[e] = "retry" => attempts[e] < MaxAttempts
    /\ attempts[e] <= MaxAttempts + crashes
    /\ owner[e] = Gone => attempts[e] < MaxAttempts + crashes
AttemptsCounted == Timely => \A e \in Events : AttemptsOf(e)

QuarantineIsLate ==
    \A e \in Events : status[e] = "quarantined" => attempts[e] >= MaxAttempts

OutboxInv ==
    /\ OutboxTypeOK
    /\ ClaimsAreHeld
    /\ LiveClaimsAreFresh
    /\ BatchesAreOwned
    /\ AttemptsCounted
    /\ QuarantineIsLate

USE EventsAssumption, BatchAssumption, LeaseAssumption, AttemptsAssumption,
    TimelyAssumption, OwnersAssumption

\* Counting a claim raises the counter by at most one and never lowers it.
LEMMA CountedBounds ==
    ASSUME NEW n \in 0..AttemptCap
    PROVE  Counted(n) \in 0..AttemptCap /\ n <= Counted(n) /\ Counted(n) <= n + 1
BY DEF Counted, AttemptCap

\* A failure leads to one of two delivery states, by the attempts.
LEMMA FailureOutcomes ==
    ASSUME NEW e \in Events, OutboxTypeOK
    PROVE  /\ FailureOutcome(e) \in {"retry", "quarantined"}
           /\ FailureOutcome(e) = "retry" <=> attempts[e] < MaxAttempts
BY DEF FailureOutcome, OutboxTypeOK, AttemptCap

----------------------------------------------------------------------------

\* No event is claimed at first.
LEMMA InitInv == OutboxInit => OutboxInv
BY DEF OutboxInit, OutboxInv, OutboxTypeOK, Statuses, Settled, AttemptCap, ClaimsAreHeld,
       LiveClaimsAreFresh, BatchesAreOwned, AttemptsCounted, AttemptsOf, QuarantineIsLate

\* An event is enqueued unclaimed.
LEMMA EnqueueInv ==
    ASSUME OutboxInv, NEW f \in Events, Enqueue(f)
    PROVE  OutboxInv'
<1> USE DEF OutboxInv
<1>1. OutboxTypeOK'
  BY DEF Enqueue, OutboxTypeOK, Statuses
<1>2. ClaimsAreHeld'
  BY DEF Enqueue, OutboxTypeOK, ClaimsAreHeld
<1>3. LiveClaimsAreFresh' /\ BatchesAreOwned'
  BY DEF Enqueue, LiveClaimsAreFresh, BatchesAreOwned
<1>4. AttemptsCounted'
  BY DEF Enqueue, OutboxTypeOK, AttemptsCounted, AttemptsOf
<1>5. QuarantineIsLate'
  BY DEF Enqueue, OutboxTypeOK, QuarantineIsLate
<1> QED BY <1>1, <1>2, <1>3, <1>4, <1>5

\* Only rows nobody alive owns are claimable.
LEMMA ClaimableIsFree ==
    ASSUME OutboxInv, NEW e \in Events, Claimable(e)
    PROVE  /\ status[e] \notin Settled \cup {"absent"}
           /\ Timely => owner[e] \in {Nobody, Gone}
           /\ owner[e] = Nobody => status[e] \in {"pending", "retry"}
BY DEF OutboxInv, OutboxTypeOK, Claimable, Settled, ClaimsAreHeld, LiveClaimsAreFresh

\* A batch is claimed from the events nobody holds, or holds no longer.
LEMMA ClaimInv ==
    ASSUME OutboxInv, NEW w \in Workers, Claim(w)
    PROVE  OutboxInv'
<1> USE DEF OutboxInv
<1>1. PICK taken \in SUBSET {e \in Events : Claimable(e)} :
          /\ batch' = [batch EXCEPT ![w] = taken]
          /\ status' = [e \in Events |->
                IF e \in taken THEN "processing" ELSE status[e]]
          /\ owner' = [e \in Events |-> IF e \in taken THEN w ELSE owner[e]]
          /\ age' = [e \in Events |-> IF e \in taken THEN 0 ELSE age[e]]
          /\ attempts' = [e \in Events |->
                IF e \in taken THEN Counted(attempts[e]) ELSE attempts[e]]
  BY DEF Claim
<1>2. batch[w] = {} /\ crashes' = crashes
  BY DEF Claim
<1>3. \A e \in Events : attempts[e] \in 0..AttemptCap
  BY DEF OutboxTypeOK
<1>4. OutboxTypeOK'
  <2>1. attempts' \in [Events -> 0..AttemptCap]
    BY <1>1, <1>3, CountedBounds
  <2> QED BY <1>1, <1>2, <2>1 DEF OutboxTypeOK, Statuses
<1>5. ClaimsAreHeld'
  BY <1>1, <1>2 DEF OutboxTypeOK, ClaimsAreHeld
<1>6. LiveClaimsAreFresh'
  BY <1>1 DEF OutboxTypeOK, LiveClaimsAreFresh
<1>7. BatchesAreOwned'
  <2> SUFFICES ASSUME Timely, NEW e \in Events, NEW v \in Workers, e \in batch'[v]
               PROVE  owner'[e] = v
    BY DEF BatchesAreOwned
  <2>1. CASE v = w
    BY <1>1, <2>1 DEF OutboxTypeOK
  <2>2. CASE v # w
    <3>1. e \in batch[v] /\ owner[e] = v
      BY <1>1, <2>2 DEF OutboxTypeOK, BatchesAreOwned
    <3>2. e \notin taken
      BY <1>1, <3>1, ClaimableIsFree
    <3> QED BY <1>1, <3>1, <3>2
  <2> QED BY <2>1, <2>2
<1>8. AttemptsCounted'
  <2> SUFFICES ASSUME Timely, NEW e \in Events
               PROVE  AttemptsOf(e)'
    BY DEF AttemptsCounted
  <2>1. AttemptsOf(e)
    BY DEF AttemptsCounted
  <2>2. CASE e \in taken
    <3>1. Claimable(e) /\ Counted(attempts[e]) <= attempts[e] + 1
      BY <1>1, <1>3, <2>2, CountedBounds
    <3>2. attempts[e] < MaxAttempts + crashes
      <4>1. CASE owner[e] = Gone
        BY <2>1, <4>1 DEF AttemptsOf
      <4>2. CASE owner[e] = Nobody
        <5>1. status[e] \in {"pending", "retry"}
          BY <3>1, <4>2, ClaimableIsFree
        <5> QED BY <1>3, <2>1, <5>1 DEF AttemptsOf, OutboxTypeOK
      <4> QED BY <3>1, <4>1, <4>2, ClaimableIsFree
    <3>3. /\ status'[e] = "processing" /\ owner'[e] = w
          /\ attempts'[e] = Counted(attempts[e])
      BY <1>1, <2>2
    <3>4. attempts'[e] <= MaxAttempts + crashes'
      <4>1. Counted(attempts[e]) \in 0..AttemptCap
        BY <1>3, CountedBounds
      <4> QED BY <1>2, <1>3, <3>1, <3>2, <3>3, <4>1 DEF OutboxTypeOK, AttemptCap
    <3> QED BY <3>3, <3>4 DEF AttemptsOf
  <2>3. CASE e \notin taken
    BY <1>1, <1>2, <2>1, <2>3 DEF AttemptsOf
  <2> QED BY <2>2, <2>3
<1>9. QuarantineIsLate'
  BY <1>1 DEF QuarantineIsLate
<1> QED BY <1>4, <1>5, <1>6, <1>7, <1>8, <1>9

\* The outcomes a claim may be settled with.
LEMMA SettleInv ==
    ASSUME OutboxInv, NEW w \in Workers, NEW f \in Events, f \in batch[w],
           NEW result \in {"processed", "retry", "quarantined"},
           result = "retry" => attempts[f] < MaxAttempts,
           result = "quarantined" => attempts[f] >= MaxAttempts,
           Settle(w, f, result)
    PROVE  OutboxInv'
<1> USE DEF OutboxInv
<1>1. /\ batch' = [batch EXCEPT ![w] = batch[w] \ {f}]
      /\ attempts' = attempts /\ crashes' = crashes
  BY DEF Settle
<1>2. CASE Holds(w, f)
  <2>1. /\ status' = [status EXCEPT ![f] = result]
        /\ owner' = [owner EXCEPT ![f] = Nobody]
        /\ age' = [age EXCEPT ![f] = 0]
    BY <1>2 DEF Settle
  <2>2. OutboxTypeOK'
    BY <1>1, <2>1 DEF OutboxTypeOK, Statuses, Settled
  <2>3. ClaimsAreHeld'
    BY <1>1, <2>1 DEF OutboxTypeOK, ClaimsAreHeld
  <2>4. LiveClaimsAreFresh'
    BY <2>1 DEF OutboxTypeOK, LiveClaimsAreFresh
  <2>5. BatchesAreOwned'
    <3>1. Holds(w, f) => owner[f] = w
      BY DEF Holds
    <3> QED BY <1>1, <1>2, <2>1, <3>1 DEF OutboxTypeOK, BatchesAreOwned
  <2>6. AttemptsCounted'
    BY <1>1, <2>1 DEF OutboxTypeOK, AttemptsCounted, AttemptsOf
  <2>7. QuarantineIsLate'
    BY <1>1, <2>1 DEF OutboxTypeOK, QuarantineIsLate
  <2> QED BY <2>2, <2>3, <2>4, <2>5, <2>6, <2>7
<1>3. CASE ~Holds(w, f)
  <2>1. status' = status /\ owner' = owner /\ age' = age
    BY <1>3 DEF Settle
  <2>2. OutboxTypeOK'
    BY <1>1, <2>1 DEF OutboxTypeOK
  <2>3. ClaimsAreHeld'
    BY <1>1, <1>3, <2>1 DEF OutboxTypeOK, ClaimsAreHeld, Holds
  <2>4. LiveClaimsAreFresh' /\ QuarantineIsLate'
    BY <1>1, <2>1 DEF LiveClaimsAreFresh, QuarantineIsLate
  <2>5. BatchesAreOwned'
    BY <1>1, <2>1 DEF OutboxTypeOK, BatchesAreOwned
  <2>6. AttemptsCounted'
    BY <1>1, <2>1 DEF AttemptsCounted, AttemptsOf
  <2> QED BY <2>2, <2>3, <2>4, <2>5, <2>6
<1> QED BY <1>2, <1>3

\* An event is settled by the worker that holds it.
LEMMA HandledInv ==
    ASSUME OutboxInv, NEW w \in Workers, Handled(w)
    PROVE  OutboxInv'
<1>1. PICK e \in Events : IsCurrent(w, e) /\ (MarkProcessed(w, e) \/ RecordFailure(w, e))
  BY DEF Handled
<1>2. e \in batch[w]
  BY <1>1 DEF IsCurrent
<1>3. CASE MarkProcessed(w, e)
  BY <1>2, <1>3, SettleInv DEF MarkProcessed
<1>4. CASE RecordFailure(w, e)
  <2>1. /\ FailureOutcome(e) \in {"retry", "quarantined"}
        /\ FailureOutcome(e) = "retry" <=> attempts[e] < MaxAttempts
    BY FailureOutcomes DEF OutboxInv
  <2>2. FailureOutcome(e) = "quarantined" => attempts[e] >= MaxAttempts
    BY <2>1 DEF OutboxInv, OutboxTypeOK, AttemptCap
  <2> QED BY <1>2, <1>4, <2>1, <2>2, SettleInv DEF RecordFailure
<1> QED BY <1>1, <1>3, <1>4

\* A process that ends leaves its claims behind, in no live worker's name.
LEMMA CrashInv ==
    ASSUME OutboxInv, NEW w \in Workers, Crash(w)
    PROVE  OutboxInv'
<1> USE DEF OutboxInv
<1>1. OutboxTypeOK'
  BY DEF Crash, OutboxTypeOK
<1>2. ClaimsAreHeld'
  BY DEF Crash, OutboxTypeOK, ClaimsAreHeld
<1>3. LiveClaimsAreFresh' /\ QuarantineIsLate'
  BY DEF Crash, OutboxTypeOK, LiveClaimsAreFresh, QuarantineIsLate
<1>4. BatchesAreOwned'
  BY DEF Crash, OutboxTypeOK, BatchesAreOwned
<1>5. AttemptsCounted'
  BY DEF Crash, OutboxTypeOK, AttemptCap, AttemptsCounted, AttemptsOf
<1> QED BY <1>1, <1>2, <1>3, <1>4, <1>5

\* Claims grow older, those of timely workers not beyond their lease.
LEMMA AgeingInv ==
    ASSUME OutboxInv, LeasesKept, Ageing, UNCHANGED <<status, owner, attempts, batch, crashes>>
    PROVE  OutboxInv'
<1> USE DEF OutboxInv
<1>1. age' = [e \in Events |-> IF status[e] = "processing" THEN Older(age[e]) ELSE age[e]]
  BY DEF Ageing
<1>2. OutboxTypeOK'
  BY <1>1 DEF OutboxTypeOK, Older
<1>3. ClaimsAreHeld' /\ BatchesAreOwned' /\ AttemptsCounted' /\ QuarantineIsLate'
  BY DEF ClaimsAreHeld, BatchesAreOwned, AttemptsCounted, AttemptsOf, QuarantineIsLate
<1>4. LiveClaimsAreFresh'
  <2> SUFFICES ASSUME Timely, NEW e \in Events, owner[e] \in Workers
               PROVE  age'[e] < Lease
    BY DEF LiveClaimsAreFresh
  <2>1. status[e] = "processing"
    BY DEF ClaimsAreHeld
  <2>2. age[e] + 1 < Lease
    BY <2>1 DEF LeasesKept
  <2> QED BY <1>1, <2>1, <2>2 DEF OutboxTypeOK, Older
<1> QED BY <1>2, <1>3, <1>4

\* A step of something else changes nothing here.
LEMMA StutterInv ==
    ASSUME OutboxInv, UNCHANGED outboxVars
    PROVE  OutboxInv'
BY DEF OutboxInv, outboxVars, queue, OutboxTypeOK, ClaimsAreHeld, LiveClaimsAreFresh,
       BatchesAreOwned, AttemptsCounted, AttemptsOf, QuarantineIsLate

\* Every step keeps the invariant of the outbox.
LEMMA StepInv == OutboxInv /\ [OutboxNext]_outboxVars => OutboxInv'
<1> SUFFICES ASSUME OutboxInv, [OutboxNext]_outboxVars PROVE OutboxInv'
  OBVIOUS
<1>1. ASSUME NEW e \in Events, Enqueue(e) PROVE OutboxInv'
  BY <1>1, EnqueueInv
<1>2. ASSUME NEW w \in Workers, Claim(w) PROVE OutboxInv'
  BY <1>2, ClaimInv
<1>3. ASSUME NEW w \in Workers, Handled(w) PROVE OutboxInv'
  BY <1>3, HandledInv
<1>4. ASSUME NEW w \in Workers, Crash(w) PROVE OutboxInv'
  BY <1>4, CrashInv
<1>5. CASE Tick
  BY <1>5, AgeingInv DEF Tick
<1>6. CASE Drained \/ UNCHANGED outboxVars
  BY <1>6, StutterInv DEF Drained
<1> QED BY <1>1, <1>2, <1>3, <1>4, <1>5, <1>6 DEF OutboxNext

----------------------------------------------------------------------------

\* The invariant behind every safety property of the outbox.
THEOREM OutboxCorrect == OutboxSpec => []OutboxInv
<1>1. OutboxInv /\ [OutboxNext]_outboxVars => OutboxInv'
  BY StepInv
<1> QED BY InitInv, <1>1, PTL DEF OutboxSpec

\* The outbox keeps its types.
THEOREM OutboxTypesHold == OutboxSpec => []OutboxTypeOK
<1>1. OutboxInv => OutboxTypeOK
  BY DEF OutboxInv
<1> QED BY <1>1, OutboxCorrect, PTL

\* Whatever a live worker's name is on is in its batch: no claim is lost.
THEOREM ClaimsHeld == OutboxSpec => []ClaimsAreHeld
<1>1. OutboxInv => ClaimsAreHeld
  BY DEF OutboxInv
<1> QED BY <1>1, OutboxCorrect, PTL

\* Timely workers never handle the same event, however many there are.
THEOREM HandledOnce == OutboxSpec => []OneHandlerAtATime
<1>1. OutboxInv => OneHandlerAtATime
  BY DEF OutboxInv, OutboxTypeOK, BatchesAreOwned, OneHandlerAtATime
<1> QED BY <1>1, OutboxCorrect, PTL

\* An event is given up after MaxAttempts claims and not before, and exceeds
\* them by no more than the crashes there were.
THEOREM AttemptsHold == OutboxSpec => []AttemptsAreExact
<1>1. OutboxInv => AttemptsAreExact
  BY DEF OutboxInv, AttemptsCounted, AttemptsOf, QuarantineIsLate, AttemptsAreExact
<1> QED BY <1>1, OutboxCorrect, PTL

\* A settled event stays settled: proved without any assumption on timing, from
\* the ownership check alone.
THEOREM SettledStays == OutboxSpec => SettledIsFinal
<1> DEFINE Stays == \A e \in Events : status[e] \in Settled => status'[e] = status[e]
<1>1. OutboxTypeOK /\ [OutboxNext]_outboxVars => [Stays]_status
  <2> SUFFICES ASSUME OutboxTypeOK, OutboxNext PROVE Stays
    BY DEF outboxVars, queue
  <2>1. ASSUME NEW e \in Events, Enqueue(e) PROVE Stays
    BY <2>1 DEF Enqueue, OutboxTypeOK, Settled
  <2>2. ASSUME NEW w \in Workers, Claim(w) PROVE Stays
    BY <2>2 DEF Claim, Claimable, Settled
  <2>3. ASSUME NEW w \in Workers, NEW f \in Events, NEW result, Settle(w, f, result)
        PROVE Stays
    BY <2>3 DEF Settle, Holds, OutboxTypeOK, Settled
  <2>4. ASSUME NEW w \in Workers, Handled(w) PROVE Stays
    BY <2>3, <2>4 DEF Handled, MarkProcessed, RecordFailure
  <2>5. ASSUME NEW w \in Workers, Crash(w) PROVE Stays
    BY <2>5 DEF Crash
  <2>6. CASE Tick \/ Drained
    BY <2>6 DEF Tick, Drained, outboxVars, queue
  <2> QED BY <2>1, <2>2, <2>4, <2>5, <2>6 DEF OutboxNext
<1> QED BY <1>1, OutboxTypesHold, PTL DEF OutboxSpec, SettledIsFinal

----------------------------------------------------------------------------
(***************************************************************************)
(* The consumer: provisioning jobs under events, workers and operators.    *)
(*                                                                         *)
(* CallsFit says what a caller has in hand at each step, and that a        *)
(* worker's jobs are those of the event it is at.  JobsCovered is why an   *)
(* event cannot be processed over a forgotten job: whatever is absent or   *)
(* pending is still on the worker's list.  ExecutionsAlone rests on the    *)
(* outbox: two workers are never at the same event, and an operator's job  *)
(* does not get old enough to be recovered under it.  EvidenceInHand ties  *)
(* the outcome a caller is about to store to the audit log, the provider   *)
(* and the attempts; it needs no assumption on timing.                     *)
(***************************************************************************)

CallsFit ==
    /\ \A c \in Callers : at[c] \in ExecutionSteps <=> on[c] # NoJob
    /\ \A o \in Operators : at[o] \in {"idle"} \cup ExecutionSteps
    /\ \A w \in Workers : at[w] = "idle" => todo[w] = {}
    /\ \A w \in Workers : at[w] # "idle" =>
          \E e \in Events : /\ IsCurrent(w, e) /\ todo[w] \subseteq EventJobs(e)
                            /\ on[w] # NoJob => on[w] \in EventJobs(e)

Unattempted == {j \in Jobs : job[j] \in {"absent", "pending"}}

JobsCovered ==
    /\ \A w \in Workers, e \in Events : IsCurrent(w, e) =>
          /\ at[w] = "recover" => \A j \in EventJobs(e) : job[j] # "absent"
          /\ at[w] \in {"next"} \cup ExecutionSteps =>
                EventJobs(e) \cap Unattempted \subseteq todo[w]
    /\ \A e \in Events : status[e] = "processed" => EventJobs(e) \cap Unattempted = {}

ExecutionsAlone == Timely =>
    /\ \A c \in Callers : on[c] # NoJob => job[on[c]] = "processing"
    /\ \A c, d \in Callers : on[c] # NoJob /\ on[c] = on[d] => c = d
    /\ \A o \in Operators : on[o] # NoJob => since[on[o]] < Lease

EvidenceInHand ==
    /\ \A c \in Callers :
          /\ at[c] = "mark" => <<on[c], outcome[c]>> \in attempted
          /\ at[c] \in {"audit", "mark"} /\ outcome[c] = "succeeded" => on[c] \in account
          /\ at[c] = "call" => outcome[c] # "succeeded"
          /\ at[c] \in ExecutionSteps /\ outcome[c] = "failed" => tries[on[c]] = MaxAttempts
    /\ OutcomesAreBacked

ActivationInv ==
    /\ OutboxInv /\ TypeOK
    /\ CallsFit /\ JobsCovered /\ ExecutionsAlone /\ EvidenceInHand

USE CallersAssumption, NoJobAssumption, FaultsAssumption

\* A worker is at one event at a time, the earliest of its batch.
LEMMA CurrentIsUnique ==
    ASSUME OutboxTypeOK, NEW w \in Workers, NEW e \in Events, NEW f \in Events,
           IsCurrent(w, e), IsCurrent(w, f)
    PROVE  e = f
BY DEF IsCurrent, OutboxTypeOK

\* Timely workers are never at the same event.
LEMMA CurrentIsOwned ==
    ASSUME OutboxInv, Timely, NEW v \in Workers, NEW w \in Workers, NEW e \in Events,
           IsCurrent(v, e), IsCurrent(w, e)
    PROVE  v = w
BY DEF IsCurrent, OutboxInv, BatchesAreOwned

\* A worker that is at an event, and what it has in hand.
LEMMA WorkerHasEvent ==
    ASSUME OutboxInv, CallsFit, NEW w \in Workers, NEW e \in Events, IsCurrent(w, e),
           at[w] # "idle"
    PROVE  todo[w] \subseteq EventJobs(e) /\ (on[w] # NoJob => on[w] \in EventJobs(e))
<1>1. PICK f \in Events : /\ IsCurrent(w, f) /\ todo[w] \subseteq EventJobs(f)
                          /\ on[w] # NoJob => on[w] \in EventJobs(f)
  BY DEF CallsFit
<1>2. e = f
  BY <1>1, CurrentIsUnique DEF OutboxInv
<1> QED BY <1>1, <1>2

\* The jobs of an event, and of different events.
LEMMA EventJobsFacts ==
    /\ \A e \in Events : EventJobs(e) \subseteq Jobs
    /\ \A e, f \in Events : \A j \in EventJobs(e) : j \in EventJobs(f) => e = f
BY DEF EventJobs, Jobs

\* No job exists, and nobody executes any, at first.
LEMMA ActivationInit == Init => ActivationInv
<1> SUFFICES ASSUME Init PROVE ActivationInv
  OBVIOUS
<1>1. OutboxInv
  BY InitInv DEF Init
<1>2. TypeOK
  BY <1>1 DEF Init, OutboxInv, TypeOK, JobStatuses, Outcomes, Terminal, Steps
<1>3. /\ \A e \in Events : status[e] = "absent"
      /\ \A w \in Workers : batch[w] = {}
  BY DEF Init, OutboxInit
<1>4. /\ \A c \in Callers : at[c] = "idle" /\ on[c] = NoJob
      /\ \A w \in Workers : todo[w] = {}
  BY DEF Init
<1>5. CallsFit /\ JobsCovered /\ ExecutionsAlone
  BY <1>3, <1>4 DEF CallsFit, JobsCovered, ExecutionsAlone, IsCurrent, ExecutionSteps, Callers
<1>6. EvidenceInHand
  BY <1>4 DEF Init, EvidenceInHand, OutcomesAreBacked, ExecutionSteps, Terminal
<1> QED BY <1>1, <1>2, <1>5, <1>6 DEF ActivationInv

\* An event is published for nobody in particular.
LEMMA PublishInv ==
    ASSUME ActivationInv, NEW f \in Events, Publish(f)
    PROVE  ActivationInv'
<1> USE DEF ActivationInv
<1>1. OutboxInv'
  BY EnqueueInv DEF Publish
<1>2. UNCHANGED <<jobs, account, attempted, calls, batch>>
  BY DEF Publish, Enqueue
<1>3. TypeOK'
  BY <1>1, <1>2 DEF TypeOK, OutboxInv, jobs, calls
<1>4. CallsFit'
  BY <1>2 DEF CallsFit, IsCurrent, calls
<1>5. JobsCovered'
  <2>1. \A e \in Events : status'[e] = "processed" => status[e] = "processed"
    BY DEF Publish, Enqueue, OutboxInv, OutboxTypeOK
  <2> QED BY <1>2, <2>1 DEF JobsCovered, IsCurrent, Unattempted, calls, jobs
<1>6. ExecutionsAlone' /\ EvidenceInHand'
  BY <1>2 DEF ExecutionsAlone, EvidenceInHand, OutcomesAreBacked, calls, jobs
<1> QED BY <1>1, <1>3, <1>4, <1>5, <1>6

\* A worker claims when it has nothing in hand.
LEMMA ClaimEventsInv ==
    ASSUME ActivationInv, NEW w \in Workers, ClaimEvents(w)
    PROVE  ActivationInv'
<1> USE DEF ActivationInv
<1>1. OutboxInv'
  BY ClaimInv DEF ClaimEvents
<1>2. UNCHANGED <<jobs, account, attempted, calls>>
  BY DEF ClaimEvents
<1>3. TypeOK'
  BY <1>1, <1>2 DEF TypeOK, OutboxInv, jobs, calls
<1>4. at[w] = "idle"
  BY DEF ClaimEvents, Claim, CallsFit, IsCurrent
<1>5. \A v \in Workers \ {w}, e \in Events : IsCurrent(v, e)' <=> IsCurrent(v, e)
  BY DEF ClaimEvents, Claim, IsCurrent, OutboxInv, OutboxTypeOK
<1>6. CallsFit'
  BY <1>2, <1>4, <1>5 DEF CallsFit, calls
<1>7. JobsCovered'
  <2>1. \A e \in Events : status'[e] = "processed" => status[e] = "processed"
    BY DEF ClaimEvents, Claim
  <2> QED BY <1>2, <1>4, <1>5, <2>1 DEF JobsCovered, Unattempted, calls, jobs, ExecutionSteps
<1>8. ExecutionsAlone' /\ EvidenceInHand'
  BY <1>2 DEF ExecutionsAlone, EvidenceInHand, OutcomesAreBacked, calls, jobs
<1> QED BY <1>1, <1>3, <1>6, <1>7, <1>8

\* A step that moves one worker, or one caller, leaves the others where they are.
LEMMA OthersStay ==
    ASSUME TypeOK, NEW c \in Callers, NEW step, Goto(c, step)
    PROVE  /\ at'[c] = step
           /\ \A d \in Callers \ {c} : at'[d] = at[d]
           /\ step \in Steps => at' \in [Callers -> Steps]
BY DEF Goto, TypeOK

\* The outbox, seen from a step of its consumer that does not touch it.
LEMMA OutboxStays ==
    ASSUME OutboxInv, UNCHANGED outboxVars
    PROVE  /\ OutboxInv' /\ status' = status /\ batch' = batch
           /\ \A v \in Workers, e \in Events : IsCurrent(v, e)' <=> IsCurrent(v, e)
BY StutterInv DEF outboxVars, queue, IsCurrent

\* Jobs are created for the destinations whose insert succeeds; the handler goes on
\* only if that was all of them.
LEMMA EnsureJobsInv ==
    ASSUME ActivationInv, NEW w \in Workers, NEW e \in Events, EnsureJobs(w, e)
    PROVE  ActivationInv'
<1> USE DEF ActivationInv
<1>1. PICK made \in SUBSET Targets :
          /\ job' = [j \in Jobs |->
                IF job[j] = "absent" /\ j \in {e} \X made THEN "pending" ELSE job[j]]
          /\ Goto(w, IF made = Targets THEN "recover" ELSE "failed")
  BY DEF EnsureJobs
<1>2. /\ UNCHANGED <<since, tries, account, attempted, on, outcome, todo>>
      /\ at[w] = "idle" /\ IsCurrent(w, e) /\ w \in Callers
  BY DEF EnsureJobs, Callers
<1>3. /\ OutboxInv' /\ status' = status
      /\ \A v \in Workers, f \in Events : IsCurrent(v, f)' <=> IsCurrent(v, f)
  BY OutboxStays DEF EnsureJobs
<1>4. /\ at'[w] = IF made = Targets THEN "recover" ELSE "failed"
      /\ \A d \in Callers \ {w} : at'[d] = at[d]
      /\ at' \in [Callers -> Steps]
  BY <1>1, <1>2, OthersStay DEF Steps
<1>5. /\ job' \in [Jobs -> JobStatuses] /\ Unattempted' = Unattempted
      /\ \A j \in Jobs : job'[j] = job[j] \/ (job[j] = "absent" /\ job'[j] = "pending")
  BY <1>1 DEF TypeOK, JobStatuses, Unattempted
<1>6. TypeOK'
  BY <1>2, <1>3, <1>4, <1>5 DEF TypeOK, OutboxInv
<1>7. on[w] = NoJob
  BY <1>2 DEF CallsFit, ExecutionSteps
<1>8. CallsFit'
  <2>1. todo[w] = {}
    BY <1>2 DEF CallsFit
  <2> QED BY <1>2, <1>3, <1>4, <1>7, <2>1 DEF CallsFit, ExecutionSteps, Callers
<1>9. JobsCovered'
  <2>1. ASSUME made = Targets, NEW j \in EventJobs(e)
        PROVE  job'[j] # "absent"
    BY <1>1, <2>1, EventJobsFacts DEF EventJobs
  <2> SUFFICES ASSUME NEW v \in Workers, NEW f \in Events, IsCurrent(v, f)
               PROVE  /\ at'[v] = "recover" => \A j \in EventJobs(f) : job'[j] # "absent"
                      /\ at'[v] \in {"next"} \cup ExecutionSteps =>
                            EventJobs(f) \cap Unattempted \subseteq todo[v]
    BY <1>2, <1>3, <1>5 DEF JobsCovered
  <2>2. CASE v = w
    <3>1. f = e
      BY <1>2, <2>2, CurrentIsUnique DEF OutboxInv
    <3> QED BY <1>4, <2>1, <2>2, <3>1 DEF ExecutionSteps
  <2>3. CASE v # w
    BY <1>4, <1>5, <2>3, EventJobsFacts DEF JobsCovered, Callers
  <2> QED BY <2>2, <2>3
<1>10. ExecutionsAlone'
  <2>1. \A c \in Callers : on[c] # NoJob => on[c] \in Jobs
    BY DEF TypeOK
  <2> QED BY <1>2, <1>5, <2>1 DEF ExecutionsAlone, Callers
<1>11. EvidenceInHand'
  <2>1. \A j \in Jobs : job'[j] \in Terminal => job'[j] = job[j]
    BY <1>5 DEF Terminal
  <2>2. OutcomesAreBacked'
    BY <1>2, <2>1 DEF EvidenceInHand, OutcomesAreBacked, Terminal
  <2> QED BY <1>2, <1>4, <2>2 DEF EvidenceInHand, ExecutionSteps
<1> QED BY <1>3, <1>6, <1>8, <1>9, <1>10, <1>11

\* A timely caller's job is not abandoned, least of all to a worker at its event.
LEMMA RecoveryDisturbsNobody ==
    ASSUME ActivationInv, Timely, NEW w \in Workers, NEW e \in Events, IsCurrent(w, e),
           at[w] = "recover", NEW c \in Callers, on[c] # NoJob, on[c] \in EventJobs(e)
    PROVE  ~Abandoned(on[c])
<1> USE DEF ActivationInv
<1>1. CASE c \in Operators
  BY <1>1, EventJobsFacts DEF ExecutionsAlone, Abandoned
<1>2. CASE c \in Workers
  <2>1. at[c] \in ExecutionSteps
    BY <1>2 DEF CallsFit
  <2>2. PICK f \in Events : IsCurrent(c, f) /\ on[c] \in EventJobs(f)
    BY <1>2, <2>1 DEF CallsFit, ExecutionSteps
  <2>3. f = e
    BY <2>2, EventJobsFacts
  <2>4. c = w
    BY <1>2, <2>2, <2>3, CurrentIsOwned
  <2> QED BY <2>1, <2>4 DEF ExecutionSteps
<1> QED BY <1>1, <1>2 DEF Callers

\* Abandoned jobs of the event are returned, and all that can be retried are listed.
LEMMA RecoverJobsInv ==
    ASSUME ActivationInv, NEW w \in Workers, NEW e \in Events, RecoverJobs(w, e)
    PROVE  ActivationInv'
<1> USE DEF ActivationInv
<1> DEFINE recovered == [j \in Jobs |->
              IF j \in EventJobs(e) /\ Abandoned(j) THEN "retry" ELSE job[j]]
<1>1. /\ IsCurrent(w, e) /\ at[w] = "recover" /\ w \in Callers
      /\ job' = recovered
      /\ since' = [j \in Jobs |-> IF recovered[j] = job[j] THEN since[j] ELSE 0]
      /\ todo' = [todo EXCEPT ![w] = {j \in EventJobs(e) : CanRetry(recovered[j])}]
      /\ Goto(w, "next")
      /\ UNCHANGED <<tries, account, attempted, on, outcome>>
  BY DEF RecoverJobs, Callers
<1>2. /\ OutboxInv' /\ status' = status
      /\ \A v \in Workers, f \in Events : IsCurrent(v, f)' <=> IsCurrent(v, f)
  BY OutboxStays DEF RecoverJobs
<1>3. /\ at'[w] = "next" /\ at' \in [Callers -> Steps]
      /\ \A d \in Callers \ {w} : at'[d] = at[d]
  BY <1>1, OthersStay DEF Steps
<1>4. /\ job' \in [Jobs -> JobStatuses]
      /\ \A j \in Jobs : \/ job'[j] = job[j] /\ since'[j] = since[j]
                         \/ j \in EventJobs(e) /\ Abandoned(j) /\ job'[j] = "retry"
  BY <1>1 DEF TypeOK, JobStatuses, Outcomes
<1>5. /\ todo'[w] = {j \in EventJobs(e) : CanRetry(job'[j])}
      /\ todo' \in [Workers -> SUBSET Jobs]
      /\ \A v \in Workers \ {w} : todo'[v] = todo[v]
  <2>1. {j \in EventJobs(e) : CanRetry(job'[j])} \subseteq Jobs
    BY EventJobsFacts
  <2> QED BY <1>1, <2>1 DEF TypeOK
<1>6. since' \in [Jobs -> 0..Lease]
  BY <1>1 DEF TypeOK
<1>7. TypeOK'
  BY <1>1, <1>2, <1>3, <1>4, <1>5, <1>6 DEF TypeOK, OutboxInv
<1>8. CallsFit'
  <2>1. todo'[w] \subseteq EventJobs(e)
    BY <1>5
  <2>2. on[w] = NoJob
    BY <1>1 DEF CallsFit, ExecutionSteps
  <2> QED BY <1>1, <1>2, <1>3, <1>5, <2>1, <2>2 DEF CallsFit, ExecutionSteps, Callers
<1>9. JobsCovered'
  <2>1. Unattempted' = Unattempted
    BY <1>4 DEF Unattempted, Abandoned
  <2>2. EventJobs(e) \cap Unattempted \subseteq todo'[w]
    <3>1. ASSUME NEW j \in EventJobs(e), j \in Unattempted
          PROVE  j \in todo'[w]
      <4>1. job[j] = "pending"
        BY <1>1, <3>1 DEF JobsCovered, Unattempted
      <4>2. job'[j] = "pending"
        BY <1>4, <3>1, <4>1 DEF Unattempted, Abandoned
      <4> QED BY <1>5, <4>2 DEF CanRetry
    <3> QED BY <3>1
  <2> SUFFICES ASSUME NEW v \in Workers, NEW f \in Events, IsCurrent(v, f)
               PROVE  /\ at'[v] = "recover" => \A j \in EventJobs(f) : job'[j] # "absent"
                      /\ at'[v] \in {"next"} \cup ExecutionSteps =>
                            EventJobs(f) \cap Unattempted \subseteq todo'[v]
    BY <1>2, <2>1 DEF JobsCovered
  <2>3. CASE v = w
    <3>1. f = e
      BY <1>1, <2>3, CurrentIsUnique DEF OutboxInv
    <3> QED BY <1>3, <2>2, <2>3, <3>1
  <2>4. CASE v # w
    BY <1>3, <1>4, <1>5, <2>4, EventJobsFacts DEF JobsCovered, Callers
  <2> QED BY <2>3, <2>4
<1>10. ExecutionsAlone'
  <2> SUFFICES ASSUME Timely
               PROVE  \A c \in Callers : on[c] # NoJob =>
                          /\ job'[on[c]] = "processing"
                          /\ since'[on[c]] = since[on[c]]
    BY <1>1 DEF ExecutionsAlone, Callers
  <2> SUFFICES ASSUME NEW c \in Callers, on[c] # NoJob
               PROVE  job'[on[c]] = "processing" /\ since'[on[c]] = since[on[c]]
    OBVIOUS
  <2>1. on[c] \in Jobs /\ job[on[c]] = "processing"
    BY DEF TypeOK, ExecutionsAlone
  <2>2. ~(on[c] \in EventJobs(e) /\ Abandoned(on[c]))
    BY <1>1, RecoveryDisturbsNobody
  <2> QED BY <1>4, <2>1, <2>2
<1>11. EvidenceInHand'
  <2>1. \A j \in Jobs : job'[j] \in Terminal => job'[j] = job[j]
    BY <1>4 DEF Terminal
  <2>2. OutcomesAreBacked'
    BY <1>1, <2>1 DEF EvidenceInHand, OutcomesAreBacked, Terminal
  <2> QED BY <1>1, <1>3, <2>2 DEF EvidenceInHand, ExecutionSteps
<1> QED BY <1>2, <1>7, <1>8, <1>9, <1>10, <1>11

\* What a caller has in hand stays fitting when it moves on: a worker stays at its
\* event, and takes no job that is not on its list.
LEMMA CallerMoves ==
    ASSUME CallsFit, batch' = batch, NEW c \in Callers,
           \A d \in Callers \ {c} : at'[d] = at[d] /\ on'[d] = on[d],
           at'[c] \in ExecutionSteps <=> on'[c] # NoJob,
           c \in Operators => at'[c] \in {"idle"} \cup ExecutionSteps,
           c \in Workers => /\ at[c] # "idle" /\ at'[c] # "idle"
                            /\ on'[c] \in {NoJob, on[c]} \cup todo[c],
           \A v \in Workers : todo'[v] \subseteq todo[v]
    PROVE  CallsFit'
<1>1. \A v \in Workers, e \in Events : IsCurrent(v, e)' <=> IsCurrent(v, e)
  BY DEF IsCurrent
<1>2. /\ \A d \in Callers : at'[d] \in ExecutionSteps <=> on'[d] # NoJob
      /\ \A o \in Operators : at'[o] \in {"idle"} \cup ExecutionSteps
  BY DEF CallsFit, Callers
<1>3. \A w \in Workers : at'[w] = "idle" => todo'[w] = {}
  BY DEF CallsFit, Callers
<1>4. ASSUME NEW w \in Workers, at'[w] # "idle"
      PROVE  \E e \in Events : /\ IsCurrent(w, e)' /\ todo'[w] \subseteq EventJobs(e)
                               /\ on'[w] # NoJob => on'[w] \in EventJobs(e)
  <2>1. at[w] # "idle" /\ on'[w] \in {NoJob, on[w]} \cup todo[w]
    BY <1>4 DEF Callers
  <2>2. PICK e \in Events : /\ IsCurrent(w, e) /\ todo[w] \subseteq EventJobs(e)
                            /\ on[w] # NoJob => on[w] \in EventJobs(e)
    BY <2>1 DEF CallsFit
  <2> QED BY <1>1, <2>1, <2>2
<1> QED BY <1>2, <1>3, <1>4 DEF CallsFit

\* Jobs stay covered when none becomes unattempted, and a worker that is at its
\* jobs strikes off its list only what is attempted.
LEMMA CoverStays ==
    ASSUME JobsCovered, status' = status, batch' = batch, NEW c \in Callers,
           \A d \in Callers \ {c} : at'[d] = at[d],
           \A v \in Workers \ {c} : todo'[v] = todo[v],
           \A j \in Jobs : /\ job'[j] = "absent" => job[j] = "absent"
                           /\ job'[j] = "pending" => job[j] = "pending",
           c \in Workers => /\ at'[c] # "recover"
                            /\ at'[c] \in {"next"} \cup ExecutionSteps =>
                                  /\ at[c] \in {"next"} \cup ExecutionSteps
                                  /\ todo[c] \cap Unattempted' \subseteq todo'[c]
    PROVE  JobsCovered'
<1>1. \A v \in Workers, e \in Events : IsCurrent(v, e)' <=> IsCurrent(v, e)
  BY DEF IsCurrent
<1>2. Unattempted' \subseteq Unattempted
  BY DEF Unattempted
<1>3. \A e \in Events : status'[e] = "processed" => EventJobs(e) \cap Unattempted' = {}
  BY <1>1, <1>2 DEF JobsCovered
<1> SUFFICES ASSUME NEW w \in Workers, NEW e \in Events, IsCurrent(w, e)
             PROVE  /\ at'[w] = "recover" => \A j \in EventJobs(e) : job'[j] # "absent"
                    /\ at'[w] \in {"next"} \cup ExecutionSteps =>
                          EventJobs(e) \cap Unattempted' \subseteq todo'[w]
  BY <1>1, <1>3 DEF JobsCovered
<1>4. CASE w = c
  BY <1>2, <1>4 DEF JobsCovered
<1>5. CASE w # c
  BY <1>2, <1>5, EventJobsFacts DEF JobsCovered, Callers
<1> QED BY <1>4, <1>5

\* The n-th attempt and what it leaves behind.
LEMMA AttemptFacts ==
    ASSUME NEW n \in 0..MaxAttempts
    PROVE  /\ Tried(n) \in 0..MaxAttempts /\ Tried(MaxAttempts) = MaxAttempts
           /\ FailedAttempt(Tried(n)) \in {"retry", "failed"}
           /\ FailedAttempt(Tried(n)) = "failed" => Tried(n) = MaxAttempts
BY DEF Tried, FailedAttempt

\* A caller takes a job, or finds that it may not.
LEMMA TakeJobInv ==
    ASSUME ActivationInv, NEW c \in Callers, NEW j \in Jobs, TakeJob(c, j),
           UNCHANGED <<outboxVars, account, attempted>>,
           c \in Workers => at[c] = "next" /\ j \in todo[c],
           c \in Operators => at[c] = "idle",
           \A v \in Workers \ {c} : todo'[v] = todo[v],
           c \in Workers => todo'[c] = todo[c] \ {j},
           todo' \in [Workers -> SUBSET Jobs]
    PROVE  ActivationInv'
<1> USE DEF ActivationInv
<1>1. OutboxInv' /\ status' = status /\ batch' = batch
  BY OutboxStays
<1>2. on[c] = NoJob /\ at[c] \in {"idle", "next"}
  BY DEF CallsFit, ExecutionSteps, Callers
<1>3. \A v \in Workers : todo'[v] \subseteq todo[v]
  OBVIOUS
<1>4. CASE CanRetry(job[j])
  <2>1. /\ job' = [job EXCEPT ![j] = "processing"]
        /\ since' = [since EXCEPT ![j] = 0]
        /\ tries' = [tries EXCEPT ![j] = Tried(tries[j])]
        /\ on' = [on EXCEPT ![c] = j]
        /\ outcome' = [outcome EXCEPT ![c] = FailedAttempt(Tried(tries[j]))]
        /\ Goto(c, "call")
    BY <1>4 DEF TakeJob
  <2>2. /\ at'[c] = "call" /\ at' \in [Callers -> Steps]
        /\ \A d \in Callers \ {c} : at'[d] = at[d]
    BY <2>1, OthersStay DEF Steps, ExecutionSteps
  <2>3. tries[j] \in 0..MaxAttempts
    BY DEF TypeOK
  <2>4. /\ Tried(tries[j]) \in 0..MaxAttempts /\ Tried(MaxAttempts) = MaxAttempts
        /\ FailedAttempt(Tried(tries[j])) \in {"retry", "failed"}
        /\ FailedAttempt(Tried(tries[j])) = "failed" => Tried(tries[j]) = MaxAttempts
    BY <2>3, AttemptFacts
  <2>5. /\ on'[c] = j /\ outcome'[c] = FailedAttempt(Tried(tries[j]))
        /\ \A d \in Callers \ {c} : on'[d] = on[d] /\ outcome'[d] = outcome[d]
        /\ job'[j] = "processing" /\ since'[j] = 0 /\ tries'[j] = Tried(tries[j])
        /\ \A k \in Jobs \ {j} : /\ job'[k] = job[k] /\ since'[k] = since[k]
                                 /\ tries'[k] = tries[k]
    BY <2>1 DEF TypeOK
  <2>6. TypeOK'
    <3>1. /\ job' \in [Jobs -> JobStatuses] /\ since' \in [Jobs -> 0..Lease]
          /\ tries' \in [Jobs -> 0..MaxAttempts]
      BY <2>1, <2>4 DEF TypeOK, JobStatuses
    <3>2. on' \in [Callers -> Jobs \cup {NoJob}] /\ outcome' \in [Callers -> Outcomes]
      BY <2>1, <2>4 DEF TypeOK, Outcomes, Terminal
    <3> QED BY <1>1, <2>2, <3>1, <3>2 DEF TypeOK, OutboxInv
  <2>7. CallsFit'
    <3>1. j # NoJob
      OBVIOUS
    <3> QED BY <1>1, <1>2, <1>3, <2>2, <2>5, <3>1, CallerMoves DEF ExecutionSteps
  <2>8. JobsCovered'
    <3>1. c \in Workers => todo[c] \cap Unattempted' \subseteq todo'[c]
      BY <2>5 DEF Unattempted
    <3> QED BY <1>1, <2>2, <2>5, <3>1, CoverStays DEF ExecutionSteps
  <2>9. ExecutionsAlone'
    <3> SUFFICES ASSUME Timely
                 PROVE  /\ \A d \in Callers : on'[d] # NoJob => job'[on'[d]] = "processing"
                        /\ \A d, b \in Callers : on'[d] # NoJob /\ on'[d] = on'[b] => d = b
                        /\ \A o \in Operators : on'[o] # NoJob => since'[on'[o]] < Lease
      BY DEF ExecutionsAlone
    <3>1. ASSUME NEW d \in Callers, on[d] # NoJob
          PROVE  on[d] \in Jobs \ {j} /\ job[on[d]] = "processing"
      BY <1>4, <3>1 DEF ExecutionsAlone, CanRetry, TypeOK
    <3>2. \A o \in Operators : on'[o] # NoJob => since'[on'[o]] < Lease
      BY <2>5, <3>1 DEF ExecutionsAlone, Callers
    <3>3. \A d, b \in Callers : on'[d] # NoJob /\ on'[d] = on'[b] => d = b
      BY <2>5, <3>1 DEF ExecutionsAlone
    <3> QED BY <2>5, <3>1, <3>2, <3>3
  <2>10. EvidenceInHand'
    <3>1. OutcomesAreBacked'
      BY <2>5 DEF EvidenceInHand, OutcomesAreBacked, Terminal
    <3>2. ASSUME NEW d \in Callers
          PROVE  /\ at'[d] = "mark" => <<on'[d], outcome'[d]>> \in attempted
                 /\ at'[d] \in {"audit", "mark"} /\ outcome'[d] = "succeeded" =>
                       on'[d] \in account
                 /\ at'[d] = "call" => outcome'[d] # "succeeded"
                 /\ at'[d] \in ExecutionSteps /\ outcome'[d] = "failed" =>
                       tries'[on'[d]] = MaxAttempts
      <4>1. CASE d = c
        BY <2>2, <2>4, <2>5, <4>1
      <4>2. CASE d # c
        <5>1. at[d] \in ExecutionSteps => on[d] \in Jobs
          BY DEF CallsFit, TypeOK
        <5>2. at[d] \in ExecutionSteps /\ tries[on[d]] = MaxAttempts =>
                 tries'[on[d]] = MaxAttempts
          BY <2>4, <2>5, <5>1
        <5> QED BY <2>2, <2>5, <4>2, <5>2 DEF EvidenceInHand
      <4> QED BY <4>1, <4>2
    <3> QED BY <3>1, <3>2 DEF EvidenceInHand
  <2> QED BY <1>1, <2>6, <2>7, <2>8, <2>9, <2>10
<1>5. CASE ~CanRetry(job[j])
  <2>1. Raise(c) /\ UNCHANGED <<jobs, on, outcome>>
    BY <1>5 DEF TakeJob
  <2>2. /\ at'[c] = IF c \in Workers THEN "failed" ELSE "idle"
        /\ \A d \in Callers \ {c} : at'[d] = at[d]
        /\ at' \in [Callers -> Steps]
    BY <2>1, OthersStay DEF Raise, Steps
  <2>3. TypeOK'
    BY <1>1, <2>1, <2>2 DEF TypeOK, OutboxInv, jobs
  <2>4. CallsFit'
    BY <1>1, <1>2, <1>3, <2>1, <2>2, CallerMoves DEF ExecutionSteps, Callers
  <2>5. JobsCovered'
    BY <1>1, <2>1, <2>2, CoverStays DEF ExecutionSteps, jobs
  <2>6. ExecutionsAlone'
    BY <2>1 DEF ExecutionsAlone, jobs
  <2>7. EvidenceInHand'
    BY <2>1, <2>2 DEF EvidenceInHand, OutcomesAreBacked, ExecutionSteps, jobs
  <2> QED BY <1>1, <2>3, <2>4, <2>5, <2>6, <2>7
<1> QED BY <1>4, <1>5

\* The worker executes the next job of its list.
LEMMA ExecuteNextInv ==
    ASSUME ActivationInv, NEW w \in Workers, NEW j \in Jobs, ExecuteNext(w, j)
    PROVE  ActivationInv'
<1>1. /\ at[w] = "next" /\ j \in todo[w] /\ todo' = [todo EXCEPT ![w] = todo[w] \ {j}]
      /\ TakeJob(w, j) /\ UNCHANGED <<outboxVars, account, attempted>>
  BY DEF ExecuteNext
<1>2. /\ \A v \in Workers \ {w} : todo'[v] = todo[v]
      /\ todo'[w] = todo[w] \ {j} /\ todo' \in [Workers -> SUBSET Jobs]
  BY <1>1 DEF ActivationInv, TypeOK
<1> QED BY <1>1, <1>2, TakeJobInv DEF Callers

\* An operator retries a job.
LEMMA RetryJobInv ==
    ASSUME ActivationInv, NEW o \in Operators, NEW j \in Jobs, RetryJob(o, j)
    PROVE  ActivationInv'
<1>1. o \in Callers /\ o \notin Workers /\ todo' \in [Workers -> SUBSET Jobs]
  BY DEF Callers, ActivationInv, TypeOK, RetryJob
<1> QED BY <1>1, TakeJobInv DEF RetryJob

\* The provider may have acted whether or not it answered; an answer is a success.
LEMMA ProvisionInv ==
    ASSUME ActivationInv, NEW c \in Callers, Provision(c)
    PROVE  ActivationInv'
<1> USE DEF ActivationInv
<1>1. /\ at[c] = "call" /\ Goto(c, "audit")
      /\ UNCHANGED <<outboxVars, jobs, attempted, on, todo>>
  BY DEF Provision
<1>2. OutboxInv' /\ status' = status /\ batch' = batch
  BY <1>1, OutboxStays
<1>3. /\ at'[c] = "audit" /\ at' \in [Callers -> Steps]
      /\ \A d \in Callers \ {c} : at'[d] = at[d]
  BY <1>1, OthersStay DEF Steps, ExecutionSteps
<1>4. on[c] # NoJob /\ on[c] \in Jobs
  BY <1>1 DEF CallsFit, TypeOK, ExecutionSteps
<1>5. /\ account' \in SUBSET Jobs /\ account \subseteq account'
      /\ outcome' \in [Callers -> Outcomes]
      /\ \A d \in Callers \ {c} : outcome'[d] = outcome[d]
      /\ \/ outcome'[c] = "succeeded" /\ on[c] \in account'
         \/ outcome'[c] = outcome[c]
  BY <1>4 DEF Provision, TypeOK, Outcomes, Terminal
<1>6. TypeOK'
  BY <1>1, <1>2, <1>3, <1>5 DEF TypeOK, OutboxInv, jobs
<1>7. CallsFit'
  BY <1>1, <1>2, <1>3, <1>4, CallerMoves DEF ExecutionSteps
<1>8. JobsCovered'
  BY <1>1, <1>2, <1>3, CoverStays DEF ExecutionSteps, jobs
<1>9. ExecutionsAlone'
  BY <1>1 DEF ExecutionsAlone, jobs
<1>10. EvidenceInHand'
  <2>1. OutcomesAreBacked'
    BY <1>1, <1>5 DEF EvidenceInHand, OutcomesAreBacked, jobs
  <2>2. at[c] = "call" => outcome[c] # "succeeded"
    BY DEF EvidenceInHand
  <2> QED BY <1>1, <1>3, <1>5, <2>1, <2>2 DEF EvidenceInHand, ExecutionSteps, jobs
<1> QED BY <1>2, <1>6, <1>7, <1>8, <1>9, <1>10

\* The attempt is on record before its outcome is.
LEMMA RecordAttemptInv ==
    ASSUME ActivationInv, NEW c \in Callers, RecordAttempt(c)
    PROVE  ActivationInv'
<1> USE DEF ActivationInv
<1>1. /\ at[c] = "audit" /\ Goto(c, "mark")
      /\ attempted' = attempted \cup {<<on[c], outcome[c]>>}
      /\ UNCHANGED <<outboxVars, jobs, account, on, outcome, todo>>
  BY DEF RecordAttempt
<1>2. OutboxInv' /\ status' = status /\ batch' = batch
  BY <1>1, OutboxStays
<1>3. /\ at'[c] = "mark" /\ at' \in [Callers -> Steps]
      /\ \A d \in Callers \ {c} : at'[d] = at[d]
  BY <1>1, OthersStay DEF Steps, ExecutionSteps
<1>4. on[c] # NoJob /\ on[c] \in Jobs /\ outcome[c] \in Outcomes
  BY <1>1 DEF CallsFit, TypeOK, ExecutionSteps
<1>5. TypeOK'
  BY <1>1, <1>2, <1>3, <1>4 DEF TypeOK, OutboxInv, jobs
<1>6. CallsFit'
  BY <1>1, <1>2, <1>3, <1>4, CallerMoves DEF ExecutionSteps
<1>7. JobsCovered'
  BY <1>1, <1>2, <1>3, CoverStays DEF ExecutionSteps, jobs
<1>8. ExecutionsAlone'
  BY <1>1 DEF ExecutionsAlone, jobs
<1>9. EvidenceInHand'
  <2>1. OutcomesAreBacked'
    BY <1>1 DEF EvidenceInHand, OutcomesAreBacked, jobs
  <2> QED BY <1>1, <1>3, <2>1 DEF EvidenceInHand, ExecutionSteps, jobs
<1> QED BY <1>2, <1>5, <1>6, <1>7, <1>8, <1>9

\* The outcome is stored over whatever status the job has by then.
LEMMA MarkOutcomeInv ==
    ASSUME ActivationInv, NEW c \in Callers, MarkOutcome(c)
    PROVE  ActivationInv'
<1> USE DEF ActivationInv
<1>1. /\ at[c] = "mark"
      /\ job' = [job EXCEPT ![on[c]] = outcome[c]]
      /\ since' = [since EXCEPT ![on[c]] = 0]
      /\ on' = [on EXCEPT ![c] = NoJob]
      /\ outcome' = [outcome EXCEPT ![c] = "retry"]
      /\ UNCHANGED <<outboxVars, tries, account, attempted, todo>>
  BY DEF MarkOutcome
<1>2. OutboxInv' /\ status' = status /\ batch' = batch
  BY <1>1, OutboxStays
<1>3. /\ \E step \in {"next", "failed", "idle"} :
            Goto(c, step) /\ (step = "next" => c \in Workers)
                          /\ (step = "idle" => c \notin Workers)
                          /\ (step = "failed" => c \in Workers)
  BY DEF MarkOutcome, Raise
<1>4. /\ at'[c] \in IF c \in Workers THEN {"next", "failed"} ELSE {"idle"}
      /\ at' \in [Callers -> Steps]
      /\ \A d \in Callers \ {c} : at'[d] = at[d]
  BY <1>3, OthersStay DEF Steps
<1>5. on[c] # NoJob /\ on[c] \in Jobs /\ outcome[c] \in Outcomes
  BY <1>1 DEF CallsFit, TypeOK, ExecutionSteps
<1>6. /\ job'[on[c]] = outcome[c] /\ since'[on[c]] = 0
      /\ \A j \in Jobs \ {on[c]} : job'[j] = job[j] /\ since'[j] = since[j]
      /\ on'[c] = NoJob
      /\ \A d \in Callers \ {c} : on'[d] = on[d] /\ outcome'[d] = outcome[d]
  BY <1>1, <1>5 DEF TypeOK
<1>7. TypeOK'
  <2>1. /\ job' \in [Jobs -> JobStatuses] /\ since' \in [Jobs -> 0..Lease]
        /\ on' \in [Callers -> Jobs \cup {NoJob}] /\ outcome' \in [Callers -> Outcomes]
    BY <1>1, <1>5 DEF TypeOK, JobStatuses, Outcomes
  <2> QED BY <1>1, <1>2, <1>4, <2>1 DEF TypeOK, OutboxInv
<1>8. CallsFit'
  BY <1>1, <1>2, <1>4, <1>6, CallerMoves DEF ExecutionSteps, Callers
<1>9. JobsCovered'
  BY <1>1, <1>2, <1>4, <1>5, <1>6, CoverStays DEF ExecutionSteps, Outcomes, Terminal, Callers
<1>10. ExecutionsAlone'
  <2>1. \A d \in Callers : on[d] # NoJob => on[d] \in Jobs
    BY DEF TypeOK
  <2> QED BY <1>5, <1>6, <2>1 DEF ExecutionsAlone, Callers
<1>11. EvidenceInHand'
  <2>1. OutcomesAreBacked'
    BY <1>1, <1>5, <1>6 DEF EvidenceInHand, OutcomesAreBacked, Terminal, ExecutionSteps
  <2> QED BY <1>1, <1>4, <1>6, <2>1 DEF EvidenceInHand, ExecutionSteps
<1> QED BY <1>2, <1>7, <1>8, <1>9, <1>10, <1>11

\* An execution that fails outside the provider leaves the job as it is.
LEMMA FaultInv ==
    ASSUME ActivationInv, NEW c \in Callers, Fault(c)
    PROVE  ActivationInv'
<1> USE DEF ActivationInv
<1>1. /\ at[c] \in FaultySteps /\ Raise(c)
      /\ on' = [on EXCEPT ![c] = NoJob]
      /\ outcome' = [outcome EXCEPT ![c] = "retry"]
      /\ UNCHANGED <<outboxVars, jobs, account, attempted, todo>>
  BY DEF Fault
<1>2. OutboxInv' /\ status' = status /\ batch' = batch
  BY <1>1, OutboxStays
<1>3. /\ at'[c] = IF c \in Workers THEN "failed" ELSE "idle"
      /\ at' \in [Callers -> Steps]
      /\ \A d \in Callers \ {c} : at'[d] = at[d]
  BY <1>1, OthersStay DEF Raise, Steps
<1>4. /\ on'[c] = NoJob /\ outcome'[c] = "retry" /\ at[c] # "idle"
      /\ \A d \in Callers \ {c} : on'[d] = on[d] /\ outcome'[d] = outcome[d]
  BY <1>1 DEF TypeOK
<1>5. TypeOK'
  BY <1>1, <1>2, <1>3 DEF TypeOK, OutboxInv, jobs, Outcomes
<1>6. CallsFit'
  BY <1>1, <1>2, <1>3, <1>4, CallerMoves DEF ExecutionSteps, Callers
<1>7. JobsCovered'
  BY <1>1, <1>2, <1>3, CoverStays DEF ExecutionSteps, jobs
<1>8. ExecutionsAlone'
  BY <1>1, <1>4 DEF ExecutionsAlone, jobs, Callers
<1>9. EvidenceInHand'
  <2>1. OutcomesAreBacked'
    BY <1>1 DEF EvidenceInHand, OutcomesAreBacked, jobs
  <2> QED BY <1>1, <1>3, <1>4, <2>1 DEF EvidenceInHand, ExecutionSteps, jobs
<1> QED BY <1>2, <1>5, <1>6, <1>7, <1>8, <1>9

\* A worker that is done with an event, or that dies, leaves nothing behind but the
\* jobs as they are.
LEMMA WorkerLetsGo ==
    ASSUME ActivationInv, OutboxInv', NEW w \in Workers, Goto(w, "idle"),
           UNCHANGED <<jobs, account, attempted>>,
           \A v \in Workers \ {w} : batch'[v] = batch[v],
           \A e \in Events : status'[e] = "processed" =>
              status[e] = "processed" \/ EventJobs(e) \cap Unattempted = {},
           on' \in [Callers -> Jobs \cup {NoJob}], on'[w] = NoJob,
           outcome' \in [Callers -> Outcomes], todo' \in [Workers -> SUBSET Jobs],
           todo'[w] = {},
           \A c \in Callers \ {w} : on'[c] = on[c] /\ outcome'[c] = outcome[c],
           \A v \in Workers \ {w} : todo'[v] = todo[v]
    PROVE  ActivationInv'
<1> USE DEF ActivationInv
<1>1. /\ at'[w] = "idle" /\ at' \in [Callers -> Steps]
      /\ \A d \in Callers \ {w} : at'[d] = at[d]
  BY OthersStay DEF Steps, Callers
<1>2. \A v \in Workers \ {w}, e \in Events : IsCurrent(v, e)' <=> IsCurrent(v, e)
  BY DEF IsCurrent
<1>3. TypeOK'
  BY <1>1 DEF TypeOK, OutboxInv, jobs
<1>4. CallsFit'
  BY <1>1, <1>2 DEF CallsFit, ExecutionSteps, Callers
<1>5. JobsCovered'
  <2>1. Unattempted' = Unattempted
    BY DEF Unattempted, jobs
  <2> QED BY <1>1, <1>2, <2>1 DEF JobsCovered, ExecutionSteps, Callers, jobs
<1>6. ExecutionsAlone'
  BY DEF ExecutionsAlone, Callers, jobs
<1>7. EvidenceInHand'
  <2>1. OutcomesAreBacked'
    BY DEF EvidenceInHand, OutcomesAreBacked, jobs
  <2> QED BY <1>1, <2>1 DEF EvidenceInHand, ExecutionSteps, jobs
<1> QED BY <1>3, <1>4, <1>5, <1>6, <1>7

\* What settling an event leaves to the other workers, and which events it settles.
LEMMA SettleFacts ==
    ASSUME OutboxTypeOK, NEW w \in Workers, NEW f \in Events, NEW result, Settle(w, f, result)
    PROVE  /\ \A v \in Workers \ {w} : batch'[v] = batch[v]
           /\ \A e \in Events : status'[e] \in {status[e]} \cup IF e = f THEN {result} ELSE {}
BY DEF Settle, OutboxTypeOK

\* An event is processed when nothing is left on its worker's list.
LEMMA HandlerReturnedInv ==
    ASSUME ActivationInv, NEW w \in Workers, NEW e \in Events, HandlerReturned(w, e)
    PROVE  ActivationInv'
<1> USE DEF ActivationInv
<1>1. /\ IsCurrent(w, e) /\ at[w] = "next" /\ todo[w] = {} /\ Goto(w, "idle")
      /\ Settle(w, e, "processed") /\ e \in batch[w] /\ w \in Callers
      /\ UNCHANGED <<jobs, account, attempted, on, outcome, todo>>
  BY DEF HandlerReturned, MarkProcessed, IsCurrent, Callers
<1>2. OutboxInv'
  BY <1>1, SettleInv
<1>3. /\ \A v \in Workers \ {w} : batch'[v] = batch[v]
      /\ \A f \in Events : status'[f] = "processed" => status[f] = "processed" \/ f = e
  BY <1>1, SettleFacts DEF OutboxInv
<1>4. EventJobs(e) \cap Unattempted = {}
  BY <1>1 DEF JobsCovered
<1>5. on[w] = NoJob
  BY <1>1 DEF CallsFit, ExecutionSteps
<1>6. /\ on' \in [Callers -> Jobs \cup {NoJob}] /\ outcome' \in [Callers -> Outcomes]
      /\ todo' \in [Workers -> SUBSET Jobs]
  BY <1>1 DEF TypeOK
<1> QED BY <1>1, <1>2, <1>3, <1>4, <1>5, <1>6, WorkerLetsGo

\* A handler that raised gives the event back, or gives it up.
LEMMA HandlerRaisedInv ==
    ASSUME ActivationInv, NEW w \in Workers, NEW e \in Events, HandlerRaised(w, e)
    PROVE  ActivationInv'
<1> USE DEF ActivationInv
<1>1. /\ IsCurrent(w, e) /\ at[w] = "failed" /\ Goto(w, "idle")
      /\ RecordFailure(w, e) /\ e \in batch[w] /\ w \in Callers
      /\ todo' = [todo EXCEPT ![w] = {}]
      /\ UNCHANGED <<jobs, account, attempted, on, outcome>>
  BY DEF HandlerRaised, IsCurrent, Callers
<1>2. OutboxInv'
  BY <1>1, HandledInv DEF Handled
<1>3. FailureOutcome(e) \in {"retry", "quarantined"}
  BY FailureOutcomes DEF OutboxInv
<1>4. /\ \A v \in Workers \ {w} : batch'[v] = batch[v]
      /\ \A f \in Events : status'[f] = "processed" => status[f] = "processed"
  BY <1>1, <1>3, SettleFacts DEF OutboxInv, RecordFailure
<1>5. on[w] = NoJob
  BY <1>1 DEF CallsFit, ExecutionSteps
<1>6. /\ on' \in [Callers -> Jobs \cup {NoJob}] /\ outcome' \in [Callers -> Outcomes]
      /\ todo' \in [Workers -> SUBSET Jobs] /\ todo'[w] = {}
      /\ \A v \in Workers \ {w} : todo'[v] = todo[v]
  BY <1>1 DEF TypeOK
<1> QED BY <1>1, <1>2, <1>4, <1>5, <1>6, WorkerLetsGo

\* A worker dies at any of its steps.
LEMMA WorkerCrashInv ==
    ASSUME ActivationInv, NEW w \in Workers, WorkerCrash(w)
    PROVE  ActivationInv'
<1> USE DEF ActivationInv
<1>1. /\ Crash(w) /\ Goto(w, "idle") /\ w \in Callers
      /\ on' = [on EXCEPT ![w] = NoJob]
      /\ outcome' = [outcome EXCEPT ![w] = "retry"]
      /\ todo' = [todo EXCEPT ![w] = {}]
      /\ UNCHANGED <<jobs, account, attempted>>
  BY DEF WorkerCrash, Callers
<1>2. OutboxInv'
  BY <1>1, CrashInv
<1>3. /\ \A v \in Workers \ {w} : batch'[v] = batch[v]
      /\ status' = status
  BY <1>1 DEF Crash, OutboxInv, OutboxTypeOK
<1>4. /\ on' \in [Callers -> Jobs \cup {NoJob}] /\ outcome' \in [Callers -> Outcomes]
      /\ todo' \in [Workers -> SUBSET Jobs]
      /\ on'[w] = NoJob /\ todo'[w] = {}
      /\ \A v \in Workers \ {w} : todo'[v] = todo[v]
      /\ \A c \in Callers \ {w} : on'[c] = on[c] /\ outcome'[c] = outcome[c]
  BY <1>1 DEF TypeOK, Outcomes
<1> QED BY <1>1, <1>2, <1>3, <1>4, WorkerLetsGo

\* The process of an operator's call dies: one more crash, and no claim is touched.
LEMMA OperatorCrashInv ==
    ASSUME ActivationInv, NEW o \in Operators, OperatorCrash(o)
    PROVE  ActivationInv'
<1> USE DEF ActivationInv
<1>1. /\ at[o] # "idle" /\ Goto(o, "idle") /\ o \in Callers /\ o \notin Workers
      /\ crashes < MaxCrashes /\ crashes' = crashes + 1
      /\ on' = [on EXCEPT ![o] = NoJob]
      /\ outcome' = [outcome EXCEPT ![o] = "retry"]
      /\ UNCHANGED <<queue, batch, jobs, account, attempted, todo>>
  BY DEF OperatorCrash, Callers
<1>2. OutboxInv'
  <2>1. OutboxTypeOK'
    BY <1>1 DEF OutboxInv, OutboxTypeOK, queue
  <2>2. ClaimsAreHeld' /\ LiveClaimsAreFresh' /\ BatchesAreOwned' /\ QuarantineIsLate'
    BY <1>1 DEF OutboxInv, ClaimsAreHeld, LiveClaimsAreFresh, BatchesAreOwned,
                QuarantineIsLate, queue
  <2>3. AttemptsCounted'
    BY <1>1 DEF OutboxInv, OutboxTypeOK, AttemptsCounted, AttemptsOf, AttemptCap, queue
  <2> QED BY <2>1, <2>2, <2>3 DEF OutboxInv
<1>3. /\ at'[o] = "idle" /\ at' \in [Callers -> Steps]
      /\ \A d \in Callers \ {o} : at'[d] = at[d]
  BY <1>1, OthersStay DEF Steps
<1>4. /\ on'[o] = NoJob /\ outcome'[o] = "retry" /\ batch' = batch /\ status' = status
      /\ \A d \in Callers \ {o} : on'[d] = on[d] /\ outcome'[d] = outcome[d]
  BY <1>1 DEF TypeOK, queue
<1>5. TypeOK'
  BY <1>1, <1>2, <1>3 DEF TypeOK, OutboxInv, jobs, Outcomes
<1>6. CallsFit'
  BY <1>1, <1>3, <1>4, CallerMoves DEF ExecutionSteps
<1>7. JobsCovered'
  BY <1>1, <1>3, <1>4, CoverStays DEF jobs
<1>8. ExecutionsAlone'
  BY <1>1, <1>4 DEF ExecutionsAlone, jobs, Callers
<1>9. EvidenceInHand'
  <2>1. OutcomesAreBacked'
    BY <1>1 DEF EvidenceInHand, OutcomesAreBacked, jobs
  <2> QED BY <1>1, <1>3, <1>4, <2>1 DEF EvidenceInHand, ExecutionSteps, jobs
<1> QED BY <1>2, <1>5, <1>6, <1>7, <1>8, <1>9

\* Claims and executions grow older; those of timely callers not to a lease.
LEMMA TimeInv ==
    ASSUME ActivationInv, Time
    PROVE  ActivationInv'
<1> USE DEF ActivationInv
<1>1. /\ LeasesKept /\ ExecutionsKept /\ Ageing
      /\ since' = [j \in Jobs |-> IF job[j] = "processing" THEN Older(since[j]) ELSE since[j]]
      /\ UNCHANGED <<status, owner, attempts, batch, crashes, job, tries>>
      /\ UNCHANGED <<account, attempted, calls>>
  BY DEF Time
<1>2. OutboxInv'
  BY <1>1, AgeingInv
<1>3. TypeOK'
  <2>1. since' \in [Jobs -> 0..Lease]
    BY <1>1 DEF TypeOK, Older
  <2> QED BY <1>1, <1>2, <2>1 DEF TypeOK, OutboxInv, calls
<1>4. CallsFit' /\ JobsCovered'
  BY <1>1 DEF CallsFit, JobsCovered, IsCurrent, Unattempted, calls
<1>5. ExecutionsAlone'
  <2>1. ASSUME Timely, NEW o \in Operators, on[o] # NoJob
        PROVE  since'[on[o]] < Lease
    <3>1. on[o] \in Jobs /\ since[on[o]] + 1 < Lease /\ since[on[o]] \in 0..Lease
      BY <1>1, <2>1 DEF TypeOK, ExecutionsKept, Callers
    <3> QED BY <1>1, <3>1 DEF Older
  <2> QED BY <1>1, <2>1 DEF ExecutionsAlone, calls
<1>6. EvidenceInHand'
  BY <1>1 DEF EvidenceInHand, OutcomesAreBacked, calls
<1> QED BY <1>2, <1>3, <1>4, <1>5, <1>6

\* Every step of workers, operators, their failures and the clock.
LEMMA ActivationStep == ActivationInv /\ [Next]_vars => ActivationInv'
<1> SUFFICES ASSUME ActivationInv, [Next]_vars PROVE ActivationInv'
  OBVIOUS
<1>1. ASSUME NEW c \in Callers, Execution(c) PROVE ActivationInv'
  BY <1>1, ProvisionInv, RecordAttemptInv, MarkOutcomeInv DEF Execution
<1>2. ASSUME NEW w \in Workers, WorkerStep(w) PROVE ActivationInv'
  <2>1. CASE ClaimEvents(w)
    BY <2>1, ClaimEventsInv
  <2>2. ASSUME NEW e \in Events, EnsureJobs(w, e) \/ RecoverJobs(w, e) PROVE ActivationInv'
    BY <2>2, EnsureJobsInv, RecoverJobsInv
  <2>3. ASSUME NEW j \in Jobs, ExecuteNext(w, j) PROVE ActivationInv'
    BY <2>3, ExecuteNextInv
  <2>4. ASSUME NEW e \in Events, HandlerReturned(w, e) \/ HandlerRaised(w, e)
        PROVE  ActivationInv'
    BY <2>4, HandlerReturnedInv, HandlerRaisedInv
  <2>5. w \in Callers
    BY DEF Callers
  <2> QED BY <1>1, <1>2, <2>1, <2>2, <2>3, <2>4, <2>5 DEF WorkerStep
<1>3. ASSUME NEW o \in Operators, OperatorStep(o) PROVE ActivationInv'
  <2>1. o \in Callers
    BY DEF Callers
  <2> QED BY <1>1, <1>3, <2>1, RetryJobInv DEF OperatorStep
<1>4. ASSUME NEW w \in Workers, WorkerCrash(w) PROVE ActivationInv'
  BY <1>4, WorkerCrashInv
<1>5. ASSUME NEW o \in Operators, OperatorCrash(o) PROVE ActivationInv'
  BY <1>5, OperatorCrashInv
<1>6. ASSUME NEW e \in Events, Publish(e) PROVE ActivationInv'
  BY <1>6, PublishInv
<1>7. ASSUME NEW c \in Callers, Fault(c) PROVE ActivationInv'
  BY <1>7, FaultInv
<1>8. CASE Time
  BY <1>8, TimeInv
<1>9. CASE UNCHANGED vars
  <2>1. UNCHANGED <<outboxVars, jobs, account, attempted, calls>>
    BY <1>9 DEF vars
  <2>2. OutboxInv' /\ status' = status /\ batch' = batch
    BY <2>1, OutboxStays DEF ActivationInv
  <2> QED BY <2>1, <2>2 DEF ActivationInv, TypeOK, OutboxInv, CallsFit, JobsCovered,
          ExecutionsAlone, EvidenceInHand, OutcomesAreBacked, Unattempted, IsCurrent,
          jobs, calls
<1> QED BY <1>2, <1>3, <1>4, <1>5, <1>6, <1>7, <1>8, <1>9 DEF Next, Rest

----------------------------------------------------------------------------

\* The invariant behind the safety of the consumer, for every number of workers,
\* operators, events and destinations, and whichever steps may fail.
THEOREM ActivationCorrect == Spec => []ActivationInv
BY ActivationInit, ActivationStep, PTL DEF Spec

\* No processed event has a destination that was never attempted.
THEOREM JobsAreNotForgotten == Spec => []NothingForgotten
<1>1. ActivationInv => NothingForgotten
  BY EventJobsFacts DEF ActivationInv, JobsCovered, Unattempted, NothingForgotten
<1> QED BY <1>1, ActivationCorrect, PTL

\* Timely workers and operators never execute the same job.
THEOREM ExecutedOnce == Spec => []OneExecutionAtATime
<1>1. ActivationInv => OneExecutionAtATime
  BY DEF ActivationInv, CallsFit, ExecutionsAlone, Executing, OneExecutionAtATime
<1> QED BY <1>1, ActivationCorrect, PTL

\* What a job's terminal state says happened is in the audit log, at the provider
\* and in the attempts: proved without any assumption on timing.
THEOREM OutcomesHaveEvidence == Spec => []OutcomesAreBacked
<1>1. ActivationInv => OutcomesAreBacked
  BY DEF ActivationInv, EvidenceInHand
<1> QED BY <1>1, ActivationCorrect, PTL

\* The outbox keeps what it promises while its consumer runs: the claims of timely
\* workers are disjoint, and attempts are counted exactly.
THEOREM OutboxKeepsItsPromises == Spec => [](ClaimsAreHeld /\ OneHandlerAtATime /\ AttemptsAreExact)
<1>1. ActivationInv => ClaimsAreHeld /\ OneHandlerAtATime /\ AttemptsAreExact
  BY DEF ActivationInv, OutboxInv, OutboxTypeOK, BatchesAreOwned, AttemptsCounted, AttemptsOf,
         QuarantineIsLate, OneHandlerAtATime, AttemptsAreExact
<1> QED BY <1>1, ActivationCorrect, PTL
=============================================================================
