------------------------------- MODULE Outbox -------------------------------
(***************************************************************************)
(* The transactional outbox (ADR-0004): events appended with the state     *)
(* change they announce, claimed in batches by worker processes under a    *)
(* lease, delivered at least once, and in the end processed or quarantined.*)
(*                                                                         *)
(* One step is one database transaction.  What a handler does with an event*)
(* is left open here -- it returns or it raises; Activation fills it in.   *)
(* Time is counted in ticks, `Lease' of them to a lease.  The back-off of a*)
(* failed event (at most 16 s under the default settings) is shorter than  *)
(* any tick, so a retry may be claimed at any moment.                      *)
(***************************************************************************)
EXTENDS Integers, FiniteSets

CONSTANTS
    Workers,       \* the worker processes
    Events,        \* the events, numbered in the order they are created
    BatchSize,     \* how many events one claim may take
    Lease,         \* ticks after which an unfinished claim is abandoned
    MaxAttempts,   \* claims after which a failure is terminal
    MaxCrashes,    \* bound on the crashes of workers
    Timely,        \* whether live workers finish their claims within the lease
    Nobody,        \* owner of an event that is not claimed
    Gone           \* owner of an event whose worker process no longer exists

ASSUME EventsAssumption == Events \subseteq Nat
ASSUME BatchAssumption == BatchSize \in Nat \ {0}
ASSUME LeaseAssumption == Lease \in Nat \ {0}
ASSUME AttemptsAssumption == MaxAttempts \in Nat \ {0} /\ MaxCrashes \in Nat
ASSUME TimelyAssumption == Timely \in BOOLEAN
ASSUME OwnersAssumption ==
    Nobody \notin Workers /\ Gone \notin Workers /\ Gone # Nobody

VARIABLES
    status,     \* the delivery state of each event
    owner,      \* locked_by: the claim's worker
    age,        \* ticks since locked_at, up to the lease
    attempts,   \* how often each event was claimed, up to AttemptCap
    batch,      \* what each worker has claimed and not yet settled, in its memory
    crashes     \* how many worker processes died

queue == <<status, owner, age, attempts>>
outboxVars == <<queue, batch, crashes>>

Settled == {"processed", "quarantined"}
Statuses == {"absent", "pending", "processing", "retry"} \cup Settled

\* Only slow handlers get this far: the counter stops here.
AttemptCap == MaxAttempts + MaxCrashes + 1

OutboxTypeOK ==
    /\ status \in [Events -> Statuses]
    /\ owner \in [Events -> Workers \cup {Nobody, Gone}]
    /\ age \in [Events -> 0..Lease]
    /\ attempts \in [Events -> 0..AttemptCap]
    /\ batch \in [Workers -> SUBSET Events]
    /\ crashes \in 0..MaxCrashes

OutboxInit ==
    /\ status = [e \in Events |-> "absent"]
    /\ owner = [e \in Events |-> Nobody]
    /\ age = [e \in Events |-> 0]
    /\ attempts = [e \in Events |-> 0]
    /\ batch = [w \in Workers |-> {}]
    /\ crashes = 0

----------------------------------------------------------------------------

\* The owning transaction appends the event; its idempotency key admits it once.
Enqueue(e) ==
    /\ status[e] = "absent"
    /\ status' = [status EXCEPT ![e] = "pending"]
    /\ UNCHANGED <<owner, age, attempts, batch, crashes>>

\* Slip: a claim can be taken over too early.
ClaimableEarly(e) ==
    \/ status[e] \in {"pending", "retry"}
    \/ status[e] = "processing" /\ age[e] >= Lease - 1

\* Due, or abandoned by the worker that claimed it.
Claimable(e) ==
    \/ status[e] \in {"pending", "retry"}
    \/ status[e] = "processing" /\ age[e] = Lease

\* Slip: claims are not counted.
NotCounted(n) == n

Counted(n) == IF n < AttemptCap THEN n + 1 ELSE n

\* claim_batch: lease up to BatchSize claimable events.  Rows that another
\* transaction has locked at that moment are skipped, so any of them may be
\* missing from the batch.
Claim(w) ==
    /\ batch[w] = {}
    /\ \E taken \in SUBSET {e \in Events : Claimable(e)} :
          /\ taken # {} /\ Cardinality(taken) <= BatchSize
          /\ batch' = [batch EXCEPT ![w] = taken]
          /\ status' = [e \in Events |->
                IF e \in taken THEN "processing" ELSE status[e]]
          /\ owner' = [e \in Events |-> IF e \in taken THEN w ELSE owner[e]]
          /\ age' = [e \in Events |-> IF e \in taken THEN 0 ELSE age[e]]
          /\ attempts' = [e \in Events |->
                IF e \in taken THEN Counted(attempts[e]) ELSE attempts[e]]
    /\ UNCHANGED crashes

\* The event a worker is at: its batch is handled in order of creation.
IsCurrent(w, e) == e \in batch[w] /\ \A other \in batch[w] : e <= other

\* Whether a worker may still settle an event.
Holds(w, e) == status[e] = "processing" /\ owner[e] = w

\* Record how the claim of e ended, unless another worker has taken it over.
Settle(w, e, outcome) ==
    /\ batch' = [batch EXCEPT ![w] = @ \ {e}]
    /\ IF Holds(w, e)
       THEN /\ status' = [status EXCEPT ![e] = outcome]
            /\ owner' = [owner EXCEPT ![e] = Nobody]
            /\ age' = [age EXCEPT ![e] = 0]
       ELSE UNCHANGED <<status, owner, age>>
    /\ UNCHANGED <<attempts, crashes>>

MarkProcessed(w, e) == Settle(w, e, "processed")

\* Slip: the bound is off by one.
FailureOutcomeEarly(e) == IF attempts[e] + 1 >= MaxAttempts THEN "quarantined" ELSE "retry"

\* A failure is retried until the attempts are exhausted.
FailureOutcome(e) == IF attempts[e] >= MaxAttempts THEN "quarantined" ELSE "retry"

RecordFailure(w, e) == Settle(w, e, FailureOutcome(e))

\* The process dies, or a settling transaction raises out of its loop.  Its
\* successor runs under a fresh worker_id and an empty batch; the rows keep the
\* name of a process that no longer exists.
Crash(w) ==
    /\ crashes < MaxCrashes
    /\ crashes' = crashes + 1
    /\ batch' = [batch EXCEPT ![w] = {}]
    /\ owner' = [e \in Events |-> IF owner[e] = w THEN Gone ELSE owner[e]]
    /\ UNCHANGED <<status, age, attempts>>

Older(n) == IF n < Lease THEN n + 1 ELSE n
Ageing == age' = [e \in Events |->
              IF status[e] = "processing" THEN Older(age[e]) ELSE age[e]]

\* When workers are timely, a lease never runs out under a live one.
LeasesKept == Timely => \A e \in Events :
    status[e] = "processing" /\ owner[e] \in Workers => age[e] + 1 < Lease

Tick ==
    /\ LeasesKept
    /\ \E e \in Events : status[e] = "processing" /\ age[e] < Lease
    /\ Ageing
    /\ UNCHANGED <<status, owner, attempts, batch, crashes>>

----------------------------------------------------------------------------

\* The handler of the current event returned, or it raised.
Handled(w) == \E e \in Events :
    IsCurrent(w, e) /\ (MarkProcessed(w, e) \/ RecordFailure(w, e))

\* Everything is settled: the workers poll in vain.
Drained ==
    /\ \A e \in Events : status[e] \in Settled
    /\ \A w \in Workers : batch[w] = {}
    /\ UNCHANGED outboxVars

OutboxNext ==
    \/ \E e \in Events : Enqueue(e)
    \/ \E w \in Workers : Claim(w) \/ Handled(w) \/ Crash(w)
    \/ Tick
    \/ Drained

OutboxSpec == OutboxInit /\ [][OutboxNext]_outboxVars
----------------------------------------------------------------------------
(***************************************************************************)
(* Properties.                                                             *)
(***************************************************************************)

\* An event that was processed or quarantined stays that way: a worker whose
\* lease was taken over cannot reopen, overwrite or requeue it, however late it
\* reports.
SettledIsFinal ==
    [][\A e \in Events : status[e] \in Settled => status'[e] = status[e]]_status

\* A claim is never lost inside a live worker: whatever its name is on is still
\* in its batch, and the rows of a dead worker are not in anyone's name.
ClaimsAreHeld ==
    /\ \A e \in Events : status[e] = "processing" <=> owner[e] # Nobody
    /\ \A e \in Events, w \in Workers : owner[e] = w => e \in batch[w]

\* While workers keep to their leases no event is handled by two of them.
OneHandlerAtATime ==
    Timely => \A v, w \in Workers : v # w => batch[v] \cap batch[w] = {}

\* An event is only given up after MaxAttempts claims, and is not claimed more
\* often than that except once for every crash.
AttemptsAreExact ==
    /\ \A e \in Events : status[e] = "quarantined" => attempts[e] >= MaxAttempts
    /\ Timely => \A e \in Events : attempts[e] <= MaxAttempts + crashes

\* ADR-0004: accepted state changes are not "silently disconnected from
\* required side effects" -- every published event is processed or visibly
\* quarantined, across crashes.
EveryEventSettles == \A e \in Events : status[e] = "pending" ~> status[e] \in Settled
=============================================================================
