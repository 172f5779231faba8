----------------------------- MODULE Activation -----------------------------
(***************************************************************************)
(* The consumer of the outbox: a person was activated, and every           *)
(* provisioning destination gets a job for it.                             *)
(*                                                                         *)
(* A worker that has claimed an event creates the missing jobs, returns    *)
(* abandoned ones to retry, and executes those that are due one after the  *)
(* other; the first that fails ends the handling of the event.  Executing a*)
(* job is a claim of the job, a call of the provider, an audit append and  *)
(* the outcome, each on its own.  An operator's retry executes one job the *)
(* same way, without an event.  The jobs have a lease too, of the same     *)
(* length: a job still processing that long after its last update counts as*)
(* abandoned.                                                              *)
(***************************************************************************)
EXTENDS Outbox

CONSTANTS
    Operators,     \* retries running in the API process
    Targets,       \* the provisioning destinations
    FaultySteps,   \* steps whose transaction may fail
    NoJob          \* on[c] of a caller that executes nothing

ASSUME CallersAssumption == Workers \cap Operators = {}

Callers == Workers \cup Operators
Jobs == Events \X Targets
EventJobs(e) == {e} \X Targets

ASSUME NoJobAssumption == NoJob \notin Jobs
ASSUME FaultsAssumption ==
    FaultySteps \subseteq {"ensure", "recover", "next", "call", "audit", "mark"}

VARIABLES
    job,        \* the status of each job
    since,      \* ticks since the job's last update while it is processing
    tries,      \* attempts of each job, up to MaxAttempts
    account,    \* the provider's effects: external to this system
    attempted,  \* the audit evidence: job and outcome of an attempt
    at,         \* the step each caller takes next
    on,         \* the job it executes
    outcome,    \* the status that job will get
    todo        \* the jobs a worker has yet to execute for its event

jobs == <<job, since, tries>>
calls == <<at, on, outcome, todo>>
vars == <<outboxVars, jobs, account, attempted, calls>>

Terminal == {"succeeded", "failed"}
Outcomes == Terminal \cup {"retry"}
JobStatuses == {"absent", "pending", "processing"} \cup Outcomes
ExecutionSteps == {"call", "audit", "mark"}
Steps == {"idle", "recover", "next", "failed"} \cup ExecutionSteps

TypeOK ==
    /\ OutboxTypeOK
    /\ job \in [Jobs -> JobStatuses]
    /\ since \in [Jobs -> 0..Lease]
    /\ tries \in [Jobs -> 0..MaxAttempts]
    /\ account \in SUBSET Jobs
    /\ attempted \in SUBSET (Jobs \X Outcomes)
    /\ at \in [Callers -> Steps]
    /\ on \in [Callers -> Jobs \cup {NoJob}]
    /\ outcome \in [Callers -> Outcomes]
    /\ todo \in [Workers -> SUBSET Jobs]

Init ==
    /\ OutboxInit
    /\ job = [j \in Jobs |-> "absent"]
    /\ since = [j \in Jobs |-> 0]
    /\ tries = [j \in Jobs |-> 0]
    /\ account = {}
    /\ attempted = {}
    /\ at = [c \in Callers |-> "idle"]
    /\ on = [c \in Callers |-> NoJob]
    /\ outcome = [c \in Callers |-> "retry"]
    /\ todo = [w \in Workers |-> {}]

----------------------------------------------------------------------------

Goto(c, step) == at' = [at EXCEPT ![c] = step]

\* An exception leaves execute: the handler raises with it, a retry call ends.
Raise(c) == Goto(c, IF c \in Workers THEN "failed" ELSE "idle")

Publish(e) == Enqueue(e) /\ UNCHANGED <<jobs, account, attempted, calls>>

ClaimEvents(w) == Claim(w) /\ UNCHANGED <<jobs, account, attempted, calls>>

\* Slip: every error of an insert is taken for an existing job.
EnsureJobsPartially(w, e) ==
    /\ IsCurrent(w, e) /\ at[w] = "idle"
    /\ \E made \in SUBSET Targets :
          job' = [j \in Jobs |->
              IF job[j] = "absent" /\ j \in {e} \X made THEN "pending" ELSE job[j]]
    /\ Goto(w, "recover")
    /\ UNCHANGED <<outboxVars, since, tries, account, attempted, on, outcome, todo>>

\* ensure_jobs: one insert per destination, in a transaction of its own; the
\* idempotency key makes an insert of an existing job do nothing.
EnsureJobs(w, e) ==
    /\ IsCurrent(w, e) /\ at[w] = "idle"
    /\ \E made \in SUBSET Targets :
          /\ made # Targets => "ensure" \in FaultySteps
          /\ job' = [j \in Jobs |->
                IF job[j] = "absent" /\ j \in {e} \X made THEN "pending" ELSE job[j]]
          /\ Goto(w, IF made = Targets THEN "recover" ELSE "failed")
    /\ UNCHANGED <<outboxVars, since, tries, account, attempted, on, outcome, todo>>

\* can_retry
CanRetry(s) == s \in {"pending", "retry"}

\* Slip: recovery looks at the status only.
AbandonedNow(j) == job[j] = "processing"

\* A job that was left processing for as long as a lease.
Abandoned(j) == job[j] = "processing" /\ since[j] = Lease

\* recover_stale_processing, and the jobs the handler goes on to execute.
RecoverJobs(w, e) ==
    LET recovered == [j \in Jobs |->
            IF j \in EventJobs(e) /\ Abandoned(j) THEN "retry" ELSE job[j]]
    IN  /\ IsCurrent(w, e) /\ at[w] = "recover"
        /\ job' = recovered
        /\ since' = [j \in Jobs |-> IF recovered[j] = job[j] THEN since[j] ELSE 0]
        /\ todo' = [todo EXCEPT ![w] =
              {j \in EventJobs(e) : CanRetry(recovered[j])}]
        /\ Goto(w, "next")
        /\ UNCHANGED <<outboxVars, tries, account, attempted, on, outcome>>

Tried(n) == IF n < MaxAttempts THEN n + 1 ELSE n

\* What the n-th attempt leaves behind if it fails.
FailedAttempt(n) == IF n < MaxAttempts THEN "retry" ELSE "failed"

\* mark_processing: only a pending or retry job can be taken, whatever it was
\* when it was listed.
TakeJob(c, j) ==
    IF CanRetry(job[j])
    THEN /\ job' = [job EXCEPT ![j] = "processing"]
         /\ since' = [since EXCEPT ![j] = 0]
         /\ tries' = [tries EXCEPT ![j] = Tried(@)]
         /\ on' = [on EXCEPT ![c] = j]
         /\ outcome' = [outcome EXCEPT ![c] = FailedAttempt(Tried(tries[j]))]
         /\ Goto(c, "call")
    ELSE Raise(c) /\ UNCHANGED <<jobs, on, outcome>>

\* The order of the jobs is that of an unordered SELECT.
ExecuteNext(w, j) ==
    /\ at[w] = "next" /\ j \in todo[w]
    /\ todo' = [todo EXCEPT ![w] = @ \ {j}]
    /\ TakeJob(w, j)
    /\ UNCHANGED <<outboxVars, account, attempted>>

\* POST .../retry: an operator names any job there is.
RetryJob(o, j) ==
    /\ at[o] = "idle" /\ job[j] # "absent"
    /\ TakeJob(o, j)
    /\ UNCHANGED <<outboxVars, account, attempted, todo>>

\* The provider answers, or the adapter raises -- with or without effect.
Provision(c) ==
    /\ at[c] = "call"
    /\ \/ /\ account' = account \cup {on[c]}
          /\ outcome' = [outcome EXCEPT ![c] = "succeeded"]
       \/ /\ account' \in {account, account \cup {on[c]}}
          /\ UNCHANGED outcome
    /\ Goto(c, "audit")
    /\ UNCHANGED <<outboxVars, jobs, attempted, on, todo>>

\* Slip: only successes are worth an audit entry.
RecordSuccessOnly(c) ==
    /\ at[c] = "audit"
    /\ attempted' = IF outcome[c] = "succeeded"
                    THEN attempted \cup {<<on[c], "succeeded">>} ELSE attempted
    /\ Goto(c, "mark")
    /\ UNCHANGED <<outboxVars, jobs, account, on, outcome, todo>>

\* _record_attempt: the audit sink's transaction precedes the final state.
RecordAttempt(c) ==
    /\ at[c] = "audit"
    /\ attempted' = attempted \cup {<<on[c], outcome[c]>>}
    /\ Goto(c, "mark")
    /\ UNCHANGED <<outboxVars, jobs, account, on, outcome, todo>>

\* mark_succeeded or mark_failed, neither of which looks at the status it
\* replaces; a failure is raised to the caller.
MarkOutcome(c) ==
    /\ at[c] = "mark"
    /\ job' = [job EXCEPT ![on[c]] = outcome[c]]
    /\ since' = [since EXCEPT ![on[c]] = 0]
    /\ on' = [on EXCEPT ![c] = NoJob]
    /\ outcome' = [outcome EXCEPT ![c] = "retry"]
    /\ IF outcome[c] = "succeeded" /\ c \in Workers
       THEN Goto(c, "next") ELSE Raise(c)
    /\ UNCHANGED <<outboxVars, tries, account, attempted, todo>>

Execution(c) == Provision(c) \/ RecordAttempt(c) \/ MarkOutcome(c)

\* A transaction fails, and nothing around it catches the exception.
Fault(c) ==
    /\ at[c] \in FaultySteps
    /\ Raise(c)
    /\ on' = [on EXCEPT ![c] = NoJob]
    /\ outcome' = [outcome EXCEPT ![c] = "retry"]
    /\ UNCHANGED <<outboxVars, jobs, account, attempted, todo>>

\* The handler's loop is through, or an exception left it.
HandlerReturned(w, e) ==
    /\ IsCurrent(w, e) /\ at[w] = "next" /\ todo[w] = {}
    /\ MarkProcessed(w, e)
    /\ Goto(w, "idle")
    /\ UNCHANGED <<jobs, account, attempted, on, outcome, todo>>

HandlerRaised(w, e) ==
    /\ IsCurrent(w, e) /\ at[w] = "failed"
    /\ RecordFailure(w, e)
    /\ Goto(w, "idle")
    /\ todo' = [todo EXCEPT ![w] = {}]
    /\ UNCHANGED <<jobs, account, attempted, on, outcome>>

\* The worker's process dies.
WorkerCrash(w) ==
    /\ Crash(w)
    /\ Goto(w, "idle")
    /\ on' = [on EXCEPT ![w] = NoJob]
    /\ outcome' = [outcome EXCEPT ![w] = "retry"]
    /\ todo' = [todo EXCEPT ![w] = {}]
    /\ UNCHANGED <<jobs, account, attempted>>

\* The API process dies while it executes a retry.
OperatorCrash(o) ==
    /\ at[o] # "idle" /\ crashes < MaxCrashes
    /\ crashes' = crashes + 1
    /\ Goto(o, "idle")
    /\ on' = [on EXCEPT ![o] = NoJob]
    /\ outcome' = [outcome EXCEPT ![o] = "retry"]
    /\ UNCHANGED <<queue, batch, jobs, account, attempted, todo>>

\* When callers are timely, no execution lasts as long as a lease.
ExecutionsKept == Timely => \A o \in Operators :
    on[o] # NoJob => since[on[o]] + 1 < Lease

Time ==
    /\ LeasesKept /\ ExecutionsKept
    /\ Ageing
    /\ since' = [j \in Jobs |->
          IF job[j] = "processing" THEN Older(since[j]) ELSE since[j]]
    /\ <<age, since>>' # <<age, since>>
    /\ UNCHANGED <<status, owner, attempts, batch, crashes, job, tries>>
    /\ UNCHANGED <<account, attempted, calls>>

WorkerStep(w) ==
    \/ ClaimEvents(w)
    \/ \E e \in Events : EnsureJobs(w, e) \/ RecoverJobs(w, e)
    \/ \E j \in Jobs : ExecuteNext(w, j)
    \/ Execution(w)
    \/ \E e \in Events : HandlerReturned(w, e) \/ HandlerRaised(w, e)

OperatorStep(o) == Execution(o) \/ \E j \in Jobs : RetryJob(o, j)

\* Nothing is left to deliver, execute or wait for.
Rest ==
    /\ \A e \in Events : status[e] \in Settled
    /\ \A c \in Callers : at[c] = "idle"
    /\ UNCHANGED vars

Next ==
    \/ \E e \in Events : Publish(e)
    \/ \E w \in Workers : WorkerStep(w) \/ WorkerCrash(w)
    \/ \E o \in Operators : OperatorStep(o) \/ OperatorCrash(o)
    \/ \E c \in Callers : Fault(c)
    \/ Time
    \/ Rest

Spec == Init /\ [][Next]_vars

\* Workers and accepted retry calls keep running, and time passes; nobody has
\* to publish, to ask for a retry, to fail or to crash.
FairSpec ==
    /\ Spec
    /\ \A w \in Workers : WF_vars(WorkerStep(w))
    /\ \A o \in Operators : WF_vars(Execution(o))
    /\ WF_vars(Time)
----------------------------------------------------------------------------
(***************************************************************************)
(* Properties.                                                             *)
(***************************************************************************)

Executing(c, j) == at[c] \in ExecutionSteps /\ on[c] = j

\* A processed event has no destination that was never attempted, however many
\* attempts, crashes and failed transactions it took.  (Of well-typed jobs.)
NothingForgotten ==
    /\ TypeOK
    /\ \A e \in Events : status[e] = "processed" =>
          \A j \in EventJobs(e) : job[j] \notin {"absent", "pending"}

\* While callers keep to their leases no job is executed by two at a time,
\* whether workers or operators.
OneExecutionAtATime ==
    Timely => \A c, d \in Callers, j \in Jobs :
        Executing(c, j) /\ Executing(d, j) => c = d

\* A terminal state is backed by evidence: the audit log has an attempt of that
\* outcome, a success has its effect, and a failure used up its attempts.
OutcomesAreBacked ==
    \A j \in Jobs :
        /\ job[j] \in Terminal => <<j, job[j]>> \in attempted
        /\ job[j] = "succeeded" => j \in account
        /\ job[j] = "failed" => tries[j] = MaxAttempts

=============================================================================
