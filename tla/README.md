# OwnSIS: a TLA+ verification of the backend's protocols

OwnSIS is a multi-tenant student information system. Its backend
(`src/backend/src`) is a modular monolith in Python: every module owns its
tables, calls other modules through ports, and does its work in short PostgreSQL
transactions. Very little of what it promises is kept by one transaction alone.
A grade, its audit evidence and the closure of its term are written by three
modules in five transactions; an activation event, the jobs it causes and the
accounts they create live under two leases; an applicant becomes a student by
four transactions of three modules; what a student is shown is read by ten
statements, each of a different moment. The models below are about what is true
*between* those transactions. One step of a model is one database transaction,
one statement where statements of a transaction see different moments, or one
call of something external; requests, workers and operators interleave at every
step, and may stop at every step.

Contents: 1 the system, 2 the modules, 3 the runs, 4 what the code does not
keep, 5 fairness, 6 bounds, 7 the proofs, 8 what is not modelled, 9 the plan.

## 1. The system

Paths are relative to `src/backend/src`. "Hard" names the behaviour a test
hardly reaches.

| component | state | operations | interacts with | hard | correct if |
| --- | --- | --- | --- | --- | --- |
| **Grading** (`grading/`) | final grades with a revision number, append-only revisions, scales | record, revise, list | Academics (target, closure flag), Audit, advisory lock | flag, intent, grade and success are separate transactions; revisions load before they lock | history explains the grade; the stored closure flag is true; a closed term is amended only with permission and explanation |
| **Term closure** (`academics/`) | one-way `is_closed` of a term | close | Audit, advisory lock | grade writes in flight | no closure inside somebody's guard |
| **Structure and people** (`academics/`, `people/`, `organizations/`) | campuses, persons, profiles, links, faculties … enrollments, policies | register, page through, replace a policy | one another, by identifiers no constraint holds | checks of earlier transactions; two forms of a digest; paging by offset while rows arrive | rows refer to rows of their tenant and agree with them; a person is known once; pages miss nothing |
| **Curricula and calendar** (`academics/`, `scheduling/`) | courses with prerequisites; events and windows | replace, read; derive windows | Generation, course selection | a replacement between two statements of a reader; boundaries of intervals | no mixture of two versions; windows exact |
| **Course selection and enrollment** (`academics/`) | academic and course enrollments, selections, capacities | submit and decide a selection, withdraw, complete | Grading (gradable target) | planned without locks, evaluated and saved under locks of different length | capacity kept; approved under what is current; whole or not at all |
| **Outbox** (`outbox/`, `worker.py`) | events with status, lease, attempts | enqueue, claim a batch, settle, crash | every publisher; Provisioning | a lease runs out under a live worker; restarts; poison events | one handler at a time; settled is final; every event settles |
| **Provisioning** (`provisioning/`) | a job per event and destination, with a lease of its own | ensure jobs, recover, execute, retry | Outbox (caller), Audit, the external provider | two leases started at different moments; operator retries against workers; audit failures | one execution at a time; nothing forgotten; outcomes backed by evidence |
| **Audit** (`audit/`) | append-only events | append, list | every writer | the append is another transaction than what it describes | intent before the write, success only of writes |
| **Admissions** (`admissions/`) | applications, reviews, decisions, quotas, seat reservations, conversions | submit, review, decide, enroll, configure | Academics (intake), People, Audit | everything is read before it is compared; reservations expire without a write | seats within the quota; decision, status and reservation agree; one student per application |
| **Integrations** (`integrations/`) | external grade evidence, webhook outcomes, reconciliation runs, mappings | import, accept, reject, reconcile | Grading, Audit | a crash between grade and acceptance; late outcomes | evidence resolved once, with its lineage |
| **Scheduling** (`scheduling/`) | sessions, rooms, timetable generations, availability | book, move, lock, generate, replace | Academics | conflicts between bookings and a generation | no double booking; no lost edit; sound proposals |
| **Identity** (`identity/`) | pending logins, sessions, platform administrators | log in, check, refresh, log out, revoke | external provider | refresh holds a row lock across the provider's answer; logout during refresh | a token presented once; nothing left after logout; the last administrator stays |
| **Memberships** (`people/`) | memberships with roles, owners among them | create, suspend, revoke, appoint, recover | Identity | two owners removing one another; stale plans | the last owner stays; no deadlock |
| **Organizations, subscriptions** (`organizations/`, `entitlements/`) | one row each, features, overrides | configure, suspend; assign, transition, override, resolve | every module | aggregates overwritten; snapshots of two moments | only legal transitions; answers were true |
| **Notifications** (`notifications/`) | messages, preferences | create, deliver, retry, read | external channels | lost answers, overlapping retries | status tells what happened |
| **Self-service and MCP gateway** (`*/application/read_service.py`, `mcp_gateway/`) | none of its own; invocations in Audit | 13 reads of a portal, 9 of them as tools | every module | who asks, what he may see and the data are of different moments | the answer is one the person was entitled to; no tool answers unrecorded |
| core, migrations, frontend | settings, schema, none | – | – | – | – |

How the parts meet: **Grading and term closure** share nothing but an advisory
lock (ADR-0009); **Integrations** writes grades through Grading. A **publisher**
appends an event in its own transaction; a **worker** claims it and calls
**Provisioning**, which keeps its own leases; **operators** call Provisioning
too. **Admissions** asks Academics whether an intake is open and drives People
and Academics through one adapter, with the conversion's identifiers as
idempotency keys. **Memberships** are changed by calls that first pass the check
of their **session**. Generated **timetables** replace what manual calls edit,
under one try-lock. All of them append to **Audit**; all of them refer to rows of
the **structure**, which are only ever added.

## 2. The modules

| module | models | built on |
| --- | --- | --- |
| `GradeLedger` | what grading promises of a term: atomic close, record, revise | – |
| `TermGrading` | the advisory-lock protocol that implements it | refines `GradeLedger` |
| `GradeEvidence` | external evidence and its acceptance | its grade writes are `GradeLedger` steps |
| `Outbox` | events, leases, workers, crashes, any handler | – |
| `Activation` | Provisioning as the handler of the outbox, and operators' retries | extends `Outbox` |
| `Admissions` | review, decision, seats, conversion | – |
| `CourseSelection` | selections and every enrollment transition of a term | – |
| `Timetable` | manual edits against replacements | – |
| `Generation` | the heuristic, and the life of its proposals | – |
| `Sessions` | browser sessions and the provider's token families | – |
| `Governance` | memberships, owners, platform administrators | extends `Sessions` |
| `Tenancy` | an organization and its subscription | – |
| `Entitlements` | features, overrides, resolution | extends `Tenancy` |
| `Directory` | people and campuses; how a table is written, read and paged | – |
| `Registry` | the academic structure | extends `Directory` |
| `Curriculum`, `Calendar`, `Notifications`, `SelfService` | what they are named for | – |
| `TermGradingProofs`, `AdmissionsProofs`, `CourseSelectionProofs`, `TimetableProofs` | theorems | the module named |
| `EvidenceProofs`, `OutboxProofs`, `GovernanceProofs` | theorems of `GradeEvidence`; of `Outbox` and `Activation`; of `Governance` and `Sessions` | `GradeEvidence`, `Activation`, `Governance` |
| `TenantProofs` | theorems of `Tenancy`, `Entitlements`, `Generation`, `Registry`, `Curriculum`, `Notifications`, `SelfService` | these modules |
| `MC…` | instances; `MCTenants` is one system in which seven modules run side by side | the modules named |

Definitions whose comment says *Slip* are mistakes the code does not make (a
dropped comparison, an early lease, a second conversion). Nothing uses them; put
in the place of the definition below them, they break the property they were
written for, which shows that the property depends on the code.

Actions are named for the functions they translate wherever these are steps; a
call that the code refuses on what it reads first has no effect and is no step,
unless a property is about the refusal.

### TermGrading

| model | code |
| --- | --- |
| `academics` | `terms.is_closed`; participations `get_grade_target` returns |
| `shared`, `exclusive` | holders of `pg_try_advisory_xact_lock_shared` / `pg_try_advisory_xact_lock` on the term's key |
| `grade`, `history` | the final-grade row and its revision rows; a score is named after the call that submitted it |
| `audit` | intent and success events with the closure flag they carry |
| `pc`, `call`, `seen`, `after` | a request: its next transaction, arguments, the grade it loaded, the flag it read |
| `ResolveTarget`, `LoadGrade` | `record_final_grade`, `revise_final_grade` before the guard |
| `EnterGuard`, `LeaveGuard`, `LoseGuard` | `hold_grade_write`; the guard lives on a connection of its own, so it can be lost without the request noticing |
| `CheckClosure`, `RecordIntent`, `CreateFinalGrade`, `ReviseFinalGrade`, `RecordSuccess` | `_record_final_grade`, `_revise_final_grade`, and the repository's row lock and comparison |
| `GetTerm`, `RecordCloseIntent`, `TryCloseLock`, `CommitClose` | `close_term` of service and repository |
| `Withdraw` | either withdrawal; it takes no part in the lock |
| `Abort` | an exception, a cancellation, or the end of the process between two transactions |

### GradeEvidence

`status` and `link` are a piece of evidence and the call its accepted grade came
from. An intake stores an event (`AcceptEventOnce`: a signed delivery, or an
observation of a reconciliation `run`) and its disposition in two transactions
(`MarkOutcome`); `DropDelivery`, `FailRun` and `EndReview` end a process between
any two. A reviewer reads pending evidence and the current grade
(`GetPendingEvidence`, `LoadCurrent`), writes the grade (`WriteGrade`, a
`Record` or `Revise` of `GradeLedger` with the revision it loaded as the expected
one) and resolves the evidence (`RecordAcceptance`, `RecordRejection`, which
compare the status under a row lock). `GradeDirectly` and `CloseTerm` are the
ledger's other users.

### Outbox and Activation

`status`, `owner`, `age`, `attempts` are the columns `status`, `locked_by`, now
minus `locked_at`, and `attempts`; `batch` is what a worker holds in memory.
`Claim` is `claim_batch` (`SKIP LOCKED`: any claimable subset up to the batch
size), `Settle` is `mark_processed` / `record_failure` with their test of
`locked_by`, `Crash` ends a process whose successor has a fresh `worker_id`.
`Timely` is the assumption that a live worker finishes within its lease; nothing
in the code enforces it, so what holds without it is stated without it.

In `Activation` a worker's claim is followed by `EnsureJobs` (a transaction per
destination), `RecoverJobs` (`recover_stale_processing`), and for each due job
`ExecuteNext`, `Provision`, `RecordAttempt`, `MarkOutcome`, until the handler
returns or raises and settles the event. `RetryJob` is the operators' route into
the same execution. `since` is the job's own age, which starts later than the
event's. `Fault` makes a transaction fail and lets the exception travel;
`account` is the external provider's state.

### Admissions

| model | code |
| --- | --- |
| `status`, `reviews`, `decisions`, `seat`, `conversion`, `capacity` | application, review, decision, reservation, conversion and quota rows |
| `expired` | the reservations whose `expires_at` has passed; expiry writes nothing |
| `students`, `enrollments`, `intakeClosed` | People's registrations, Academics' registrations and term |
| `op` | a call between two transactions, with what it has read |
| `LoadTo…` | the first read and the checks on it |
| `Submit`, `SaveReview`, `Decline` | the compare-and-swap writes (`_lock_application`) |
| `Recount`, `Accept` | the two halves of an acceptance's transaction: with the row locks of the application and the quota it counts the seats, then it commits; a conversion, which takes no lock of the quota, may use a seat in between |
| `CheckIntake`, `CheckReviews`, `RecordIntent`, `RecordSuccess` | the transactions of `decide_application` around the write |
| `FindConversion` … `CompleteConversion` | `enroll_accepted_application`, the adapter, People and Academics |
| `Expire`, `ConfigureQuota`, `CloseIntake` | time, `save_quota`, `close_term` |

A decision evaluates the quota at the time it read when it started
(`evaluated_at=now`), so it carries the set of reservations that had expired by
then.

### CourseSelection

`course` holds each student's status and credits in each offering, `request` the
selection requests, `setup` the curricula, policies, closure and deadline, and
`plan` what a submission evaluated without locks (`Plan`, `PlanSubmission`). In
the transaction that follows, a submission (`OpenSubmission`, `SaveSubmission`)
or a decision (`OpenDecision`, `SaveDecision`) holds the student's academic
enrollment and the curriculum exclusively and the term and policy in share mode,
from the evaluation to the commit; offerings are locked only while it saves. So
evaluation and save are two steps, `StudentFree`, `ProgramFree` and `TermFree`
say what the locks keep out in between, and a course transition, which takes
none but its own row and the term, does come in between. `Evaluate` is the rule
engine (`evaluate_course_selection`), with overridden violations.

### Timetable and Generation

`Timetable`: a manual call reads and checks (`Create`, `Move`, `SetLock`),
records its intent, takes the try-locks of the tenant, room, teachers and groups
(`Acquire`), checks again and writes what has the version it read (`Save`). A
replacement (`Generate`, `ReplaceSchedule`) takes the tenant lock exclusively and
compares the versions of everything it was generated from.

`Generation` is the heuristic itself, one placement to a step: activities in the
order of their scarcity (`Before`), any cheapest free place (`Place`), never
taken back; then `Apply`, `Discard`, `SetLock`, `Move` and the next generation.
Names of sessions are derived from activity, ordinal, slot and room, as
`uuid5` does. The code appends what it places to the list of preserved sessions;
the model keeps the two parts of that list apart (`Kept`, `placed`), since they
may have a name, or a whole session, in common.

### Sessions and Governance

`session` is the stored row (version and token), `family` the provider's side.
A check (`Require`, `AskProvider`, `DeleteIfVersion`, `CheckAgain`) asks without
a lock and deletes only the version it asked about; a refresh (`LockForRefresh`,
`Exchange`, `ReplaceTokens`, or `ExchangeFails`, `ResponseLost`, `LoseCommit`)
holds the row across the provider's answer; a logout (`DeleteForLogout`,
`Revoke`) revokes what the deleted row held; a login consumes its flow and stores
a new key.

`Governance` lets every call pass the check of its session, `Plan` on a row read
without locks, and then `Select`, `LockRow` (one at a time, in the order of
identifiers), `Decide` and `Mutate` in one transaction; the administrators are
counted and written under one advisory lock (`Govern`, `CountAdmins`,
`WriteAdmin`).

### Tenancy and Entitlements

Every operation is `Plan`, `RecordIntent`, the write, `RecordSuccess`. The writes
differ: `SaveOrganization` stores the complete aggregate that was read,
`UpdateSubscription` compares identifier and status. `Entitlements` adds
`CreateFeature`, `SetOverride` and `SaveOverride`, and a resolution that reads the
subscription and the overrides in two statements (`GetSnapshot`); `Resolve` is
`resolve_for_organization`. Its ghosts `truths` and `changes` hold the answers
that were true while it read and the changes committed meanwhile.

### Directory, Registry, Curriculum, Calendar

A row of any table is a record of its owner, what it is unique by, the rows a
foreign key holds it to (`parents`), the rows of other modules it merely names
(`others`), its rank in the pages and its other data. `Add` is an insert with all
its constraints; `Register…` is the service with the references it looks up;
`Create…` is a request, which may name any stored row, of its own tenant or not.
Rows are only ever inserted, so the checks of a registration still hold when it
inserts, and a registration is one step. `StartWalk` and `NextPage` are a client
paging by offset while others register.

`Curriculum` replaces a curriculum in one step and reads it in three.
`Calendar` is two algorithms (`_merge_windows` and `_instruction_windows`) over
stored events and windows, checked against the sets of instants they stand for.

### Notifications and SelfService

A delivery in `Notifications` is `StartCreate` (the preference is read) and
`Create` (the row is stored, whatever the preference is by then), or `StartRetry`
and `CheckChannel`, then `Send` (the channel accepts, fails, or accepts and its answer is lost), then
`RecordDelivery` or `RecordFailure`; `Crash` may end it before each.

In `SelfService` a read is a sequence of steps, each one statement or
transaction: the actor (`TenantContext`), the entitlement of a tool, ownership,
and the data (`Steps`); a guardian's students are summarised one after another
(`NextStudent`). `Change` is what anybody else may commit meanwhile: an
operation of another module, as far as the reads can see it. The ghost `seen`
holds what the read was entitled to at each moment since it began, computed from
the world alone; answers are compared with it.

## 3. The runs

A bound in an instance is named in section 6. "Mutants" (the slips) exist for
every property.

| run | instance | shows |
| --- | --- | --- |
| `TermGradingSafety` | 3 calls of any kind on one enrollment, one with an unreliable guard | history explains grade, expected revision honoured, audit evidence, amendments of a closed term, closure waits for guards; the flag stored with a grade is the term's at the commit |
| `ActivationTimely` | a worker and its successor, an operator, 2 destinations, a crash, failing `ensure` and `audit` transactions, fair | one handler, exact attempts, nothing forgotten, one execution, outcomes backed, every event settles |
| `AdmissionsDecided` | 2 calls at a time: any calls on one application from its draft on, a stage reviewed twice; acceptances and conversions of 2 applications after their reviews, for one or two seats, configured at any time | decisions, status and seat agree; conversions whole; reviewed before accepted; acceptances within the capacity |
| `EvidenceReview` | 2 pieces of evidence, 2 reviewers, a delivery, a reconciliation run, an ordinary grade write | lineage, resolution final, runs tell the truth; a reviewer replaces the grade it has read |
| `SelectionCurrent` | 2 students of 2 programs, 3 requests, 3 decisions, 2 clashing offerings of one seat | enrolled is entitled, selections whole, approval current, closed terms settle |
| `TimetableBooking` | 2 creations, a move, a lock change, 2 replacements on 2 sessions of one teacher, 2 slots, 2 rooms | no double booking; every change is made of what is stored |
| `AccessGoverned` | 2 calls of any kind, 1 login, 2 members, 2 subjects | rotation of tokens safe, logout leaves nothing, an owner and an administrator remain, stale requests change nothing, row locks never circle |
| `TenantsServed` | the seven parts of `MCTenants`, one to a behaviour; the timetables are of 2 activities of one teacher: 3 sessions, 4 slots of which one spans two others, 2 rooms | registry sound and paged completely, curricula not mixed, windows exact, proposals sound, what is left out has no place, answers true, deliveries true, self-service authorized |
| `AdmissionsOverbooked`, `SuspensionLost`, `GenerationRefused`, `ProposalRepeats` | the smallest instance that shows it | section 4 |

Some properties deserve a remark.

`HistoryExplainsGrade` is about lost updates: two revisions load the same grade
before either enters the guard, and only the comparison under the row lock keeps
the second out. `AuditTellsTheTruth` relates four transactions: a grade without
an intent carrying *its* closure flag, or a success without its grade, would each
need a different reordering. `ClosureFlagTrueAtCommit` relates a flag read in one
transaction to the term at another's commit: nothing but the guard joins the two.
`ReviewersReplaceWhatTheyRead` is what keeps a second acceptance, after a crash
between grade and resolution, from writing over a grade its reviewer has not
seen: the revision that was loaded is the one that is expected, and a grade that
others write meanwhile has another. The grade writes of `GradeEvidence` are
`GradeLedger`'s own steps, and `LedgerImplemented` proves that the locking
protocol implements that ledger.

`AcceptanceFitsQuota` is about the commit, not the recount: between the two a
conversion may use a seat whose reservation ran out after the count, and that
seat alone (`UsedLate`) is excepted; the capacity cannot change, the quota's row
is locked. `ConversionIsWhole` holds although two resumed conversions can run
through People and Academics at once, because `begin_conversion` returns the
first one's identifiers to the second. `ApprovalIsCurrent` and
`EnrolledIsEntitled` compare what is stored at the commit with rules read at the
evaluation: the share locks are what they rest on. `LocksNeverCircle` says that
no set of calls waits for itself, with three kinds of locking statements.

`ProposalIsSound` has two parts. A proposal that leaves nothing unresolved has a
session for every ordinal still needed, what it places is booked once, and it
books nothing beside a preserved session unless it repeats that one's name, which
it does (section 4). What is *stored* books nothing twice and has every name once,
after any sequence of generations, applications, locks and moves.
`UnscheduledHasNoPlace` says that what is left out has no place in the proposal;
that another order would have placed everything is not excluded, and ADR-0006 says
so.

`AnswersAreAuthorized` is stated over moments: with at most one change during a
read, its whole answer, or its refusal, must be the right one of a single moment;
with more, each part must have been the asking person's at some moment.
`AnswersWereTrue` is stated the same way for features. Both would be false
without the restriction, and that is the finest they promise. For features the
instance does not show why: with two operators no two changes make an answer
untrue, it takes a third call, and `AnswersHold` (section 7) is about any number.
`CurriculaAreNotMixed` is also weaker than one would like (section 4).

## 4. What the code does not keep

Four statements of the repository are refuted by a run that is expected to fail:

- **`QuotaLimitsSeats`** (`admissions/application/service.py:520` against
  `admissions/domain/models.py:238`). A conversion is begun in time and
  interrupted; its reservation expires and is no longer counted, another
  applicant is accepted, and the first conversion is resumed: neither the service
  nor `complete_conversion` recounts.
- **`SuspensionHolds`** (`organizations/infrastructure/repositories.py:133`
  against `docs/02_REQUIREMENTS.md:59`). `configure_organization` stores the
  aggregate it read, status included; a suspension committed in between is
  undone.
- **`RegenerationApplies`** (`scheduling/application/generator.py:239` against
  `ADR-0006:38` and `ADR-0008:57`). A session that is generated again in the same
  place has the same identifier and version zero, and the whole proposal is
  refused.
- **`ProposalBooksNothingTwice`** (`scheduling/application/generator.py:75` against
  `ADR-0006:25`, "reject hard conflicts"). The ordinals to place go on from the
  number of preserved sessions. If the preserved one is not the first, its name is
  derived a second time, the detector passes over a session of the candidate's own
  name (`domain/constraints.py:97`), and its room and its teacher are booked twice
  by a proposal with nothing unresolved. `apply_proposal` refuses it for the name
  (`scheduling/application/service.py:327`), so that it is never stored.

Met while modelling and built into the models, without a run of their own. Each
is a behaviour of the model too; the properties say what remains true.

*Grading and evidence*

- The guard of a grade write is on a separate connection
  (`grading/infrastructure/term_guard.py:48`). If it drops, closure may commit
  inside the guard; two properties and the refinement theorem therefore ask for
  reliable connections.
- A revision never resolves its target again (`grading/application/service.py:171`),
  and recording resolves it before the guard (`:144`): a withdrawal in between
  stops neither.
- The disposition of a delivery is stored whatever the row says by then
  (`integrations/infrastructure/repository.py:256`), and the operators' queue
  shows evidence as soon as it is stored: a resolution in between is overwritten
  with `pending`, although `docs/14_OPERATIONS.md:283` says "item resolves exactly
  once". `ResolutionIsFinal` is stated for evidence whose delivery is
  dispositioned. Rejected evidence counts as unresolved in the sync status.

*Outbox and provisioning*

- An abandoned event is claimed again whatever its attempts
  (`outbox/infrastructure/repository.py:74`): `AttemptsAreExact` allows one
  further claim for each crash.
- If the audit append after the provider's answer fails, or a process dies there,
  the job stays `processing`; by the time the event is retried the job is neither
  due nor abandoned, so the event is processed and nothing takes the job up again.
- The first destination that fails ends the handler; one that always fails can
  quarantine the event before another was attempted once.
- A caller that overruns its lease reports last and wins
  (`provisioning/infrastructure/repository.py:193`). For events the theorem
  `SettledStays` excludes it, timely or not.

*Admissions and selection*

- Reviews are read before the decision, which compares the status only: a further
  review of an application under review does not stop an acceptance.
- An accepted applicant whose reservation expires before the conversion begins can
  neither be enrolled nor decided again; a conversion whose intake closes between
  People and Academics stays pending.
- A conversion completes without the lock of the quota
  (`admissions/infrastructure/sqlalchemy_repository.py:553`), so one whose
  reservation runs out after an acceptance has counted still uses its seat.
- Persisted overrides are keyed by rule and lose which of two offerings they were
  granted for.

*Scheduling*

- Versions start at zero with every row, so an identifier that a replacement
  deleted and the next one stored again passes for the row an older call has read;
  ADR-0008 promises more. The properties except such identifiers (`deleted`).
  Availability is read before the locks and not again.
- `apply_proposal` accepts a proposal with unscheduled activities; that every
  ordinal is there is stated for proposals that leave nothing unresolved.

*Tenants*

- A feature resolved while two changes are committed may get an answer that never
  was true; a student's schedule may likewise join a course dropped meanwhile with
  a session planned since. Status and roles of a membership are read by two
  statements.
- A curriculum replaced between the reader's last two statements is returned
  without any prerequisite, though `get_curriculum` calls its result complete.
- Concurrent changes of a configuration overwrite one another; an assignment may
  be given to an organization suspended meanwhile.
- The outcome of a delivery is stored over any other: a late failure hides a
  success and is retried, a late success unreads a message. Delivery is
  at-least-once, and lists of messages have no tie-break.
- Pages of course enrollments filtered by status may skip rows whose neighbours
  leave the filter.
- A verifier that waits on the lock of the key cache behind an older fetch gets no
  refresh of its own for a key it did not find.

## 5. Fairness

Only `ActivationTimely` needs any. `FairSpec` assumes weak fairness of polling
(`run_worker` loops until it is stopped), of handlers (they return or raise; the
adapters in the repository do so at once), of accepted retry calls and of time.
Publishing, asking for a retry, failing and crashing are never assumed, and no
strong fairness is needed. Liveness is checked without symmetry.

Elsewhere a request may stop anywhere for good, so nothing must eventually
happen. Waiting for a row or for a unique key is not a state of the models of
grading: a step that has to wait is one that is taken later. `CHECK_DEADLOCK FALSE` is set where
each call of the instance is made once and the bounded rows run out, so that a
behaviour may end.

## 6. Bounds, and why they are enough

- *Calls.* Lost updates and guard races need two writers and a closer: three
  calls of arbitrary kinds, one of them losing its connection. In Admissions a
  call that ends makes room for the next, so two slots give every sequence of
  calls in which two overlap. `AccessGoverned` has two calls of every kind: all
  of its hazards are between a call and one other; the theorems cover more.
- *Revisions, expectations.* `{0, 1}` lets a client be right, early and late.
- *Outbox.* `Lease = 2` separates fresh, ageing and abandoned; `MaxAttempts = 2`
  separates the first failure from the last; one crash hands the event to a
  successor. There is one event, whose lease runs out under
  its own handler; that it runs out while the event waits behind others of its
  batch is left to the theorems, which are about batches of any size.
- *Admissions.* `MaxReviews = 2` lets the stage fail and pass. Applications meet in the
  quota only, so that one of them shows every overlap of submissions, reviews,
  decisions and conversions (`part = "life"` of `MCAdmissions`), and two, once
  reviewed, the contention for seats (`part = "seats"`), where the quota is
  configured at any time, between one and `MaxCapacity = 2` seats: it shrinks below
  what is taken, and between an acceptance's read and its recount.
- *Evidence.* Two events on one enrollment make one's acceptance the other's
  stale grade.
- *Selection.* One-seat offerings that clash make every rule decide; three
  requests give a student two that exclude one another and somebody else's.
- *Timetable.* `MaxVersion = 2` is two edits after a creation; two replacements
  let one delete what the other stores again. *Generation*: `MaxVersion = 1`
  keeps one edit of each session (`GenerationRefused` allows two), and four slots leave room for all three sessions
  unless one is put where two fit.
- *Tokens.* `MaxToken = 3` is two rotations: one that succeeds and one whose
  successor is lost.
- *Registry.* `MaxRows = 1`: every check relates one new row to stored ones, and
  a client pages while it arrives. `Stored` (`StoredRows`) is two tenants with a row in every
  table the new one may refer to, of the right and the wrong kind, program or
  year; `Limit = 1` makes every row a page. A registration is one step, so the gap
  between its checks and its insert is not exercised: what is unique is unique by
  the insert, and nothing registered is ever taken back.
- *Curriculum.* Two replacements (`MaxVersions`) within one read; two courses.
- *Calendar.* Three events and two windows on four instants give every order of
  their ends: touching, nested, crossing, outside (`MaxEvents`, `MaxWindows`,
  `CalendarEnd`).
- *Entitlements.* Two operators change the subscription, the override, or both,
  within a resolution for one instant (`LastInstant = 0`), before or after which
  an override expires. That something expires during a resolution, and other
  periods, are left to the theorem.
- *Notifications.* Three calls are a creation and two overlapping retries;
  `MaxChoices = 2` switches a channel on and off.
- *Self-service.* One section and two persons, so that whatever is not the
  asking person's is the other's; two changes (`MaxChanges`) during one read, from
  two worlds: somebody who may make every read, and somebody who may make none.
- *Counters.* `AttemptCap` stops the attempts of an event above every value the
  code compares with; `Tried` does so for jobs.
- *Symmetry.* Used for calls, enrollments, subjects, rooms, slots and
  applications that no definition tells apart, in safety runs only.

`TenantsServed` runs seven modules side by side rather than interleaved because they
share no state: `part` says which one a behaviour is of, and the others stay as
they begin, the registry with nothing stored. What each of them lets
others change (`Change` in `SelfService`, say) is in the module itself.

## 7. The proofs

The proof modules are about every value of the constants: any number of calls,
enrollments, workers, events, members, activities and applications.

**`TermGradingProofs`.** Three invariants, each inductive on top of the one
before:

- `TypeInv` is `TypeOK` with `Loaded`: a revision past its load has a grade in
  `seen`. Without it the revised row would not be typed.
- `ProtocolInv` adds `LockInv` (who is in which step holds which lock; the forms
  exclude one another) and `CheckInv` (a reliable call inside its guard has the
  current closure flag, because closing needs the lock it holds). It gives
  `LocksReleased`, `ClosureExcluded`, `FlagHolds`, `AmendmentNeeded`.
- `HistoryInv` adds `HistoryExplainsGrade`, `ExpectedRevisionHonoured` and
  `SeenInv`: what a revision loaded was the grade at that revision number, so if
  the number is still current the loaded grade *is* the current grade. This is
  why comparing a number is enough, and gives `GradesExplained` and
  `ExpectationsHonoured`.

- `AuditInv` adds what makes the audit evidence complete: a call past its intent
  has one with the flag it saw (`IntentsPrecede`), every entry of a history and
  every closure has an intent before it, and every success a write. It gives
  `AuditIsTrue`, and stands on `HistoryInv`, since what a success names must never
  leave the grade and its history.

`LedgerImplemented` maps every step to a step of `GradeLedger` or a stutter,
assuming that no guard connection is lost (`Unreliable = {}`).

**`OutboxProofs`.** `OutboxInv`: a live worker's claim is fresh if workers are
timely, a batch holds only events its worker owns, attempts are counted against
crashes (an abandoned event has a dead owner, and each crash abandons an event at
most once), and quarantine only happens at the limit. It gives `ClaimsHeld`,
`HandledOnce`, `AttemptsHold`; `SettledStays` needs the ownership test alone.

`ActivationInv` adds provisioning. `JobsCovered` is the heart of
`JobsAreNotForgotten`: a job of the event a worker is at that was not attempted is
on the worker's list, and stays there because nobody else is at the event.
`ExecutionsAlone` is the one of `ExecutedOnce`: an operator's execution has not
lasted a lease, so no recovery takes the job from it, and two workers are never at
one event. `OutcomesHaveEvidence` rests on `EvidenceInHand`,
what a caller has recorded before it reports; no timing is assumed for it.
`OutboxKeepsItsPromises` repeats those of the outbox for the composition.

**`AdmissionsProofs`.** `TypeInv` first (`RecordsFit`, `WorldFits`, `CallFits`).
`AcceptancesFit` is about the two steps of an acceptance. While one has its locks
its application stays as it was compared and no other acceptance, and no change of
the quota, comes in (`LocksHold`); so the seats it has counted, which are those
taken at a time when no more reservations had expired (`ExpiredThen`), are all
that are taken when it commits, but for one a conversion used late (`CountInv`). `ReviewInv`: who has passed the reviews check, or is accepted, has
a passed review of every stage, and reviews are only added. `StoryInv` ties the
status to the last decision, the seat and, with `AnnouncedInv`, the intent in the
audit log; `BackedInv` and `WholeInv` tie students and enrollments to the one
stored conversion, which `Kept` says no step replaces.

**`CourseSelectionProofs`.** `SelectionInv` says what the two kinds of lock are
for: an open transaction has its student for itself (`OneStudentAtATime`), and
that the student is active and the term open, as it found, stands until it commits
(`EvaluatedStands`). Neither keeps a course of that student from being withdrawn or
completed meanwhile, so the rules it evaluated are about a past state;
`SubmissionsCurrent` and `DecisionsCurrent` say that every rule failing *now* was
among those it dealt with. For that a course that is withdrawn or completed may
only take credits and clashes away, which needs that a sum of credits does not
grow when a course leaves it: the first part of the module proves this of the fold
over a finite set, by the least subset that would be a counterexample, in place of
an induction. `GrantsAgree` gives `SelectionsStayWhole`, and with the seats counted
under their locks `EnrolledAreEntitled`. `ApprovalsAreCurrent` and
`ClosureSettles` are action properties read off the invariant.

**`TimetableProofs`.** `BookingInv`: calls past their locks hold disjoint locks
(`LocksExclude`), what such a call is to store conflicts with nothing stored
(`CheckedWritesFit`, kept because two sessions that could conflict have a lock in
common), and what a call has read of a session is stored still if the version is
(`ReadingsHold`), which is why a comparison of versions is enough for
`NoEditIsLost`. Identifiers that a replacement deleted are excepted (section 4).

**`EvidenceProofs`.** `EvidenceInv`: that a call wrote a grade stays true of the
ledger whatever is written later (`NothingIsUnwritten`), so a link once backed stays
backed (`LinksHold`); and what a run has counted is an account of the events it has
passed (`RunsAccount`), others' intakes included. It gives `LineageHolds`,
`RunsAreHonest` and `ResolutionsAreFinal`. `ReadingsHold` says that what a reviewer
has read is the grade still, or has an earlier revision than the grade, because
grades are only ever followed (`GradesFollow`). So a revision whose expected
number is current replaces the grade that was read: `ReplacementsWereRead`.

**`GovernanceProofs`.** `GovernanceInv`: rows a call has locked are read as they
are stored (`RowsAreHeld`), at most one call governs the administrators and its
count is current (`CountHolds`), and a call about to remove an owner holds another
active owner. Each of `OwnerRemains`, `AdministratorRemains` and
`StaleRequestsAreHarmless` is one step from it. Sessions take no part in it, so
these hold whatever happens to them. `LocksAreOrdered` adds `OrderKept`, that
everybody locks upwards: were all calls waiting, the highest locked row would be
held by a call that waits for a higher one.

`SessionsInv` is about sessions alone. Keys are issued by logins (`KeysAreIssued`);
a row that a refresh has locked is stored as it was read (`RowsAreLocked`); a stored
token follows its family's latest, and is behind it by one only while a rotation's
transaction is open (`FamiliesFollow`); an answer that a token is inactive stays
true of the version it was given for (`AnswersHold`). So a token is presented once
and a stale refusal deletes nothing fresh (`RotationSafe`), and the token a logout
revokes is the last one (`LogoutIsComplete`). Where the provider's answer was lost,
so that nobody has the successor (`intact` is false), nothing is claimed.

**`TenantProofs`** is about seven components that share nothing.

- *Tenancy.* `SubscriptionInv`: identifiers of assignments are new, and a
  transition about to write carries the identifier, plan and a legal successor of
  what it read. So `AssignmentsHold`: a compare-and-swap of identifier and status
  is enough although the plan is not compared.
- *Entitlements.* `EntitlementInv`: between the two reads of a resolution the
  answer it is going to give has been true at some moment, as long as at most one
  change was committed. `AnswersHold` is `AnswersWereTrue` of `Entitlements`, which
  `MCTenants` checks for two operators. Periods are of whole instants
  (`PeriodsAssumption`).
- *Generation.* `PlacementInv`: conflicts are among preserved sessions only, every
  ordinal passed is placed or noted, and what was noted had no free place in a
  proposal that has only grown since; names placed by one generation are distinct
  (`PlacedOnce`), and what is stored is sound because what is applied has neither a
  conflict nor a name twice. `ProposalsAreSound` and `UnscheduledIsImpossible`.
  Places that fit are places there are (`ActivitiesAssumption`).
- *Registry.* `RegistryInv`: every row a column refers to is stored, of the same
  tenant, and as the reference needs it; identifiers and keys are distinct; and
  what a client paging by offset has yet to be shown is on the pages to come, since
  a row registered meanwhile can only push rows to later pages. So
  `RegistryIsSound`. Identifiers, codes and dates are natural numbers and a page
  holds a row at least (`RequestsAssumption`); of the rows stored at first it assumes
  what it is about (`StoreIsSound`), as the stock of `MCTenants` has it.
- *Curriculum.* `CurriculumInv`: every version has row identifiers of its own and
  its prerequisites are between these, so what is stored for the rows a reader
  holds is its version's, or nothing after a replacement. So
  `CurriculaAreNotMixed`. Courses are finitely many, and `NoPlan` is no program and
  year (`CurriculumAssumption`).
- *Notifications.* `DeliveryInv`: a call is past its check only if it was allowed
  (`AllowedStay`); a message keeps its recipient and channel, one
  whose channel has no adapter is never sent, and what a call in flight has read or
  been answered bounds what it may write. So `DeliveriesAreTrue`. Adapters are for
  external channels (`ChannelsAssumption`).
- *Self-service.* `SelfServiceInv`: a read is a list of steps, and which are left
  says what it has found (`Identified` of who asks, `Collected` of the data, for each
  of the thirteen reads). `WitnessesFit` says that with one change or none all of it
  is as the world the read began in has it, or as the present one has it. It is kept
  because one change (`OneChange`) is of what was found or of what is still to be
  found, or, if of both, as a withdrawal is, leaves what was found as it was or what is
  to be found as it is; a guardian's students are told of one by one, and the enrolled
  and graded among those told are as in one world (`SummariesOf`). However many
  changes there are, `PartsFit` says whose the parts are and that what a step goes on
  from stands (`Stands`), since nobody is ever unassigned, unlinked or unmapped; and
  `DenialsFit` that a refusal, given or certain to come, was right at some moment. So
  `AnswersAreAuthorized`. The worlds reads begin in are sound (`ReadsAssumption`): a
  grade belongs to an enrollment and an enrollment to a student's profile.

Assumptions are those the modules name on their constants: null markers are not
members of the sets they complete; counts, bounds, credits and limits are natural
numbers; applications, events of evidence, members and offerings that are counted
are finitely many; a call is of one kind and has a target of its kind; rows that
are locked in order have identifiers that are ordered (`Members` and `Events` of
the outbox are numbers).

Only model-checked, and why:

- `EveryEventSettles` (liveness) is out of the prover's reach.
- `WindowsAreExact` of `TenantsServed` is about folds over sequences of any
  length, which need induction over data.
- The four runs of section 4 that are expected to fail refute, which takes no
  proof.

## 8. What is not modelled

- Grading scales, transcripts and GPA: pure functions over decimals, without
  state. Values everywhere: scores, names, reasons, payloads, credits beyond what
  a rule compares.
- Other tenants, where rows and locks are keyed by organization and nothing is
  shared; `Registry` and `Curriculum` have two, since their requests may name
  anybody's rows.
- Authorization of the administrators' calls, which is a check of a token before
  anything is read; of grading, the closed-term amendment is modelled. The
  verification of identity tokens, cookies and webhook signatures.
- Admissions: profiles, documents, deposits (an unsatisfied one ends the call like
  any error), changes of the policy, quota categories other than one. The states
  `awaiting_exam`, `awaiting_interview` and `withdrawn` and released reservations
  are never written by the code.
- Outbox back-off: shorter than a tick, so a retry may come at any moment.
- Learner and offering mappings of Integrations beyond what self-service reads.
- Usage limits and the maintenance of plans; the list operations of audit and
  platform administration.
- The in-memory repositories used by tests, which implement the same ports;
  settings, routers and schemas that only carry values; migrations; the frontend.

## 9. The plan

Every safety property that a passing run checks is proved, but for
`WindowsAreExact` (section 7). What is left is modelling, in order of importance:

1. A conversion whose intake closes between the registration of the student and the
   enrollment (section 4): it stays interrupted, and nothing in the code ends it.
   A property needs the promise to be made first, by the code or by its documents.
2. Usage limits and the maintenance of plans, which would complete `Entitlements`.
3. Admission policies that change while applications are under review.
4. Learner and offering mappings, with which Integrations would be modelled whole.
