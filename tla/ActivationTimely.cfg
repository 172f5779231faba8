\* A timely worker and its successor, an operator, a crash, and transactions that fail.
SPECIFICATION FairSpec
CONSTANTS
    Workers = {w1, w2}
    Events = {1}
    BatchSize = 1
    Lease = 2
    MaxAttempts = 2
    MaxCrashes = 1
    Timely = TRUE
    Nobody = Nobody
    Gone = Gone
    Operators = {o1}
    Targets = {t1, t2}
    FaultySteps = {"ensure", "audit"}
    NoJob = NoJob
INVARIANTS
    OneHandlerAtATime
    AttemptsAreExact
    NothingForgotten
    OneExecutionAtATime
    OutcomesAreBacked
PROPERTIES
    EveryEventSettles
