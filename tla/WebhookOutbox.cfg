\* Two schedulers; a crash or a replay; lost answers; every event settles.
SPECIFICATION FairSpec
CONSTANTS
    e1 = e1  e2 = e2  w1 = w1  w2 = w2
    Events <- MCEvents
    Workers <- MCWorkers
    MaxAttempts = 2
    BatchSize = 2
    MaxTroubles = 1
INVARIANTS DuplicatesAreExcused SettledForAReason
PROPERTIES KeepsPromise EventsSettle
CHECK_DEADLOCK FALSE
