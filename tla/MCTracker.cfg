SPECIFICATION FairSpec
CONSTANTS
    Fibers = {f1, f2, f3}
    f1 = f1
    f2 = f2
    f3 = f3
    batchSize = 2
    maxAttempts = 1
    MaxEvents = 5
INVARIANTS NothingVanishes SentOnce BatchesAreBounded AnsweredMeansFlushed
PROPERTY SendingEnds
CHECK_DEADLOCK FALSE
