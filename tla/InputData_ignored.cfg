SPECIFICATION Spec
CONSTANTS
    t1 = t1
    t2 = t2
    t3 = t3
    ti = ti
    None = None
    Jobs <- TwoJobs
    Builds <- TwoAndOne
    Repeat = 2
    Tests <- FourTests
    Ids <- IdOf
    Ignored <- OneIgnored
    MaxTests = 3
    MaxKeywords = 2
    MaxMessages = 3
INVARIANTS
    OwnData
CHECK_DEADLOCK FALSE
