CONSTANTS
    NJobs = 3
    Words = {{7}, {1, 2, 7, 11}}
    ChainBit = 10
    Ops = {"queue", "append", "poll", "reset"}
    WaitOn = "results"
    LateNext = FALSE
    Settle = 3
    Outcomes = {"END", "PANIC"}
SPECIFICATION Spec
INVARIANTS TypeOK DoneIsFresh LoadsIdleWalker ModuleEnable ResultOwner FetchesJobs AppendsRun
PROPERTIES JobOrder
