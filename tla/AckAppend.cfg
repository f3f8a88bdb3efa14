CONSTANTS
    NJobs = 3
    Words = {{7}, {2, 7, 11}}
    ChainBit = 10
    Ops = {"queue", "append", "ack", "poll"}
    WaitOn = "results"
    LateNext = FALSE
    Settle = 3
    Outcomes = {"END"}
SPECIFICATION Spec
INVARIANTS AppendsRun
