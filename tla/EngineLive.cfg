CONSTANTS
    NJobs = 4
    Words = {{2, 7}}
    ChainBit = 10
    Ops = {"queue", "append", "poll"}
    WaitOn = "results"
    LateNext = FALSE
    Settle = 3
    Outcomes = {"END"}
SPECIFICATION FairSpec
PROPERTIES AllFinish
