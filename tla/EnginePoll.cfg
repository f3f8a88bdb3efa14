CONSTANTS
    NJobs = 3
    Words = {{}, {2, 7, 11}}
    ChainBit = 10
    Ops = {"queue", "ack", "poll"}
    WaitOn = "busy"
    LateNext = FALSE
    Settle = 3
    Outcomes = {"END"}
SPECIFICATION Spec
INVARIANTS QuietMeansDone BusyMeansDone NoMissedCompletion
