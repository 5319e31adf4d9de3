SPECIFICATION FairSpec
CONSTANTS
    TaskId = {t1, t2}
    Cpvt = {sys_chan}
    sys_chan = sys_chan
    Jobs <- MCJobs
    InitJob <- MCInitJob
    MaxLate = 1
    Faults = {"write", "late"}
INVARIANTS
    CountersExact
PROPERTIES
    HeadMovesOn
