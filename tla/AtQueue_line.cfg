SPECIFICATION Spec
CONSTANTS
    TaskId = {t1, t2, t3}
    Cpvt = {sys_chan}
    sys_chan = sys_chan
    Jobs <- MCJobsAll
    InitJob <- MCInitJob
    MaxLate = 1
    Faults = {"chatty"}
INVARIANTS
    TypeOK
    OnlyHeadBegun
    AnswerIsForHead
    HalfDuplex
    PromptDiscipline
PROPERTIES
    LineSpec
