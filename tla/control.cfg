\* Two threads share the port; requests of one to three packets.
SPECIFICATION FairSpec
CONSTANTS
    Threads = {t1, t2}
    Free = free
    Requests <- All
    Refusable <- Short
    LateAnswers = FALSE
INVARIANTS
    TypeOK
    AnswersMatch
    SuccessMeansDone
    FailureLeavesPrefix
    ReadDataInPlace
PROPERTIES
    CallsReturn
