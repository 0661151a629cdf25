\* A session of up to three commands of every kind.  A client that has typed
\* them, or that waits for an answer lost with INITIAL_ACK, does not go on.
SPECIFICATION FairSpec
CONSTANT MaxCommands = 3
INVARIANTS
    TypeOK
    AtMostOneAnswered
    BlockedOnlyByLostAnswer
    AnswerIsItsOwn
    RanTogetherOnlyAfterLateAnswer
PROPERTIES
    EveryCommandReported
    SuccessIsExecuted
CHECK_DEADLOCK FALSE
