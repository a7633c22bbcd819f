CONSTANTS
    Callers = {c1}
    MaxOpen = 2
    MaxConf = 1
    MaxGen = 2
SPECIFICATION FairSpec
INVARIANTS AnsweredOnce
PROPERTIES SentIsAnswered DeadIsClosed
CHECK_DEADLOCK FALSE
