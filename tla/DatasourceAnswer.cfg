CONSTANTS
    Callers = {c1}
    MaxOpen = 1
    MaxConf = 1
    MaxGen = 2
SPECIFICATION FairSpec
PROPERTIES OpenIsAnswered
CHECK_DEADLOCK FALSE
