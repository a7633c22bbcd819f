CONSTANTS
    Drivers = {d1, d2}
    Probes = {p}
    Lists = {l}
    NoDriver = NoDriver
SPECIFICATION FairSpec
INVARIANTS AnsweredOnce SuccessCounts
PROPERTIES ProbeIsAnswered CompletedIsPurged
CHECK_DEADLOCK FALSE
