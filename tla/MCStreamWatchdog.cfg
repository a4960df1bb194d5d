SPECIFICATION Spec
CONSTANTS
    a = a
    v = v
    w = w
    no_data_panic_sec = 1
    report_delay_sec = 2
    MinData = 1
    Modulus = 3
    InThreads = {a, v}
    OutThreads = {w}
    Streams <- MCStreams
    Sizes = {1}
    Durations <- MCDurations
    MaxDurations = 1
    MaxWindow = 1
    MaxLag = 1
    MaxTime = 8
INVARIANTS
    StallEndsRun
    QuitIsJustified
    ReportsAreRegular
SYMMETRY ThreadSymmetry
CHECK_DEADLOCK FALSE
