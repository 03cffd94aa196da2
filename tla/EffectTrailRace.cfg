CONSTANTS
    p1 = p1
    p2 = p2
    k1 = k1
    k2 = k2
    NoKey = NoKey
    Procs <- MCProcs
    Keys <- MCKeys
    Grades = {"none"}
    MaxAttempts = 2
    MaxTrail = 5
SPECIFICATION Spec
INVARIANT AtMostOneTerminal
