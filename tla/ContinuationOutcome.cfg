SPECIFICATION CtSpec
CONSTANTS
    CtThreads = {t1, t2}
    CtIds = {"c1"}
    CtHeights = {2}
    CtMaxReceipts = 6
INVARIANT CtOneOutcome
CHECK_DEADLOCK FALSE
