SPECIFICATION FlowSpec
CONSTANTS
    FlowIds = {f1, f2, f3}
    SeqSpace = 12
    MaxTrackedFlows = 2
    MaxPendingPerFlow = 2
    MaxPendingTotal = 2
    StartAt = {9}
    MaxFrames = 5
    MaxSenders = 2
SYMMETRY FlowSymmetry
CHECK_DEADLOCK FALSE
INVARIANTS OrderedOutput PendingAccounted
PROPERTIES HeldFramesAreKept NewFramesAreAhead
