SPECIFICATION Spec
CONSTANTS
    Readers = {r1, r2}
    Slots = {w1}
    WorkerIds = {w1, w9}
    MaxSequence = 2
SYMMETRY ReaderSymmetry
CHECK_DEADLOCK FALSE
INVARIANTS OneRestartPerSequence ResetsNeedARepeat InvalidationsAreRequested
