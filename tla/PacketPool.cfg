SPECIFICATION PoolSpec
CONSTANTS
    Buffers = {b1, b2, b3, b4, b5}
    Threads = {t1, t2, t3}
    AllocationLimit = 3
    RetainedLimit = 2
CHECK_DEADLOCK FALSE
INVARIANTS CounterIsExact WithinBudget
