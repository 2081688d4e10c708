SPECIFICATION FairFlight
CONSTANT Workers = {w1, w2, w3}
CHECK_DEADLOCK FALSE
INVARIANTS NoOrphanFlight
PROPERTY FlightEnds
