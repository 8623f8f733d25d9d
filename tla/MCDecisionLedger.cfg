SPECIFICATION Spec
CONSTANTS
    Session = {s1, s2}
    Ids = {d1}
    Times = {1, 2}
    Rationales = {hold, wait}
    MaxDecisions = 2
    MaxEvents = 3
    Corrupt = Corrupt
    NoRecord = NoRecord
SYMMETRY SessionSymmetry
INVARIANTS LedgerInvariant ReadableIsComplete
PROPERTIES ImplementsPromise
CHECK_DEADLOCK FALSE
