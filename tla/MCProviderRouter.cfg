SPECIFICATION Spec
CONSTANTS
    m1 = m1  m2 = m2  m3 = m3 m4 = m4
    p1 = p1  p2 = p2  p3 = p3
    shared = shared  full = full
    Metric = {m1, m2, m3, m4}
    Provider = {p1, p2, p3}
    Request = {shared, full}
    RequestOf <- MCRequestOf
    Kind <- MCKind
    Chain <- MCChain
    Disabled = {p3}
    Unsupported <- MCUnsupported
    MaxPerReview = 3
    MaxPerProvider = 2
    MaxPerCall = 1
    MaxReviews = 2
    FailureThreshold = 2
INVARIANTS RoutingInvariant BudgetsRespected
PROPERTIES OpenCircuitIsNotCalled CollectTerminates
CHECK_DEADLOCK FALSE
