SPECIFICATION Spec
CONSTANTS
    s1 = s1
    s2 = s2
    v1 = v1
    v2 = v2
    v3 = v3
    k1 = k1
    k2 = k2
    r1 = r1
    r2 = r2
    p1 = p1
    None = None
    Session = {s1, s2}
    Values = {v1, v2, v3}
    Pages <- MCPages
    Resolutions <- MCResolutions
    MaxFetches = 3
    MaxJobs = 4
SYMMETRY Symmetry
INVARIANTS StoresInvariant RevisionsInvariant CopiesNeedRaces
CHECK_DEADLOCK FALSE
