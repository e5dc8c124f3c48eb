SPECIFICATION Spec
CONSTANTS
    i1 = i1  i2 = i2  s1 = s1  s2 = s2  k1 = k1  m1 = m1  m2 = m2
    Ids = {i1, i2}
    Requests = {s1, s2}
    Keys = {k1}
    Mats = {m1}
    None = None
    MaxStarts = 3
    MaxClaims = 2
    MaxFaults = 1
INVARIANTS OneActive
PROPERTIES NewestRunWins StartedIsScheduled
CHECK_DEADLOCK FALSE
SYMMETRY Symmetric
