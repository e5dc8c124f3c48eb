SPECIFICATION LiveSpec
CONSTANTS
    i1 = i1  i2 = i2  s1 = s1  s2 = s2  k1 = k1  m1 = m1  m2 = m2
    Ids = {i1}
    Requests = {s1}
    Keys = {}
    Mats = {m1, m2}
    None = None
    MaxStarts = 1
    MaxClaims = 2
    MaxFaults = 1
PROPERTIES MarkedIsIndexed ProgressGrows JobEnds
CHECK_DEADLOCK FALSE
