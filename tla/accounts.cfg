SPECIFICATION Spec
CONSTANTS
    a1 = a1  a2 = a2  n1 = n1  n2 = n2  e1 = e1  i1 = i1  i2 = i2  r1 = r1  r2 = r2  r3 = r3
    Users = {a1, a2, n1, n2}
    Admins = {a1, a2}
    Emails = {e1}
    Links = {i1, i2}
    Requests = {r1, r2, r3}
    None = None
    MaxRotations = 1
    MaxFaults = 1
INVARIANTS FloorGuarded AnswersStand
PROPERTIES SelfMadeIsTheirs
CHECK_DEADLOCK FALSE
SYMMETRY Symmetric
