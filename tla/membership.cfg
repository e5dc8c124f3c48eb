SPECIFICATION Spec
CONSTANTS
    u1 = u1  u2 = u2  r1 = r1  r2 = r2  r3 = r3
    Users = {u1, u2}
    Requests = {r1, r2, r3}
    Nobody = Nobody
    Cap = 1
    MaxFaults = 1
INVARIANTS FloorKept HeadTeaches SeatsCounted VerdictSticks
CHECK_DEADLOCK FALSE
SYMMETRY Symmetric
