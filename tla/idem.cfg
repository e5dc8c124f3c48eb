SPECIFICATION LiveSpec
CONSTANTS
    q1 = q1  q2 = q2  q3 = q3  q4 = q4  pa = pa  pb = pb  b1 = b1  b2 = b2
    Requests = {q1, q2, q3, q4}
    Procs = {pa, pb}
    Bodies = {b1, b2}
    Home <- HomeOf
    Body <- BodyOf
    Old = Old
    None = None
    MaxFaults = 1
    MaxExpiries = 1
INVARIANTS OneOwner AnswersMatchBody
PROPERTIES OncePerKeySpec Answered
CHECK_DEADLOCK FALSE
