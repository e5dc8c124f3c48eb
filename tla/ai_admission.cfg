SPECIFICATION LiveSpec
CONSTANTS
    c1 = c1  c2 = c2  p1 = p1  a1 = a1
    Requests = {c1, c2, p1, a1}
    Chats = {c1, c2}
    Assistants = {a1}
    Max = 2
    HoldLimit = TRUE
INVARIANTS TypeOK SlotsCounted DoneHoldsNothing StopFindsLiveTurn
PROPERTIES FirstComeFirstServed NoSlotForTheGone GateSpec GateLives
