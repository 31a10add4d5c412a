SPECIFICATION Spec
CONSTANTS
    Invalid = {1}
    MaxEdits = 2
    MaxClicks = 1
    MaxFaults = 1
    MaxTimeouts = 1
    Nil = Nil
INVARIANTS DivergenceIsReported
PROPERTIES LastEditIsSettled CloseEndsChild
