CONSTANTS
    Size = 5
    LogEntry = {"auto", "manual", "upstream"}
    Unset = "none"
SPECIFICATION Spec
INVARIANT RingInv
PROPERTY KeepsTheNewest
