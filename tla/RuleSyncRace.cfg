CONSTANTS
    Star = "*"
    Absent = Absent
    Labels <- MCLabels
    Names <- MCNames
    Hosts <- TwoExact
    Workers = {w1, w2}
    Backends = {b1}
    MaxId = 2
    IPLists = {lan1}
    Faults = {}
SPECIFICATION SpecCareful
INVARIANT AutoFollowsRows
