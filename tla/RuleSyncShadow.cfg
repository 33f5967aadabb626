CONSTANTS
    Star = "*"
    Absent = Absent
    Labels <- MCLabels
    Names <- MCNames
    Hosts <- MCHosts
    Workers = {w1}
    Backends = {b1}
    MaxId = 2
    IPLists = {lan1}
    Faults = {}
SPECIFICATION SpecCareful
INVARIANT SameServing
