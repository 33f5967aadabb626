CONSTANTS
    Star = "*"
    Absent = Absent
    Labels <- MCLabels
    Names <- MCNames
    Hosts <- MCHosts
    Workers = {w1, w2}
    Backends = {b1}
    MaxId = 2
    IPLists = {lan1}
    Faults = {"read", "write", "sync"}
SPECIFICATION SpecClaims
SYMMETRY MCSymmetry
INVARIANTS ProxiesAgree
CONSTRAINT SyncSkipped
