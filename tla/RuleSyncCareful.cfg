CONSTANTS
    Star = "*"
    Absent = Absent
    Labels <- MCLabels
    Names <- MCNames
    Hosts <- MCHosts
    Workers = {w1, w2}
    Backends = {b1}
    MaxId = 2
    IPLists = {lan1}
    Faults = {"write", "sync"}
SPECIFICATION SpecCareful
SYMMETRY MCSymmetry
INVARIANTS TypeOK RowsUnique RoutesFollowRows RouteInv
PROPERTY RoutesStay
