CONSTANTS
    Star = "*"
    Absent = Absent
    Labels <- MCLabels
    Names <- TwoNames
    Hosts <- TwoHosts
    Workers = {w1, w2}
    Backends = {b1}
    MaxId = 1
    IPLists = {lan1, lan2}
    Faults = {"start"}
    Nobody = Nobody
SYMMETRY MCSymmetry
SPECIFICATION HealSpec
PROPERTIES UndisturbedSyncHeals UndisturbedDeleteHeals UndisturbedEditHeals AutoStays
