CONSTANTS
    Star = "*"
    Absent = Absent
    Labels <- MCLabels
    Names <- MCNames
    Callers = {c1}
    Maintainer = maint
    Asked <- MCAsked
    HostLife = 2
    CALife = 3
    MaxNow = 5
    DbFails = TRUE
SPECIFICATION WatchedSpec
INVARIANTS ReplacedCADies CacheCoherent
PROPERTIES MaintenanceClears ReplacedCAGone CallersReturn MaintenanceEnds
