CONSTANTS
    Star = "*"
    Absent = Absent
    Labels <- MCLabels
    Names <- MCNames
    Conns = {c1}
    Asked <- MCAsked
    RuleHosts <- MCRuleHosts
    Backends = {b1, b2}
    MaxLog = 1
    DbFails = TRUE
SPECIFICATION WatchedSpec
INVARIANT HeadersAlike
