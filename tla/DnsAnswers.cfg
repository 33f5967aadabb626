CONSTANTS
    Star = "*"
    Absent = Absent
    Labels <- MCLabels
    Names <- MCNames
    Resolvers = {s1}
    Asked <- MCAsked
    RuleHosts <- MCRuleHosts
    IPLists = {lan1}
    RecordIds = {1}
    RecordNames <- MCRecordNames
    Clients = {host, phone}
    Nics = {host}
    Servers <- MCServers
    SystemDNS <- MCSystemDNS
    Fallback <- MCFallback
    HistorySize = 1
    DbFails = TRUE
SPECIFICATION HistorySpec
INVARIANTS TypeOK AnswerWasRight
PROPERTY QueriesEnd
