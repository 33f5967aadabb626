CONSTANTS
    Keys <- MCKeys
    Options = {"http_port", "listen_addresses"}
    Listen = "listen_addresses"
    Fallback = "upstream_dns_fallback"
    Values = {default, zero}
    Default <- MCDefault
    default = default
    zero = zero
    Zero = zero
    Bodies <- MCBodies
    Main = main
    Handlers = {h1, h2}
    DbFails = TRUE
    h1 = h1
    udp = udp
    http = http
    https = https
    proxy = proxy
    admin = admin
    Servers <- MCServers
    ServersOf <- MCServersOf
    Waiting = {http, https, proxy, admin}
    Admin = admin
    Hijacking = {proxy, admin}
    Asked <- MCAsked
    Checks <- MCChecks
    Given <- MCGiven
    NoServer = none
    Torn = torn
    Day = 3
SPECIFICATION WatchedSpec
INVARIANTS TypeOK BackgroundUndisturbed EditsFinish RunningIsInUse SettingsKept
PROPERTIES OptionsWin ShutdownEnds
