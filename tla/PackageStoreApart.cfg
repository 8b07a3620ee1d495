SPECIFICATION FairSpec
CONSTANTS
    d1 = d1 d2 = d2 d3 = d3 signed = signed open = open a = a b = b
    Procs = {a, b}
    Names = {jq}
    Digests = {d1, d2, d3}
    Registries = {signed, open}
    PolicyRegistries = {signed}
    Passes <- MCPasses
    Fetches <- MCFetchApart
    LaunchPath <- MCLaunchPath
    AllowOptions = {TRUE, FALSE}
    Commands = {"install", "doctor"}
    ReinstallCurrent = FALSE
    UserWaits = TRUE
    NoLink = NoLink NoFile = NoFile EmptyFile = EmptyFile ForeignFile = ForeignFile
    MaxInstalls = 3
    MaxFaults = 0
INVARIANTS CurrentComplete
PROPERTIES ActiveImmutable CommandsReturn
