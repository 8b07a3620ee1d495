SPECIFICATION Spec
CONSTANTS
    d1 = d1 d2 = d2 d3 = d3 signed = signed open = open a = a b = b
    Procs = {a}
    Names = {jq}
    Digests = {d1}
    Registries = {signed, open}
    PolicyRegistries = {signed}
    Passes <- MCPasses
    Fetches <- MCFetchAll
    LaunchPath <- MCLaunchPath
    AllowOptions = {TRUE, FALSE}
    Commands = {"install"}
    ReinstallCurrent = TRUE
    UserWaits = TRUE
    NoLink = NoLink NoFile = NoFile EmptyFile = EmptyFile ForeignFile = ForeignFile
    MaxInstalls = 2
    MaxFaults = 0
INVARIANTS BuildSparesCurrent
