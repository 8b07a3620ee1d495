SPECIFICATION Spec
CONSTANTS
    d1 = d1 d2 = d2 d3 = d3 signed = signed open = open a = a b = b
    Procs = {a, b}
    Names = {jq}
    Digests = {d1, d2, d3}
    Registries = {signed, open}
    PolicyRegistries = {signed}
    Passes <- MCPassesBoth
    Fetches <- MCFetchAll
    LaunchPath <- MCLaunchPath
    AllowOptions = {FALSE}
    Commands = {"install", "update", "remove", "rollback"}
    ReinstallCurrent = TRUE
    UserWaits = TRUE
    NoLink = NoLink NoFile = NoFile EmptyFile = EmptyFile ForeignFile = ForeignFile
    MaxInstalls = 2
    MaxFaults = 1
INVARIANTS TrustInv
PROPERTIES ForeignFilesKept
CHECK_DEADLOCK FALSE
