SPECIFICATION Spec
CONSTANTS
    d1 = d1 d2 = d2 d3 = d3 signed = signed open = open a = a b = b
    Procs = {a}
    Names = {jq}
    Digests = {d1, d2, d3}
    Registries = {signed, open}
    PolicyRegistries = {signed}
    Passes <- MCPasses
    Fetches <- MCFetchAll
    LaunchPath <- MCLaunchPath
    AllowOptions = {TRUE, FALSE}
    Commands = {"install", "update", "remove", "doctor"}
    ReinstallCurrent = FALSE
    UserWaits = FALSE
    NoLink = NoLink NoFile = NoFile EmptyFile = EmptyFile ForeignFile = ForeignFile
    MaxInstalls = 3
    MaxFaults = 2
INVARIANTS TypeOK RunnableShim WrapperMatchesCurrent StoreTrusted
PROPERTIES DoctorRepairs ImplementsLifecycle
