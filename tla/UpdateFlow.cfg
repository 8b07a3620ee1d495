SPECIFICATION Spec
CONSTANTS
    cg = cg ex = ex hub = hub exHost = exHost m1 = m1 m2 = m2 m3 = m3 ix = ix
    Procs = {p}
    Names = {jq, yq}
    Hosts = {hub, exHost}
    Configured = {cg}
    HostShaped = {ex}
    ConfigUrl <- MCConfigUrl
    OwnHost <- MCOwnHost
    Default = cg
    Manifests = {m1, m2, m3}
    HostImage <- MCHostImageForeign
    NoMatch = NoMatch
    Tags = {1, 2, 3, 4}
    LastTag = 4
    Floating = {3}
    Sidecar = {}
    Variants <- MCVariants
    FirstTag = 1
    FirstManifest = m1
    Absent = Absent
    MaxPushes = 2
INVARIANTS TypeOK ScanComplete
PROPERTIES UpdateSettles MovesToGreaterTag UpdatesFromSource
CHECK_DEADLOCK FALSE
