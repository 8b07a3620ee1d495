SPECIFICATION Spec
CONSTANTS
    cg = cg ex = ex hub = hub exHost = exHost m1 = m1 m2 = m2 m3 = m3 ix = ix
    Procs = {p}
    Names = {jq}
    Hosts = {hub, exHost}
    Configured = {cg}
    HostShaped = {ex}
    ConfigUrl <- MCConfigUrl
    OwnHost <- MCOwnHost
    Default = cg
    Manifests = {m1, ix}
    HostImage <- MCHostImage
    NoMatch = NoMatch
    Tags = {1}
    LastTag = 1
    Floating = {}
    Sidecar = {}
    Variants <- MCVariants
    FirstTag = 1
    FirstManifest = ix
    Absent = Absent
    MaxPushes = 0
INVARIANTS SameDigestNoUpdate
CHECK_DEADLOCK FALSE
