SPECIFICATION InstallSpec
CONSTANTS
    d1 = d1 d2 = d2 cg = cg open = open edited = edited
    Digests = {d1, d2}
    Registries = {cg, open, edited}
    PolicyOf <- MCPolicyOf
    SidecarLists <- MCSidecarLists
    ReferrerLists <- MCReferrerLists
    MaxChanges = 1
    MaxFaults = 1
    Images = {d1, d2}
    ContentOf <- MCContentOf
    DeclaredOf <- MCDeclaredOf
    Targets <- MCTargets
    Host = "linux/amd64"
    Nowhere = Nowhere
    MaxHops = 4
    MaxMoves = 1
    MaxBreaks = 1
    None = None
    MaxLayers = 3
    MaxUpstream = 1
    AttestationLists <- MCAttestationLists
INVARIANTS TypeOK GateSound StagedWhole
PROPERTIES NoSpuriousRefusal InstalledIsVerified AttestationsReported AcceptedInstalls
