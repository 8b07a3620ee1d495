SPECIFICATION Spec
CONSTANTS
    p1 = p1 p2 = p2 alice = alice n1 = n1
    Procs = {p1, p2}
    Searchers = {p1, p2}
    Hosts = {"h1", "docker.io", "index.docker.io"}
    Servers = {"h1", "docker.io"}
    Paths = {"", "a", "b"}
    Keys <- MCKeys
    Users = {alice}
    DockerOf <- MCDockerOf
    NoUser = NoUser
    HubAlias = "docker.io"
    Hub = "index.docker.io"
    Resources <- MCResources
    Accepts <- MCAccepts
    Names = {n1}
    URLs <- MCURLs
    Nothing = Nothing
    TTL = 1
    MaxTime = 2
    MaxVersions = 1
    MaxCommands = 3
    MaxCrashes = 1
SYMMETRY Sym
INVARIANTS TypeOK OwnCredentials LoginsKept ListingRecent
