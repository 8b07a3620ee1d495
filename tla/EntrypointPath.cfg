SPECIFICATION FairSpec
CONSTANTS
    None = None
    Images <- MCImages
    Entrypoints <- MCEntrypoints
    HostDirs <- MCHostDirs
    HostFiles <- MCHostFiles
    Staging <- MCStaging
    Package <- MCPackage
    HostOS = "linux"
    HostArch = "amd64"
    MaxHops = 3
    MaxLinks = 8
INVARIANTS TypeOK RunsImage NoSpuriousRefusal
PROPERTY Terminates
