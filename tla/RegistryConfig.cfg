SPECIFICATION Spec
CONSTANTS
    cg = cg corp = corp gh = gh cgRegex = cgRegex
    Procs = {p, q}
    RegNames = {cg, corp}
    Seed = cg
    SeedPolicy <- MCSeedPolicy
    Packages = {jq}
    Issuers = {gh}
    Regexes = {cgRegex}
    BadRegex = BadRegex
    Templates = {"github", "chainguard"}
    TemplatePolicy <- MCTemplatePolicy
    None = None
    FlagChoices <- MCFlags
    Commands = {"add", "remove", "install", "rollback"}
    ForceOptions = {FALSE}
    MaxFaults = 1
INVARIANTS TypeOK NamesUnique PoliciesUsable SignedIntent DefaultConfigured PackagesUpdatable
SYMMETRY MCSymmetry
CHECK_DEADLOCK FALSE
