SPECIFICATION Spec
CONSTANTS
    p1 = p1 p2 = p2 x = x y = y
    Procs = {p1, p2}
    Shells = {"bash", "fish"}
    RcFiles = {".bash_profile", ".bashrc"}
    Texts = {x, y}
    FirstFiles <- MCFirstFiles
    Missing = Missing
    Quiet = Quiet
    MaxCommands = 4
    MaxEdits = 2
    MaxFaults = 1
SYMMETRY Sym
CHECK_DEADLOCK FALSE
INVARIANTS TypeOK UserTextKept CommandsHonest
