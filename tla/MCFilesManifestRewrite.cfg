CONSTANTS
    Dirs = {"r", "a"}
    Root = "r"
    Parent <- MCParent
    Stems <- MCStems
    Exts <- MCExts
    InitTrees <- MCInitTrees
    MaxClock = 2
    MaxChanges = 1
SPECIFICATION Spec
INVARIANT EntryFromOneVersion
