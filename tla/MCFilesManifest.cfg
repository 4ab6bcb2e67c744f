CONSTANTS
    Dirs = {"r", "a"}
    Root = "r"
    Parent <- MCParent
    Stems <- MCStems
    Exts <- MCExts
    InitTrees <- MCInitTrees
    MaxClock = 2
    MaxChanges = 2
SPECIFICATION Spec
INVARIANT DescribesTree
INVARIANT EmptyOnlyWhileDumping
