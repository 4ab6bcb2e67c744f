CONSTANTS
    Dirs = {"r", "a", "b", "c"}
    Root = "r"
    Parent <- MCParent
    Names = {"x.qcow2"}
    NameLen <- MCNameLen
    InitTrees <- MCInitTrees
    Sizes = {1, 2}
    MaxClock = 2
    MaxChanges = 1
    Runs = 3
SPECIFICATION Spec
INVARIANT RerunAccurate
INVARIANT EmptyOnlyWhileWriting
INVARIANT LabelsFit
