CONSTANTS
    Names = {"f", "d"}
    LongNames = {}
    Data = {1}
    Cells = 3
    Direct = 3
    NumInodes = 3
    NumBlocks = 4
    Procs = {p1, p2}
    First = p1
    Paths <- FewPaths
    FileNames = {"f"}
    DirNames = {"d"}
    Modes = {420}
    Flags = {2}
    MaxObjects = 2
    MaxWrite = 1
    MaxPath = 2
    MaxFreeBlocks = 4
SPECIFICATION Spec
INVARIANT NamesUnique
CHECK_DEADLOCK FALSE
