CONSTANTS
    Names = {"f", "d", "long"}
    LongNames = {"long"}
    Data = {1, 2}
    Cells = 3
    Direct = 3
    NumInodes = 4
    NumBlocks = 4
    Procs = {p1}
    First = p1
    Paths <- AllPaths
    FileNames = {"f", "long"}
    DirNames = {"d"}
    Modes = {420}
    Flags = {2}
    MaxObjects = 3
    MaxWrite = 2
    MaxPath = 2
    MaxFreeBlocks = 4
SPECIFICATION Spec
INVARIANTS TypeOK TreeConsistent DescriptorsLive
CHECK_DEADLOCK FALSE
