CONSTANTS
    Names = {"f", "d"}
    LongNames = {}
    Data = {1}
    Cells = 3
    Direct = 3
    NumInodes = 3
    NumBlocks = 3
    Procs = {p1, p2}
    First = p1
    Paths <- UpPaths
    FileNames = {"f"}
    DirNames = {"d"}
    Modes = {420}
    Flags = {2}
    MaxObjects = 2
    MaxWrite = 1
    MaxPath = 1
    MaxFreeBlocks = 3
SPECIFICATION Spec
INVARIANTS InodesAccounted EntriesLive ContentKept
CHECK_DEADLOCK FALSE
