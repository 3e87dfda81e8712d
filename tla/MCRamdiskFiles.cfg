CONSTANTS
    Files = {f1, f2}
    Direct = 2
    Words = 2
    NumBlocks = 14
    WriteSizes = {2, 3}
    MaxSize = 16
SYMMETRY Symmetry
SPECIFICATION Spec
INVARIANTS TypeOK ReadsBack MapAgrees
PROPERTY FaultsAtEdges
CHECK_DEADLOCK FALSE
