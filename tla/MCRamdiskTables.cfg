CONSTANTS
    Procs = {p1, p2, p3}
    Files = {f1}
    MaxTables = 3
    MaxObjects = 3
SPECIFICATION Spec
INVARIANTS TypeOK AloneKept OneTable
PROPERTIES Inherited FaultsInCompany
SYMMETRY Symmetry
CHECK_DEADLOCK FALSE
