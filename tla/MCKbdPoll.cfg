CONSTANTS
    Readers = {r1, r2}
    MaxPresses = 3
    Newlines = {3}
    PortSize = 2
SPECIFICATION System
INVARIANTS SystemTypeOK NoLostWakeup KeyIsNew CallsServed LineBalanced
PROPERTIES KeyTaken KeysInOrder
CHECK_DEADLOCK FALSE
