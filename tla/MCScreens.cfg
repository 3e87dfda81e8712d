CONSTANTS
    VGA_WIDTH = 4
    VGA_HEIGHT = 3
    Rows = 10
    Texts <- MCTexts
    MaxTexts = 4
    Word = 4096
    MB = 256
    Sizes = {20, 24}
    Types = {1, 2}
    Bases = {0, 300, 4396}
    Lengths = {255, 512, 4000, 4352}
    MaxRegions = 2
SPECIFICATION Spec
INVARIANTS TypeOK PictureRight RangesPrinted SizePrinted
CHECK_DEADLOCK FALSE
