------------------------------- MODULE MemMap -------------------------------
(***************************************************************************)
(* memos-2: the kernel walks the memory map that the boot loader gives it,  *)
(* prints the bounds of every region and, at last, the size of the memory.  *)
(*                                                                         *)
(* unit_32 is counted modulo Word, and a megabyte is MB.  The screen is, of *)
(* each row, the texts printed on it; x only counts their characters.  The  *)
(* map is any the loader may give.                                          *)
(***************************************************************************)
EXTENDS Integers, Sequences, Sums

CONSTANTS
    Word,           \* 2^32
    MB,             \* 2^20
    Sizes, Types, Bases, Lengths,   \* of the regions
    MaxRegions      \* bound: regions of a map

ASSUME MemMapAssumption ==
    /\ Word \in Nat \ {0} /\ MB \in Nat \ {0, 1} /\ Word % MB = 0
    /\ Bases \cup Lengths \subseteq 0 .. 2 * Word - 1
    /\ Sizes \subseteq Nat \ {0} /\ MaxRegions \in Nat

VARIABLES
    regions,        \* the map: from mmap_addr on, one region after the other
    mmap,           \* how far the walk has come from mmap_addr
    memsz,
    y,
    screen,         \* of each row: what is printed on it
    halted

memos == <<regions, mmap, memsz, y, screen, halted>>

\* A region has 64-bit base and length.
Region == [size : Sizes, type : Types, base : Bases, length : Lengths]
base_addr_low(region) == region.base % Word
length_low(region) == region.length % Word

-----------------------------------------------------------------------------
(* toString.                                                               *)

\* The digits of data, last first.
revstr(unit) ==
    LET rev[data \in 0 .. Word - 1] ==
            IF data = 0 THEN <<>> ELSE <<data % unit>> \o rev[data \div unit]
    IN  rev

toString(data, unit) ==
    IF data = 0 THEN <<0>> ELSE Reverse(revstr(unit)[data])

\* What the digits are read as.
Value(digits, unit) == FoldLeft(LAMBDA v, d : v * unit + d, 0, digits)

-----------------------------------------------------------------------------
(* init.                                                                   *)

\* Where region k starts, and what the loader puts into mmap_length.
Offset(k) == SumOf([i \in 1 .. k - 1 |-> regions[i].size + 4])
mmap_length == Offset(Len(regions) + 1)

NoRegion == [size |-> 20, type |-> 0, base |-> 0, length |-> 0]

\* The region at an address of the map.
RegionAt(address) ==
    IF \E k \in DOMAIN regions : Offset(k) = address
    THEN regions[CHOOSE k \in DOMAIN regions : Offset(k) = address]
    ELSE NoRegion

MemInit ==
    /\ regions \in UNION {[1 .. n -> Region] : n \in 0 .. MaxRegions}
    /\ mmap = 0 /\ memsz = 0 /\ y = 4
    /\ screen = [row \in {} |-> <<>>] /\ halted = FALSE

\* Mutant: the last byte of the region.
endAddr_last(region) == (base_addr_low(region) + length_low(region) - 1) % Word
endAddr(region) == (base_addr_low(region) + length_low(region)) % Word

\* Mutant: regions are taken to be of 24 bytes.
NextRegion_fixed(region) == mmap + 24
NextRegion(region) == mmap + region.size + 4

\* One turn of the loop.
PrintRegion ==
    /\ ~halted /\ mmap < mmap_length
    /\ LET region == RegionAt(mmap)
       IN  /\ memsz' = IF region.type = 1 THEN (memsz + length_low(region)) % Word ELSE memsz
           /\ screen' = [row \in DOMAIN screen \cup {y} |->
                 IF row = y
                 THEN <<toString(base_addr_low(region), 16), toString(endAddr(region), 16),
                        IF region.type = 1 THEN "available" ELSE "reserved">>
                 ELSE screen[row]]
           /\ mmap' = NextRegion(region)
    /\ y' = y + 1
    /\ UNCHANGED <<regions, halted>>

\* Mutant: rounded down.
Megabytes_down(bytes) == bytes \div MB
Megabytes(bytes) == (bytes \div MB) + 1

PrintSize ==
    /\ ~halted /\ mmap >= mmap_length
    /\ memsz' = Megabytes(memsz)
    /\ y' = 2
    /\ screen' = [row \in DOMAIN screen \cup {2} |->
          IF row = 2 THEN <<toString(Megabytes(memsz), 10)>> ELSE screen[row]]
    /\ halted' = TRUE
    /\ UNCHANGED <<regions, mmap>>

MemNext == PrintRegion \/ PrintSize

-----------------------------------------------------------------------------

MemTypeOK ==
    /\ memsz \in 0 .. Word - 1 /\ mmap \in 0 .. mmap_length
    /\ y \in {2} \cup 4 .. 4 + Len(regions)
    /\ DOMAIN screen \subseteq {2} \cup 4 .. 3 + Len(regions)
    /\ halted \in BOOLEAN

\* Every region is printed once, in the order of the map and on a row of its own; the
\* digits read as its base and, unless they take more than a word, its end.
RangesPrinted ==
    LET printed == DOMAIN screen \ {2}
    IN  /\ printed \subseteq 4 .. 3 + Len(regions)
        /\ halted => printed = 4 .. 3 + Len(regions)
        /\ \A row \in printed :
            LET region == regions[row - 3]
            IN  /\ Value(screen[row][1], 16) = region.base % Word
                /\ region.base + region.length < Word =>
                    Value(screen[row][2], 16) = region.base + region.length
                /\ screen[row][3] = "available" <=> region.type = 1

Available == {k \in DOMAIN regions : regions[k].type = 1}

\* The size printed is the available memory in megabytes, the one that is not full
\* counted as well; a memory of n whole megabytes is printed as n + 1.  Regions or a
\* total of a word or more are out of its reach: they count modulo Word.
SizePrinted ==
    LET total == SumOf([k \in DOMAIN regions |-> IF k \in Available THEN regions[k].length ELSE 0])
        printed == Value(screen[2][1], 10)
    IN  halted /\ total < Word => (printed - 1) * MB <= total /\ total < printed * MB
=============================================================================
