---------------------------- MODULE RamdiskDisk ----------------------------
(***************************************************************************)
(* The 2 MB disk of the RAM disk module as a value, and the functions of    *)
(* support_function.h that read and change it as operators on that value:   *)
(* a superblock, a table of inodes, a bitmap and an array of blocks.        *)
(*                                                                         *)
(* A block is a row of cells.  A cell is the 16 bytes of a directory entry; *)
(* sizes, positions and offsets are counted in cells.  A file has at most   *)
(* Direct blocks here: with the allocator as it is (AllocateBitmap) an      *)
(* index block is never a block of its own, so nothing could be said about  *)
(* files that need one.                                                     *)
(***************************************************************************)
EXTENDS Integers, Sequences, FiniteSets
LOCAL INSTANCE FiniteSetsExt
LOCAL INSTANCE SequencesExt

CONSTANTS
    Names,          \* names of files and directories
    LongNames,      \* those of more than 13 characters
    Data,           \* what a program writes into a cell of a file
    Cells,          \* cells in a block: block_size / 16
    Direct,         \* direct pointers of an inode
    NumInodes,      \* inode_list_num
    NumBlocks       \* allocatable_space_size

ASSUME DiskAssumption ==
    /\ LongNames \subseteq Names
    /\ Cells \in Nat \ {0} /\ Direct \in Nat \ {0, 1, 2}
    /\ NumInodes \in Nat \ {0} /\ NumBlocks \in Nat \ {0, 1}

ERROR == -1
NULL == -1          \* no block
WILD == -2          \* an address that is none of the disk

Root == 0
Phantom == -1       \* inode_ptr[-1]: zero bytes behind the superblock's fields
RootParent == 65534 \* (uint16_t)-2, past the table
Inodes == -1 .. NumInodes - 1
Table == 0 .. NumInodes - 1
Blocks == 0 .. NumBlocks - 1

Zero == [kind |-> "zero"]
Entry(name, n) == [kind |-> "entry", filename |-> name, inode_index |-> n]
Content(v) == [kind |-> "data", value |-> v]

Clear ==
    [type |-> "nul", size |-> 0, location |-> [i \in 0 .. Direct - 1 |-> NULL],
     operation |-> FALSE, parent_index |-> 0, block_number |-> 0,
     last_block_offset |-> 0, mode |-> 0]

\* init_datastructure
InitDisk ==
    [freeBlock_number |-> NumBlocks - 1, freeInode_number |-> NumInodes - 1,
     first_freeBlock |-> 1, first_freeInode |-> 1,
     index |-> {0},
     inode |-> [n \in Inodes |->
         IF n = Root
         THEN [Clear EXCEPT !.type = "dir", !.location[0] = 0,
                            !.operation = TRUE, !.parent_index = RootParent]
         ELSE Clear],
     space |-> [b \in Blocks |-> [c \in 0 .. Cells - 1 |-> Zero]],
     fault |-> FALSE]

\* The kernel has followed a pointer that leads nowhere.
Fault(d) == [d EXCEPT !.fault = TRUE]

-----------------------------------------------------------------------------
(* Reading a directory.                                                    *)

\* The blocks the search visits: location[] up to the first NULL.
ChainOf(d, n) ==
    LET loc == d.inode[n].location
        len == Min({i \in 0 .. Direct - 1 : loc[i] = NULL} \cup {Direct})
    IN  [i \in 1 .. len |-> loc[i - 1]]

\* The cells that belong to inode n, in order, as many as its size says.
CellsOf(d, n) ==
    LET chain == ChainOf(d, n)
        cell(k) == d.space[chain[(k \div Cells) + 1]][k % Cells]
    IN  [k \in 1 .. Min({d.inode[n].size, Cells * Len(chain)}) |-> cell(k - 1)]

\* Where isExist finds a name: the index of its entry, from 0.
DirectoryIndex(d, name, n) ==
    LET cells == CellsOf(d, n)
        hits == {k \in DOMAIN cells : cells[k].kind = "entry" /\ cells[k].filename = name}
    IN  IF hits = {} \/ name \in LongNames THEN ERROR ELSE Min(hits) - 1

IsExist(d, name, n) ==
    LET at == DirectoryIndex(d, name, n)
    IN  IF at = ERROR THEN ERROR ELSE CellsOf(d, n)[at + 1].inode_index

-----------------------------------------------------------------------------
(* Blocks.                                                                 *)

\* A freed number becomes the first free one if it is below it.
\* Mutant: whatever it is.
Lower_always(first, n) == n
Lower(first, n) == Min({first, n})

\* The bit of b is set; the search for the next free one stops at the first
\* byte of the map that is not zero, and takes its first bit.
AllocateBitmap(d, b) ==
    LET bits == d.index \cup {b}
        next == Min({i \in (b \div 8) .. NumBlocks \div 8 : \E k \in bits : k \div 8 = i})
    IN  [d EXCEPT !.index = bits,
                  !.freeBlock_number = @ - 1,
                  !.first_freeBlock = 8 * next]

\* The new block is number block_number + 1 of the file, whatever the file has.
AllocateBlock(d, n) ==
    LET bn == d.inode[n].block_number + 1
        b == d.first_freeBlock
    IN  IF d.freeBlock_number < 1
        THEN [disk |-> d, block |-> NULL]
        ELSE [disk |-> [AllocateBitmap(d, b) EXCEPT
                            !.inode[n].block_number = bn,
                            !.inode[n].last_block_offset = 0,
                            !.inode[n].location[bn] = b],
              block |-> b]

\* The pattern that free_bitmap ORs into the byte of b has bit 4 of the byte
\* flipped among the bits from b's own to the last.
FreeBitmap(d, b) ==
    LET first == 8 * (b \div 8)
        bits == {first + i : i \in SymDiff((b % 8) .. 7, {4})}
    IN  [d EXCEPT !.index = @ \cup bits,
                  !.freeBlock_number = @ + 1,
                  !.first_freeBlock = Lower(@, b)]

FreeBlock(d, n) ==
    LET free(e, b) == FreeBitmap([e EXCEPT !.space[b] = [c \in 0 .. Cells - 1 |-> Zero]], b)
    IN  IF d.inode[n].block_number < 0 THEN d
        ELSE FoldLeft(free, d, ChainOf(d, n))

\* Mutant: the offset in the block is forgotten.
OffsetOf_start(pos) == 0
OffsetOf(pos) == pos % Cells

\* The block that position pos of a file is in.  NULL plus an offset is not NULL.
SwitchAddress(d, n, pos) ==
    LET b == d.inode[n].location[pos \div Cells]
    IN  IF b = NULL /\ OffsetOf(pos) # 0 THEN WILD ELSE b

\* One cell of a write: at the end of a block the next one is allocated.
PutCell(w, cell) ==
    LET full == w.offset = Cells
        new == IF full THEN AllocateBlock(w.disk, w.file)
                       ELSE [disk |-> w.disk, block |-> w.block]
        at == IF full THEN 0 ELSE w.offset
    IN  IF w.stopped \/ new.block = NULL THEN [w EXCEPT !.stopped = TRUE]
        ELSE [w EXCEPT !.disk = [new.disk EXCEPT !.space[new.block][at] = cell],
                       !.block = new.block, !.offset = at + 1, !.done = @ + 1]

SizeAfter(inode, done) == inode.size + done

\* write_file.  The size grows by what was written wherever it was written.
WriteFile(d, n, pos, cells) ==
    LET first == IF d.inode[n].location[0] = NULL
                 THEN AllocateBlock(d, n)
                 ELSE [disk |-> d, block |-> d.inode[n].location[0]]
        here == SwitchAddress(first.disk, n, pos)
        start == IF here = NULL THEN AllocateBlock(first.disk, n)
                                ELSE [disk |-> first.disk, block |-> here]
        end == FoldLeft(PutCell,
                        [disk |-> start.disk, file |-> n, block |-> start.block,
                         offset |-> OffsetOf(pos), done |-> 0, stopped |-> FALSE],
                        cells)
        size == SizeAfter(end.disk.inode[n], end.done)
    IN  IF first.block = NULL THEN [disk |-> d, ret |-> ERROR]
        ELSE IF start.block \in {NULL, WILD} THEN [disk |-> Fault(start.disk), ret |-> ERROR]
        ELSE [disk |-> [end.disk EXCEPT !.inode[n].size = size,
                                        !.inode[n].block_number = size \div Cells,
                                        !.inode[n].last_block_offset = size % Cells],
              ret |-> end.done]

\* rd_read with get_blockpointer.  A position behind the end reads from the
\* start; a block that is not there is an ERROR.
ReadFile(d, n, position, num) ==
    LET inode == d.inode[n]
        pos == IF position >= inode.size THEN 0 ELSE position
        len == Min({inode.size - pos, num})
        block(k) == inode.location[(pos + k - 1) \div Cells]
    IN  IF inode.size = 0 \/ \E k \in 1 .. len : block(k) = NULL
        THEN ERROR
        ELSE [k \in 1 .. len |-> d.space[block(k)][(pos + k - 1) % Cells]]

-----------------------------------------------------------------------------
(* Inodes.                                                                 *)

\* Mutant: off by one at the end of the table.
NextFreeInode_past_end(d, n) ==
    Min({i \in (n + 1) .. NumInodes - 1 : ~d.inode[i].operation} \cup {NumInodes + 1})

NextFreeInode(d, n) ==
    Min({i \in (n + 1) .. NumInodes - 1 : ~d.inode[i].operation} \cup {NumInodes})

\* first_freeInode is taken as it is, past the table too; location[] is kept.
AllocateInode(d, parent, mode, type) ==
    LET n == d.first_freeInode IN
        IF n \notin Table THEN Fault(d)
        ELSE [d EXCEPT !.inode[n] = [@ EXCEPT !.type = type, !.size = 0, !.operation = TRUE,
                                              !.parent_index = parent % 65536,
                                              !.block_number = -1, !.last_block_offset = 0,
                                              !.mode = mode],
                       !.first_freeInode = NextFreeInode(d, n),
                       !.freeInode_number = (@ - 1) % 65536]

\* Mutant: the last entry is dropped, not moved.
MoveEntry_dropped(d, from, last, to, cell) == d

\* A single entry need not move.
MoveEntry(d, from, last, to, cell) ==
    IF last = 0 THEN d ELSE [d EXCEPT !.space[to][cell] = d.space[from][last]]

\* The last entry of the directory moves into the place of the one that goes.
FreeParentDirectoryEntry(d, name, parent) ==
    LET at == DirectoryIndex(d, name, parent)
        last == d.inode[parent].last_block_offset - 1
        from == d.inode[parent].location[d.inode[parent].block_number]
        to == SwitchAddress(d, parent, at)
    IN  IF at = ERROR THEN d
        ELSE IF last < 0 \/ (last > 0 /\ from = NULL) THEN Fault(d)
        ELSE [MoveEntry(d, from, last, to, OffsetOf(at)) EXCEPT
                !.inode[parent].last_block_offset = @ - 1,
                !.inode[parent].size = @ - 1]

FreeInode(d, name, n) ==
    LET e == FreeParentDirectoryEntry(FreeBlock(d, n), name, d.inode[n].parent_index)
    IN  [e EXCEPT !.inode[n] = [Clear EXCEPT !.location = e.inode[n].location, !.mode = -1],
                  !.freeInode_number = @ + 1,
                  !.first_freeInode = Lower(@, n)]
=============================================================================
