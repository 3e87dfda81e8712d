---------------------------- MODULE RamdiskFiles ----------------------------
(***************************************************************************)
(* The blocks of a file of the RAM disk: direct, single-indirect and        *)
(* double-indirect pointers, as allocate_block builds them, switchAddress   *)
(* and get_blockpointer follow them and free_block takes them down.         *)
(*                                                                         *)
(* A block is a row of words.  A word is a pointer in an index block, and   *)
(* in a data block the unit in which sizes, positions and offsets are       *)
(* counted: the code has 64 words in a block, 8 direct pointers and files   *)
(* of 8 + 64 + 64 * 64 blocks.  A word reads as data or as a pointer by how *)
(* it was written; a pointer that is data leads anywhere.                   *)
(*                                                                         *)
(* Two expressions are assumed to do what their comments say, to see what   *)
(* the rest of the code does then: the search of allocate_bitmap finds a    *)
(* free block, and free_bitmap clears the bit of the block.  As they are    *)
(* written they do not; RamdiskDisk has them as they are, and there a file  *)
(* has no second block of its own.                                          *)
(***************************************************************************)
EXTENDS Integers, Sequences, FiniteSets, FiniteSetsExt, SequencesExt

CONSTANTS
    Files,          \* inodes of the files
    Direct,         \* direct pointers of an inode: 8
    Words,          \* words of a block, pointers of an index block: 64
    NumBlocks,      \* blocks on the disk: 7931
    WriteSizes,     \* bound: words in one write
    MaxSize         \* bound: files of this size are not written to

\* What freeBlock_number counts to: it has 16 bits.
Largest == 65535

ASSUME FilesAssumption ==
    /\ Direct \in Nat \ {0} /\ Words \in Nat \ {0}
    /\ NumBlocks \in 0 .. Largest /\ WriteSizes \subseteq Nat \ {0} /\ MaxSize \in Nat

NULL == -1
WILD == -2          \* not an address of the disk
Closed == -1

\* location[Direct] is the single-indirect pointer, location[Direct + 1] the
\* double-indirect one.
SingleEnd == Direct + Words
max_file_size == (SingleEnd + Words * Words) * Words
Blocks == 0 .. NumBlocks - 1

Data(f, k) == [kind |-> "data", file |-> f, at |-> k]
Pointer(b) == [kind |-> "pointer", block |-> b]
Zero == [kind |-> "zero"]
ZeroBlock == [i \in 0 .. Words - 1 |-> Zero]

VARIABLES
    disk,           \* inodes, blocks, the map and its counter
    position,       \* of each file: where its descriptor is, or Closed
    orderly,        \* history: the file has had appends only, none from a block's edge
    removed,        \* history: the largest block_number of a removed file
    reused          \* history: an inode is used again, with its old pointers

vars == <<disk, position, orderly, removed, reused>>

Init ==
    /\ disk = [inode |-> [f \in Files |->
                   [operation |-> FALSE, size |-> 0, block_number |-> 0,
                    last_block_offset |-> 0,
                    location |-> [i \in 0 .. Direct + 1 |-> NULL]]],
               space |-> [b \in Blocks |-> ZeroBlock],
               index |-> {}, freeBlock_number |-> NumBlocks, fault |-> ""]
    /\ position = [f \in Files |-> Closed]
    /\ orderly = [f \in Files |-> TRUE]
    /\ removed = -1
    /\ reused = FALSE

\* The kernel follows a pointer that leads nowhere.
Fault(d, why) == [d EXCEPT !.fault = why]

-----------------------------------------------------------------------------
(* From a block number of a file to a block.                               *)

\* The block that word i of index block b points to.
Follow(d, b, i) ==
    IF b \notin Blocks \/ i \notin 0 .. Words - 1 THEN WILD
    ELSE LET w == d.space[b][i]
         IN  IF w.kind = "pointer" THEN w.block
             ELSE IF w.kind = "zero" THEN NULL ELSE WILD

\* switchAddress, for the start of block bn: NULL, WILD or a block.
SwitchAddress(d, f, bn) ==
    LET location == d.inode[f].location
        k == bn - SingleEnd
        top == location[Direct + 1]
    IN  IF bn < Direct THEN location[bn]
        ELSE IF bn < SingleEnd
             THEN IF location[Direct] = NULL THEN NULL
                  ELSE Follow(d, location[Direct], bn - Direct)
        ELSE IF top = NULL THEN NULL
        ELSE Follow(d, Follow(d, top, k \div Words), k % Words)

\* get_blockpointer is the same search once more.  An unused direct pointer, or
\* index block, is NULL wherever in the block the position is; an unused word
\* of an index block is NULL plus the offset.
GetBlockpointer(d, f, pos) ==
    LET bn == pos \div Words
        b == SwitchAddress(d, f, bn)
        index == d.inode[f].location[IF bn < SingleEnd THEN Direct ELSE Direct + 1]
    IN  IF b = NULL /\ bn >= Direct /\ index # NULL /\ pos % Words # 0 THEN WILD ELSE b

-----------------------------------------------------------------------------
(* allocate_block.                                                         *)

\* Assumed of allocate_bitmap: first_freeBlock is the lowest free block, or
\* with none left Largest, behind the disk.
FreeBlocks(d) == Blocks \ d.index
NewBlock(d) == IF FreeBlocks(d) = {} THEN WILD ELSE Min(FreeBlocks(d))

\* The block first_freeBlock names is in use and the counter is one less.
Taken(d) == [d EXCEPT !.index = @ \cup ({NewBlock(d)} \ {WILD}),
                      !.freeBlock_number = (@ - 1) % (Largest + 1)]

\* The word i of index block b becomes a pointer to block c.
Enter(d, b, i, c) ==
    IF b \notin Blocks \/ c \notin Blocks \/ i \notin 0 .. Words - 1
    THEN Fault(d, "index") ELSE [d EXCEPT !.space[b][i] = Pointer(c)]

\* Mutant: the index blocks themselves are not counted.
Enough_one(d, bn) == d.freeBlock_number >= 1

\* The tests before anything is taken: 2 blocks with the first single-indirect
\* pointer, 3 with the first double-indirect one.
Enough(d, bn) ==
    /\ d.freeBlock_number >= 1
    /\ bn = Direct => d.freeBlock_number >= 2
    /\ bn = SingleEnd => d.freeBlock_number >= 3

\* Mutant: counted from the block behind the one that came with the index block.
SlotOf_after(bn) == bn - Direct - 1

\* The word of the single-indirect block that points to block bn.
SlotOf(bn) == bn - Direct

\* The last block of the file has number n.
Numbered(d, f, n) == [d EXCEPT !.inode[f].block_number = n, !.inode[f].last_block_offset = 0]

\* Pointer i of the inode becomes block a.
Located(d, f, i, a) == [d EXCEPT !.inode[f].location[i] = a]

\* One block for the content of block bn, behind the index blocks it needs.
UnderSingle(d, f, bn) ==
    LET a == NewBlock(d)
        d1 == Taken(d)
        b == NewBlock(d1)
    IN  IF d.inode[f].location[Direct] = NULL
        THEN [disk |-> Enter(Located(Taken(d1), f, Direct, a), a, 0, b), block |-> b]
        ELSE [disk |-> Enter(d1, d.inode[f].location[Direct], SlotOf(bn), a), block |-> a]

UnderDouble(d, f, bn) ==
    LET k == bn - SingleEnd
        top == d.inode[f].location[Direct + 1]
        row == Follow(d, top, k \div Words)
        a == NewBlock(d)
        d1 == Taken(d)
        b == NewBlock(d1)
        d2 == Taken(d1)
        c == NewBlock(d2)
    IN  IF top = NULL
        THEN [disk |-> Enter(Enter(Located(Taken(d2), f, Direct + 1, a), a, 0, b), b, 0, c),
              block |-> c]
        ELSE IF row = NULL
        THEN [disk |-> Enter(Enter(d2, top, k \div Words, a), a, 0, b), block |-> b]
        ELSE [disk |-> Enter(d1, row, k % Words, a), block |-> a]

\* The new block is number block_number + 1 of the file, whatever the file has.
AllocateBlock(d, f) ==
    LET bn == d.inode[f].block_number + 1
        e == Numbered(d, f, bn)
    IN  IF bn > max_file_size \div Words \/ ~Enough(d, bn)
        THEN [disk |-> d, block |-> NULL]
        ELSE IF bn < Direct
        THEN [disk |-> Located(Taken(e), f, bn, NewBlock(d)), block |-> NewBlock(d)]
        ELSE IF bn < SingleEnd THEN UnderSingle(e, f, bn)
        ELSE UnderDouble(e, f, bn)

-----------------------------------------------------------------------------
(* write_file and rd_read.                                                 *)

\* One word: behind the last word of a block allocate_block gives the next.
PutWord(w, word) ==
    LET full == w.offset = Words
        new == IF full THEN AllocateBlock(w.disk, w.file)
                       ELSE [disk |-> w.disk, block |-> w.block]
        at == IF full THEN 0 ELSE w.offset
    IN  IF w.stopped \/ w.disk.fault # "" THEN w
        ELSE IF full /\ new.block = NULL THEN [w EXCEPT !.stopped = TRUE]
        ELSE IF new.block \notin Blocks
        THEN [w EXCEPT !.disk = Fault(new.disk, "write")]
        ELSE [w EXCEPT !.disk = IF new.disk.fault # "" THEN new.disk
                                ELSE [new.disk EXCEPT !.space[new.block][at] = word],
                       !.block = new.block, !.offset = at + 1, !.done = @ + 1]

PutWords(w, words) == FoldLeft(PutWord, w, words)

\* Mutant: counted in words.
BlockNumberAfter_words(size) == size
BlockNumberAfter(size) == size \div Words

\* The index block above block bn, if there is one, is there.
Indexed(d, f, bn) ==
    \/ bn < Direct
    \/ bn < SingleEnd /\ d.inode[f].location[Direct] # NULL
    \/ bn >= SingleEnd /\ d.inode[f].location[Direct + 1] # NULL

\* Where a write at pos begins: the block that is there, or the one
\* allocate_block gives.  NULL plus an offset is not NULL.
WriteStart(d, f, pos) ==
    LET b == SwitchAddress(d, f, pos \div Words)
        offset == pos % Words
        here == IF b = NULL /\ Indexed(d, f, pos \div Words) /\ offset # 0 THEN WILD ELSE b
    IN  IF here = NULL THEN AllocateBlock(d, f) ELSE [disk |-> d, block |-> here]

\* What write_file leaves in the inode.
Sized(d, f, size) == [d EXCEPT !.inode[f].size = size,
                               !.inode[f].block_number = BlockNumberAfter(size),
                               !.inode[f].last_block_offset = size % Words]

WriteFile(d, f, pos, words) ==
    LET first == IF d.inode[f].location[0] = NULL
                 THEN AllocateBlock(d, f)
                 ELSE [disk |-> d, block |-> d.inode[f].location[0]]
        start == WriteStart(first.disk, f, pos)
        end == PutWords([disk |-> start.disk, file |-> f, block |-> start.block,
                         offset |-> pos % Words, done |-> 0, stopped |-> FALSE],
                        words)
    IN  IF first.block = NULL THEN [disk |-> d, ret |-> -1]
        ELSE IF end.disk.fault # "" THEN [disk |-> end.disk, ret |-> -1]
        ELSE [disk |-> Sized(end.disk, f, end.disk.inode[f].size + end.done), ret |-> end.done]

\* rd_read: the words from pos on, "ERROR" for a block that is not there,
\* "fault" for an address outside the disk.  Blocks are looked up at pos and at
\* the start of each block after it.
ReadFile(d, f, at, num) ==
    LET inode == d.inode[f]
        pos == IF at >= inode.size THEN 0 ELSE at
        len == Min({inode.size - pos, num})
        looked == {k \in pos .. pos + len - 1 : k = pos \/ k % Words = 0}
        lost == {k \in looked : GetBlockpointer(d, f, k) \notin Blocks}
        word(k) == d.space[GetBlockpointer(d, f, k)][k % Words]
    IN  IF inode.size = 0 \/ inode.location[0] = NULL THEN [ret |-> "ERROR", output |-> <<>>]
        ELSE IF lost # {}
        THEN [ret |-> IF GetBlockpointer(d, f, Min(lost)) = NULL THEN "ERROR" ELSE "fault",
              output |-> <<>>]
        ELSE [ret |-> "read", output |-> [i \in 1 .. len |-> word(pos + i - 1)]]

-----------------------------------------------------------------------------
(* free_block.                                                             *)

\* The block is filled with zeros, then given back; assumed of free_bitmap: its
\* bit, and no other, is cleared.
GiveBack(d, b) ==
    IF b \notin Blocks THEN Fault(d, "free")
    ELSE [d EXCEPT !.space[b] = ZeroBlock, !.index = @ \ {b}, !.freeBlock_number = @ + 1]

\* A turn of a loop over an array of pointers, at pointer b: it ends at the first
\* NULL, and reads each pointer when it comes to it.
FreeNext(w, b) ==
    IF w.end \/ w.disk.fault # "" THEN w
    ELSE IF b = NULL THEN [w EXCEPT !.end = TRUE]
    ELSE [w EXCEPT !.disk = GiveBack(w.disk, b)]

Loop(d) == [disk |-> d, end |-> FALSE]
UpTo(last) == [i \in 1 .. last + 1 |-> i - 1]

FreePointers(d, b) ==
    FoldLeft(LAMBDA w, i : FreeNext(w, Follow(w.disk, b, i)), Loop(d), UpTo(Words - 1))

FreeRow(d, b) == IF b \notin Blocks THEN Fault(d, "free") ELSE FreePointers(d, b).disk

\* Mutant: the last direct block is left out.
LastDirect_less == Direct - 2

\* i <= 8: the single-indirect block goes with the direct ones.
LastDirect == Direct

FreeLocations(d, location) ==
    FoldLeft(LAMBDA w, i : FreeNext(w, location[i]), Loop(d), UpTo(LastDirect))

\* A turn of the loop over the rows, at pointer b.
FreeRowNext(w, b) ==
    IF w.end \/ w.disk.fault # "" THEN w
    ELSE IF b = NULL THEN [w EXCEPT !.end = TRUE]
    ELSE [w EXCEPT !.disk = FreeRow(w.disk, b)]

\* The block of double-indirect pointers, and those below it, are not given back.
FreeRows(d, top) ==
    FoldLeft(LAMBDA w, i : FreeRowNext(w, Follow(w.disk, top, i)), Loop(d), UpTo(Words - 1))

FreeBlock(d, f) ==
    LET inode == d.inode[f]
        top == inode.location[Direct + 1]
        d1 == FreeLocations(d, inode.location).disk
        d2 == FreeRow(d1, inode.location[Direct])
    IN  IF inode.block_number < 0 THEN d
        ELSE IF inode.block_number < Direct THEN d1
        ELSE IF inode.block_number < SingleEnd \/ d2.fault # "" THEN d2
        ELSE IF top \notin Blocks THEN Fault(d2, "free")
        ELSE FreeRows(d2, top).disk

-----------------------------------------------------------------------------
(* Calls.                                                                  *)

\* The system is followed until then.
Running == disk.fault = "" /\ ~reused /\ \A f \in Files : orderly[f]

\* allocate_inode; location[] is kept.
Create(f) ==
    /\ Running /\ ~disk.inode[f].operation
    /\ disk' = [disk EXCEPT !.inode[f] = [@ EXCEPT !.operation = TRUE, !.size = 0,
                                                  !.block_number = -1,
                                                  !.last_block_offset = 0]]
    /\ reused' = \E i \in 0 .. Direct + 1 : disk.inode[f].location[i] # NULL
    /\ UNCHANGED <<position, orderly, removed>>

Open(f) ==
    /\ Running /\ disk.inode[f].operation /\ position[f] = Closed
    /\ position' = [position EXCEPT ![f] = 0]
    /\ UNCHANGED <<disk, orderly, removed, reused>>

Close(f) ==
    /\ Running /\ position[f] # Closed
    /\ position' = [position EXCEPT ![f] = Closed]
    /\ UNCHANGED <<disk, orderly, removed, reused>>

\* rd_write of n words.
Write(f, n) ==
    LET pos == position[f]
        w == WriteFile(disk, f, pos, [i \in 1 .. n |-> Data(f, pos + i - 1)])
    IN
    /\ Running /\ pos # Closed
    /\ disk.inode[f].size < MaxSize
    /\ disk' = w.disk
    /\ position' = [position EXCEPT ![f] = IF w.ret = -1 THEN @ ELSE @ + w.ret]
    /\ orderly' = [orderly EXCEPT ![f] = @ /\ pos = disk.inode[f].size
                                           /\ (pos % Words = 0 => pos = 0)]
    /\ UNCHANGED <<removed, reused>>

Lseek(f, pos) ==
    /\ Running /\ position[f] # Closed
    /\ position' = [position EXCEPT ![f] = Min({pos, disk.inode[f].size})]
    /\ UNCHANGED <<disk, orderly, removed, reused>>

\* free_inode of a file nobody has open.
Unlink(f) ==
    LET d == FreeBlock(disk, f) IN
    /\ Running /\ disk.inode[f].operation /\ position[f] = Closed
    /\ disk' = [d EXCEPT !.inode[f] = [@ EXCEPT !.operation = FALSE, !.size = 0,
                                                !.block_number = 0,
                                                !.last_block_offset = 0]]
    /\ removed' = Max({removed, disk.inode[f].block_number})
    /\ UNCHANGED <<position, orderly, reused>>

Next == \E f \in Files :
    \/ Create(f) \/ Open(f) \/ Close(f) \/ Unlink(f)
    \/ \E n \in WriteSizes : Write(f, n)
    \/ \E pos \in {0, max_file_size} : Lseek(f, pos)

Spec == Init /\ [][Next]_vars

-----------------------------------------------------------------------------

Live == {f \in Files : disk.inode[f].operation}

\* The blocks a file reaches, index blocks included.
Tree(f) ==
    LET location == disk.inode[f].location
        below(B) == {Follow(disk, b, i) : b \in B \cap Blocks, i \in 0 .. Words - 1}
        rows == below({location[Direct + 1]})
    IN  ({location[i] : i \in 0 .. Direct + 1} \cup below({location[Direct]})
            \cup rows \cup below(rows)) \cap Blocks

TypeOK == disk.fault = "" =>
    /\ disk.freeBlock_number \in 0 .. NumBlocks /\ disk.index \subseteq Blocks
    /\ \A f \in Files :
         /\ disk.inode[f].size \in Nat
         /\ disk.inode[f].block_number \in -1 .. disk.inode[f].size \div Words
         /\ disk.inode[f].last_block_offset \in 0 .. Words - 1
         /\ position[f] \in {Closed} \cup 0 .. max_file_size
         /\ \A i \in 0 .. Direct + 1 : disk.inode[f].location[i] \in Blocks \cup {NULL}

\* A file that only grows at its end, with no write that starts at the edge of
\* a block, reads back what was written, through every level of its pointers
\* and whatever became of other files: the place allocate_block enters a block
\* in is the place get_blockpointer looks for it (support_function.h:429, 581;
\* module_interface.h:265).
ReadsBack == disk.fault = "" /\ ~reused =>
    \A f \in Live : orderly[f] /\ disk.inode[f].size > 0 =>
        ReadFile(disk, f, 0, disk.inode[f].size).output
            = [i \in 1 .. disk.inode[f].size |-> Data(f, i - 1)]

\* "release the all of the block of the file or folder" (support_function.h:44):
\* the map and its counter agree with the files, and as long as no removed file
\* went beyond its direct blocks nothing else stays in use.  (Of a larger one
\* free_block zeroes the single-indirect block before it reads it, and never
\* gives back the index blocks of the double-indirect part.)
MapAgrees == Running =>
    LET used == UNION {Tree(f) : f \in Live}
    IN  /\ disk.freeBlock_number = Cardinality(Blocks \ disk.index)
        /\ used \subseteq disk.index
        /\ removed < Direct => used = disk.index

\* Where the kernel comes to a wild pointer: only in a file written out of
\* order, in the removal of a file that exactly fills its direct or its
\* single-indirect blocks, one block behind the largest file, and where a later
\* row of the double-indirect part takes two blocks of which only one was
\* counted (support_function.h:597-607, 690, 837, 847).
FaultsAtEdges == [][disk'.fault # "" => \E f \in Files :
    LET old == disk.inode[f]
        new == disk'.inode[f]
        row == new.block_number - SingleEnd
    IN  \/ ~orderly'[f]
        \/ old.operation /\ ~new.operation /\ old.size \in {Direct * Words, SingleEnd * Words}
        \/ new.block_number * Words = max_file_size
        \/ row > 0 /\ row % Words = 0 /\ disk'.freeBlock_number = Largest]_vars
=============================================================================
