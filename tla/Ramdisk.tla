------------------------------ MODULE Ramdisk ------------------------------
(***************************************************************************)
(* Processes that use the RAM disk: module_interface.h.                     *)
(*                                                                         *)
(* Every call is an ioctl that holds the big kernel lock, so a call is one  *)
(* step, except where vmalloc may sleep: the lock is released there and the *)
(* call of another process can run.  create and the opening of a file sleep *)
(* between looking a name up and using what was found; each is two steps.   *)
(* A call that returns ERROR changes nothing and is not a step.             *)
(*                                                                         *)
(* Each process has its table of open files from the start, as it has after *)
(* a first call: how get_FDT builds a table is in RamdiskTables.            *)
(* The system is followed for as long as the disk is InGoodOrder.           *)
(***************************************************************************)
EXTENDS RamdiskDisk
LOCAL INSTANCE FiniteSetsExt
LOCAL INSTANCE SequencesExt

CONSTANTS
    Procs,
    First,          \* the process whose table is FDT_list_head
    Paths,          \* the pathnames that programs use
    FileNames,      \* the names under which they make files
    DirNames,       \* and directories
    Modes, Flags,   \* the modes programs give a file, the flags they open it with
    MaxObjects,     \* bound: open files of a process
    MaxWrite,       \* bound: cells in one write
    MaxPath,        \* bound: names in a current path
    MaxFreeBlocks   \* bound: what unlinks may raise freeBlock_number to

ASSUME CallsAssumption ==
    /\ First \in Procs
    /\ Modes \subseteq Nat /\ Flags \subseteq 0 .. 2
    /\ MaxObjects \in Nat \ {0}
    /\ MaxWrite \in 1 .. Cells
    /\ MaxPath \in Nat \ {0} /\ MaxFreeBlocks \in Nat
    /\ \A path \in Paths : /\ path.up \in Nat /\ path.abs \in BOOLEAN
                           /\ path.abs => path.up = 0
                           /\ path.dirs \in Seq(Names) /\ path.leaf \in Names

VARIABLES
    disk,           \* superblock, inodes, bitmap, blocks
    fdt,            \* of each process: its objects and its current path
    pc,             \* of each process: "idle", or where its call sleeps
    call,           \* of each process: what its sleeping call has found out
    written         \* history: what was last written to each cell of a file

vars == <<disk, fdt, pc, call, written>>

NoCall == [inode |-> NULL]
Unwritten == [kind |-> "zero"]
Object(n) == [inode_index |-> n, position |-> 0]

Init ==
    /\ disk = InitDisk
    /\ fdt = [p \in Procs |-> [objects |-> <<Object(Root)>>, cur_path |-> <<"">>]]
    /\ pc = [p \in Procs |-> "idle"]
    /\ call = [p \in Procs |-> NoCall]
    /\ written = [n \in Inodes |-> [k \in 0 .. Cells - 1 |-> Unwritten]]

-----------------------------------------------------------------------------
(* Pathnames: `up' times "../", then "/" if abs, then directories, a leaf. *)

\* The number of "/" in a current path; the root's, "/", has one as well.
layer_check(cur_path) == Len(cur_path)

\* read_pathname: the directory a path starts from.  Too many "../" give
\* ERROR, which the callers take for an inode: the one before the table.
StartOf(path, p) ==
    LET parent(n, i) == IF n \in Inodes THEN disk.inode[n].parent_index ELSE WILD
    IN  IF path.up > layer_check(fdt[p].cur_path) THEN ERROR
        ELSE IF path.abs THEN Root
        ELSE FoldLeft(parent, fdt[p].objects[1].inode_index, [i \in 1 .. path.up |-> i])

MISSING == -3

\* The directory that is to hold the leaf, MISSING, or an index past the table.
Walk(path, p) ==
    LET child(n, name) ==
            IF n \notin Inodes THEN n
            ELSE LET m == IsExist(disk, name, n) IN IF m = ERROR THEN MISSING ELSE m
    IN  FoldLeft(child, StartOf(path, p), path.dirs)

Found(path, p) == IF Walk(path, p) \in Inodes
                  THEN IsExist(disk, path.leaf, Walk(path, p)) ELSE ERROR

\* The part of rd_open that builds the new cur_path.  (Where cur_path has fewer names than
\* the "../" that went up, the code searches in front of its buffer; here nothing is kept.)
PathAfter(path, p) ==
    LET old == IF fdt[p].cur_path = <<"">> THEN <<>> ELSE fdt[p].cur_path
        kept == IF path.abs THEN <<>> ELSE SubSeq(old, 1, Len(old) - path.up)
    IN  kept \o path.dirs \o <<path.leaf>>

\* Mutant: only the current directory counts as open.
IsOpen_cwd(n) == fdt[First].objects[1].inode_index = n

\* The objects of the first table only, whoever asks.
IsOpen(n) == \E i \in DOMAIN fdt[First].objects : fdt[First].objects[i].inode_index = n

-----------------------------------------------------------------------------
(* Calls.                                                                  *)

ReadOnly == 0
ReadWrite == 1
WriteOnly == 2

\* The user library turns the mode bits of rw-r--r-- and r--r--r--, and the flags of
\* open, into the three rights of the module.
mode_to_permission(mode) ==
    CASE mode = 292 -> ReadOnly [] mode = 420 -> ReadWrite [] OTHER -> WriteOnly

flag_to_permission(flag) ==
    CASE flag = 2 -> ReadWrite [] flag = 0 -> ReadOnly [] OTHER -> WriteOnly

\* The descriptors of p that lead to an object.
Descriptors(p) == 1 .. Len(fdt[p].objects) - 1

\* A path that leads past the inode table is followed there, by every call.
Stray(p, path) ==
    /\ pc[p] = "idle"
    /\ Walk(path, p) \notin Inodes \cup {MISSING}
    /\ disk' = Fault(disk)
    /\ UNCHANGED <<fdt, pc, call, written>>

NameTaken(name, dir) == IsExist(disk, name, dir) # ERROR

\* create, up to its vmalloc.
CreateLookup(p, path, mode, type) ==
    LET dir == Walk(path, p) IN
    /\ pc[p] = "idle"
    /\ disk.freeBlock_number >= 1 /\ disk.freeInode_number >= 1
    /\ dir \in Inodes
    /\ path.leaf \in (IF type = "dir" THEN DirNames ELSE FileNames) \ LongNames
    /\ ~NameTaken(path.leaf, dir)
    /\ pc' = [pc EXCEPT ![p] = "create"]
    /\ call' = [call EXCEPT ![p] = [inode |-> dir, name |-> path.leaf,
                                    mode |-> mode, type |-> type]]
    /\ UNCHANGED <<disk, fdt, written>>

\* The rest of it: the entry goes to the directory found before the sleep.
CreateFinish(p) ==
    LET c == call[p]
        n == disk.first_freeInode
        w == WriteFile(disk, c.inode, disk.inode[c.inode].size, <<Entry(c.name, n)>>)
    IN
    /\ pc[p] = "create"
    /\ disk' = IF w.ret = ERROR THEN w.disk ELSE AllocateInode(w.disk, c.inode, c.mode, c.type)
    /\ written' = IF w.ret = ERROR \/ n \notin Table THEN written
                  ELSE [written EXCEPT ![n] = [k \in 0 .. Cells - 1 |-> Unwritten]]
    /\ pc' = [pc EXCEPT ![p] = "idle"]
    /\ call' = [call EXCEPT ![p] = NoCall]
    /\ UNCHANGED fdt

\* rd_open, up to its first vmalloc if the file is a regular one.
MayOpen(n, flag) ==
    /\ ~IsOpen(n)
    /\ ~(disk.inode[n].mode = ReadOnly /\ flag \in {ReadWrite, WriteOnly})
    /\ ~(disk.inode[n].mode = WriteOnly /\ flag \in {ReadOnly, ReadWrite})

\* A directory becomes the first object, and the only one.
OpenDirectory(p, path, flag) ==
    LET n == Found(path, p) IN
    /\ pc[p] = "idle" /\ n # ERROR /\ MayOpen(n, flag)
    /\ Len(PathAfter(path, p)) <= MaxPath
    /\ disk.inode[n].type = "dir"
    /\ fdt' = [fdt EXCEPT ![p] = [objects |-> <<Object(n)>>, cur_path |-> PathAfter(path, p)]]
    /\ UNCHANGED <<disk, pc, call, written>>

OpenLookup(p, path, flag) ==
    LET n == Found(path, p) IN
    /\ pc[p] = "idle" /\ n # ERROR /\ MayOpen(n, flag)
    /\ Len(PathAfter(path, p)) <= MaxPath
    /\ disk.inode[n].type # "dir"
    /\ Len(fdt[p].objects) < MaxObjects
    /\ pc' = [pc EXCEPT ![p] = "open"]
    /\ call' = [call EXCEPT ![p] = [inode |-> n, path |-> PathAfter(path, p)]]
    /\ UNCHANGED <<disk, fdt, written>>

OpenFinish(p) ==
    /\ pc[p] = "open"
    /\ fdt' = [fdt EXCEPT ![p] = [objects |-> Append(@.objects, Object(call[p].inode)),
                                  cur_path |-> call[p].path]]
    /\ pc' = [pc EXCEPT ![p] = "idle"]
    /\ call' = [call EXCEPT ![p] = NoCall]
    /\ UNCHANGED <<disk, written>>

\* rd_close(0): back to the parent; the last name of cur_path goes, its "/" stays.
CloseDirectory(p) ==
    LET cwd == fdt[p].objects[1].inode_index
        last == Len(fdt[p].cur_path)
    IN
    /\ pc[p] = "idle" /\ cwd # Root
    /\ fdt' = [fdt EXCEPT ![p].objects[1] = Object(disk.inode[cwd].parent_index),
                          ![p].cur_path[last] = ""]
    /\ UNCHANGED <<disk, pc, call, written>>

\* rd_close(fd).  What is behind the last object, or before the first, is followed as well.
CloseFile(p, fd) ==
    /\ pc[p] = "idle"
    /\ \/ /\ fd < 0 \/ fd = Len(fdt[p].objects)
          /\ disk' = Fault(disk)
          /\ UNCHANGED fdt
       \/ /\ fd \in Descriptors(p)
          /\ fdt' = [fdt EXCEPT ![p].objects = RemoveAt(@, fd + 1)]
          /\ UNCHANGED disk
    /\ UNCHANGED <<pc, call, written>>

\* rd_write of n cells of v.
Write(p, fd, n, v) ==
    LET o == fdt[p].objects[fd + 1]
        w == WriteFile(disk, o.inode_index, o.position, [i \in 1 .. n |-> Content(v)])
    IN
    /\ pc[p] = "idle"
    /\ fd \in Descriptors(p)
    /\ disk.inode[o.inode_index].type # "dir"
    /\ disk' = w.disk
    /\ w.ret # ERROR =>
         /\ fdt' = [fdt EXCEPT ![p].objects[fd + 1].position = @ + w.ret]
         /\ written' = [written EXCEPT ![o.inode_index] =
                          [k \in 0 .. Cells - 1 |->
                              IF k \in o.position .. o.position + w.ret - 1
                              THEN Content(v) ELSE @[k]]]
    /\ w.ret = ERROR => UNCHANGED <<fdt, written>>
    /\ UNCHANGED <<pc, call>>

\* rd_lseek, to a position in the file or behind it.
Lseek(p, fd, pos) ==
    LET n == fdt[p].objects[fd + 1].inode_index IN
    /\ pc[p] = "idle"
    /\ fd \in Descriptors(p)
    /\ fdt' = [fdt EXCEPT ![p].objects[fd + 1].position = Min({pos, disk.inode[n].size})]
    /\ UNCHANGED <<disk, pc, call, written>>

\* rd_unlink.
Unlink(p, path) ==
    LET n == Found(path, p) IN
    /\ pc[p] = "idle" /\ n # ERROR
    /\ ~(disk.inode[n].type = "dir" /\ disk.inode[n].size > 0)
    /\ ~IsOpen(n)
    /\ disk.freeBlock_number < MaxFreeBlocks
    /\ disk' = FreeInode(disk, path.leaf, n)
    /\ UNCHANGED <<fdt, pc, call, written>>

\* rd_chmod.
Chmod(p, path, mode) ==
    LET n == Found(path, p) IN
    /\ pc[p] = "idle" /\ n # ERROR
    /\ disk' = [disk EXCEPT !.inode[n].mode = mode]
    /\ UNCHANGED <<fdt, pc, call, written>>

-----------------------------------------------------------------------------

\* No block belongs to two files, none is full, no wild pointer was followed.
\* Past that every file of more than a block, and every second file, is in
\* the block of the root directory.
InGoodOrder(d) ==
    LET used(n) == {d.inode[n].location[i] : i \in 0 .. Direct - 1} \ {NULL}
    IN  /\ ~d.fault
        /\ \A n \in Inodes : d.inode[n].size < Cells
        /\ \A m, n \in Inodes : m # n => used(m) \cap used(n) = {}

\* No descriptor, and no current directory, is of a file that is gone.
NoneDangling ==
    \A p \in Procs : \A i \in DOMAIN fdt[p].objects :
        disk.inode[fdt[p].objects[i].inode_index].operation

Followed == InGoodOrder(disk) /\ NoneDangling

Call(p) ==
    \/ \E path \in Paths :
          \/ Stray(p, path)
          \/ \E mode \in Modes : CreateLookup(p, path, mode_to_permission(mode), "reg")
          \/ CreateLookup(p, path, 1, "dir")
          \/ \E flag \in {flag_to_permission(f) : f \in Flags} :
                OpenDirectory(p, path, flag) \/ OpenLookup(p, path, flag)
          \/ Unlink(p, path)
          \/ \E mode \in Modes : Chmod(p, path, mode_to_permission(mode))
    \/ CloseDirectory(p)
    \/ \E fd \in {ERROR} \cup 1 .. MaxObjects : CloseFile(p, fd)
    \/ \E fd \in 1 .. MaxObjects :
          \/ \E n \in 1 .. MaxWrite, v \in Data : Write(p, fd, n, v)
          \/ \E pos \in 0 .. Cells - 1 : Lseek(p, fd, pos)

Next ==
    /\ Followed
    /\ \E p \in Procs : Call(p) \/ CreateFinish(p) \/ OpenFinish(p)

Spec == Init /\ [][Next]_vars

-----------------------------------------------------------------------------
(* Properties.  Each is claimed for a disk in good order.                  *)

Live == {n \in Table : disk.inode[n].operation}
Directories == {n \in Live : disk.inode[n].type = "dir"}
EntriesOf(n) == {i \in DOMAIN CellsOf(disk, n) : CellsOf(disk, n)[i].kind = "entry"}
EntryAt(n, i) == CellsOf(disk, n)[i]

TypeOK ==
    /\ disk.freeInode_number \in 0 .. 65535
    /\ disk.first_freeInode \in 0 .. NumInodes
    /\ \A n \in Inodes : /\ disk.inode[n].type \in {"dir", "reg", "nul"}
                         /\ \A i \in 0 .. Direct - 1 : disk.inode[n].location[i] \in Blocks \cup {NULL}
    /\ \A p \in Procs : /\ pc[p] \in {"idle", "create", "open"}
                        /\ Len(fdt[p].objects) \in 1 .. MaxObjects
                        /\ Len(fdt[p].cur_path) >= 1

\* The counter of create's check (module_interface.h:33) and the index
\* allocate_inode takes agree with the table, whatever calls slept meanwhile:
\* no inode is lost, none is given out twice.
InodesAccounted == Followed =>
    LET free == Table \ Live
    IN  /\ disk.freeInode_number = Cardinality(free)
        /\ disk.first_freeInode = Min(free \cup {NumInodes})

\* What directories say exists: an entry of a directory names an inode in
\* use, and no two entries name the same one (create, free_inode).
EntriesLive == Followed =>
    \A m, n \in Directories : \A i \in EntriesOf(m), j \in EntriesOf(n) :
        /\ EntryAt(m, i).inode_index \in Live
        /\ EntryAt(m, i).inode_index = EntryAt(n, j).inode_index => m = n /\ i = j

\* The files form a tree: every inode in use but the root has its entry in the directory it
\* names as its parent (create, free_parent_directory_entry).  For one process: another may
\* remove the directory that create has found (module_interface.h:64).
TreeConsistent == Followed =>
    \A n \in Live \ {Root} :
        LET dir == disk.inode[n].parent_index
        IN  /\ dir \in Directories
            /\ \E i \in EntriesOf(dir) : EntryAt(dir, i).inode_index = n

\* "we don't allow same name file if even they are different type"
\* (module_interface.h:13): names are unique in a directory.
NamesUnique == Followed =>
    \A n \in Directories : \A i, j \in EntriesOf(n) :
        EntryAt(n, i).filename = EntryAt(n, j).filename => i = j

\* "if you attempt to unlink an open file" (module_interface.h:446) is an
\* error: an open descriptor is of a file that still exists.
DescriptorsLive == InGoodOrder(disk) => NoneDangling

\* What rd_write put at a position of a file is what rd_read finds there,
\* whoever made, removed or wrote other files since (module_interface.h:265,
\* support_function.h:469).
ContentKept == Followed =>
    \A n \in Live : disk.inode[n].type = "reg" =>
        \A k \in 0 .. Cells - 1 : written[n][k] # Unwritten =>
            k < disk.inode[n].size /\ ReadFile(disk, n, k, 1) = <<written[n][k]>>

\* "get the next free bit, next free block" (support_function.h:562): a block
\* that is handed out is nobody else's.
BlocksSeparate ==
    \A m, n \in Inodes : m # n =>
        \A i, j \in 0 .. Direct - 1 :
            disk.inode[m].location[i] # NULL =>
                disk.inode[m].location[i] # disk.inode[n].location[j]
=============================================================================
