---------------------------- MODULE RamdiskTables ----------------------------
(***************************************************************************)
(* The tables of open files of the RAM disk: get_FDT, which finds the table *)
(* of the process that calls, or builds it, and free_FDT; the loading and   *)
(* the unloading of the module around them.                                 *)
(*                                                                         *)
(* A call holds the big kernel lock but for its vmallocs, which may sleep,  *)
(* so a step is what happens between two of them.  What create_FDT builds   *)
(* is its own until it returns, and is one step.  Processes fork and exit;  *)
(* a table outlives its process, and pids come back.  A call that only      *)
(* looks at its table, as rd_pwd, is no step once there is one; others open *)
(* files of the root folder by their absolute names and close them (folders *)
(* are entered in Ramdisk).                                                 *)
(*                                                                         *)
(* vmalloc does not fail here, and does not clear what it gives: a field    *)
(* not yet filled in is Garbage.                                            *)
(***************************************************************************)
EXTENDS Integers, Sequences, FiniteSets, FiniteSetsExt, SequencesExt

CONSTANTS
    Procs,          \* pids
    Files,          \* inodes of the files that programs open
    MaxTables,      \* bound: tables ever built
    MaxObjects      \* bound: open files of a process, and objects a copy goes on after

ASSUME TablesAssumption ==
    /\ MaxTables \in Nat /\ MaxObjects \in Nat
    /\ {-3, -2, -1, 0} \cap (Procs \cup Files) = {}

NULL == 0
Garbage == -1       \* a field that nobody has filled in
Freed == -2
Junk == -3          \* an inode number copied from such a field
ERROR == -1         \* what rd_open returns for a file it does not open
Init_pid == 0       \* who adopts the children of the dead; it makes no call
Root == 0           \* the root folder; a path is named by the inode it leads to

Tables == 1 .. MaxTables

VARIABLES
    FDT_list_head,
    FDT,            \* of each address: "none", "freed", or a table
    alive, parent,  \* the processes
    pc,             \* of each process: "user", or where its call sleeps
    call,           \* of each process: the variables of its call
    module,         \* "new", has an "entry" in proc, "loaded", "freed" the
                    \* tables, "removed"
    fault,          \* the kernel has used a pointer that leads nowhere
    alone,          \* history: tables built while nobody else was building
    calm            \* history, of each builder: nobody changed the source

vars == <<FDT_list_head, FDT, alive, parent, pc, call, module, fault, alone, calm>>

NoTable == [state |-> "none"]
FreedTable == [state |-> "freed"]
NoCall == [last |-> NULL]

Init ==
    /\ FDT_list_head = NULL /\ FDT = [t \in Tables |-> NoTable]
    /\ alive = {} /\ parent = [p \in Procs |-> Init_pid]
    /\ pc = [p \in Procs |-> "user"] /\ call = [p \in Procs |-> NoCall]
    /\ module = "new" /\ fault = FALSE
    /\ alone = {} /\ calm = [p \in Procs |-> TRUE]

\* Whether there is an entry to call, and tables that are to stay.
Callable == module \in {"entry", "loaded", "freed"}
Serving == module \in {"entry", "loaded"}

Used(t) == t \in Tables /\ FDT[t].state = "used"

-----------------------------------------------------------------------------
(* The list.                                                               *)

\* What the walk comes to after k tables: a table, NULL, or nowhere.
At == LET at[k \in 0 .. MaxTables] ==
            IF k = 0 THEN FDT_list_head
            ELSE IF Used(at[k - 1]) THEN FDT[at[k - 1]].next ELSE at[k - 1]
      IN  at

Listed == {At[k] : k \in 0 .. MaxTables} \cap Tables

IsOwn(t, p) == FDT[t].pid = p

\* Where the walk of process p ends.
\* Mutant: the walk steps over the first table before it looks.
Steps_after_head(p) ==
    Min({k \in 0 .. MaxTables : ~Used(At[k]) \/ (k > 0 /\ IsOwn(At[k], p))})
Steps(p) == Min({k \in 0 .. MaxTables : ~Used(At[k]) \/ IsOwn(At[k], p)})
Own(p) == At[Steps(p)]
Before(p) == IF Steps(p) = 0 THEN NULL ELSE At[Steps(p) - 1]

\* The last table of the parent's that the walk passes.
\* Mutant: that of any process but its own.
OfParent_any(p) == Before(p)

OfParent(p) ==
    LET ks == {k \in 0 .. Steps(p) - 1 : FDT[At[k]].pid = parent[p]}
    IN  IF ks = {} THEN NULL ELSE At[Max(ks)]

-----------------------------------------------------------------------------
(* get_FDT.                                                                *)

Inside(p) == pc[p] # "user"
Copying == {p \in Procs : pc[p] \in {"fork", "path", "head", "copy"}}
Building == Copying \cup {p \in Procs : pc[p] = "create"}
Linking == {p \in Procs : pc[p] \in {"create", "fork"}}
Fresh == {t \in Tables : FDT[t].state = "none"}
new_FDT == Min(Fresh)

Moves(p, to) == pc' = [pc EXCEPT ![p] = to]

\* The kernel dies: nothing moves any more.
Oops ==
    /\ fault' = TRUE
    /\ UNCHANGED <<FDT_list_head, FDT, alive, parent, pc, call, module, alone, calm>>

\* The walk, up to the first vmalloc.
GetFDT(p) ==
    /\ ~fault /\ p \in alive /\ ~Inside(p) /\ Callable
    /\ Own(p) \notin Tables
    /\ Cardinality(Linking) < Cardinality(Fresh)
    /\ IF Own(p) # NULL
       THEN Oops
       ELSE /\ Moves(p, IF OfParent(p) = NULL THEN "create" ELSE "fork")
            /\ call' = [q \in Procs |->
                  IF q = p
                  THEN [last |-> Before(p), from |-> OfParent(p), new |-> NULL, object |-> 0,
                        alone |-> Building = {} /\ Serving]
                  ELSE IF q \in Building THEN [call[q] EXCEPT !.alone = FALSE]
                  ELSE call[q]]
            /\ calm' = [calm EXCEPT ![p] =
                  OfParent(p) = NULL \/ \A q \in Procs : Inside(q) => q # parent[p]]
            /\ UNCHANGED <<FDT_list_head, FDT, alive, parent, module, fault, alone>>

\* The list with table t of content rec after the table the walk ended at.
Link(p, t, rec) ==
    IF call[p].last = NULL
    THEN FDT_list_head' = t /\ FDT' = [FDT EXCEPT ![t] = rec]
    ELSE /\ FDT' = [FDT EXCEPT ![t] = rec, ![call[p].last].next = t]
         /\ UNCHANGED FDT_list_head

LostLast(p) == call[p].last # NULL /\ ~Used(call[p].last)

\* create_FDT has built the table; it is linked.
Create(p) ==
    /\ ~fault /\ pc[p] = "create"
    /\ IF LostLast(p) THEN Oops
       ELSE /\ Link(p, new_FDT, [state |-> "used", pid |-> p, cur_path |-> Root,
                                 objects |-> <<Root>>, next |-> NULL])
            /\ Moves(p, "user")
            /\ call' = [call EXCEPT ![p] = NoCall]
            /\ alone' = IF call[p].alone THEN alone \cup {new_FDT} ELSE alone
            /\ UNCHANGED <<alive, parent, module, fault, calm>>

\* A table of this process's own is linked before it is filled in.
ForkLink(p) ==
    /\ ~fault /\ pc[p] = "fork"
    /\ IF \/ LostLast(p)
          \/ ~Used(call[p].from)
          \/ FDT[call[p].from].cur_path \in {Garbage, Freed}
       THEN Oops
       ELSE /\ \E next \in {NULL, Garbage} :
                  Link(p, new_FDT, [state |-> "used", pid |-> p, cur_path |-> Garbage,
                                    objects |-> <<>>, next |-> next])
            /\ Moves(p, "path")
            /\ call' = [call EXCEPT ![p].new = new_FDT]
            /\ UNCHANGED <<alive, parent, module, fault, alone, calm>>

\* Mutant: the end of the list is not marked.
WithPath_unmarked(table, path) == [table EXCEPT !.cur_path = path]
WithPath(table, path) == [table EXCEPT !.cur_path = path, !.next = NULL]

\* The path of the parent as it is now.  (It may have grown since strlen; vmalloc
\* gives whole pages, so the copy fits.)
ForkPath(p) ==
    /\ ~fault /\ pc[p] = "path"
    /\ IF \/ ~Used(call[p].from)
          \/ ~Used(call[p].new)
          \/ FDT[call[p].from].cur_path \in {Garbage, Freed}
       THEN Oops
       ELSE /\ FDT' = [FDT EXCEPT ![call[p].new] = WithPath(@, FDT[call[p].from].cur_path)]
            /\ Moves(p, "head")
            /\ UNCHANGED <<FDT_list_head, alive, parent, call, module, fault, alone, calm>>

\* The copy goes on at object i of the parent, which is the last or has a next.
\* An object that vmalloc has given but nobody filled in may end the list or not; if it
\* does, the copy is an object that is filled in, for no file.
\* (A copy whose source closes and opens files meanwhile has no end: MaxObjects.)
ForkObjects(p) ==
    /\ ~fault /\ pc[p] \in {"head", "copy"}
    /\ LET from == call[p].from
           new == call[p].new
           i == call[p].object + 1
           source == FDT[from].objects
           object == IF source[i] = Garbage THEN Junk ELSE source[i]
           copied == (IF pc[p] = "head" THEN <<>> ELSE Front(FDT[new].objects))
                         \o <<object>>
           Ends(objects) ==
               /\ FDT' = [FDT EXCEPT ![new].objects = objects]
               /\ Moves(p, "user")
               /\ call' = [call EXCEPT ![p] = NoCall]
               /\ calm' = [calm EXCEPT ![p] = TRUE]
               /\ alone' = IF call[p].alone THEN alone \cup {new} ELSE alone
           GoesOn ==
               /\ FDT' = [FDT EXCEPT ![new].objects = copied \o <<Garbage>>]
               /\ Moves(p, "copy")
               /\ call' = [call EXCEPT ![p].object = i]
               /\ UNCHANGED <<alone, calm>>
       IN  IF \/ ~Used(from) \/ ~Used(new)
              \/ call[p].object = Freed
              \/ i > Len(source)
           THEN Oops
           ELSE \/ /\ \/ i = Len(source) /\ Ends(copied)
                      \/ i < Len(source) /\ Len(copied) <= MaxObjects /\ GoesOn
                   /\ UNCHANGED <<FDT_list_head, alive, parent, module, fault>>
                \/ source[i] = Garbage /\ Oops

-----------------------------------------------------------------------------
(* The calls of a process that has its table, its own.                     *)

\* Mutant: the object before it goes.
WithoutObject_before(objects, fd) == RemoveAt(objects, fd)
WithoutObject(objects, fd) == RemoveAt(objects, fd + 1)

Calls(p) == ~fault /\ p \in alive /\ ~Inside(p) /\ Callable /\ Own(p) \in Tables

\* Whoever copies table t does not see it at rest.
Disturbs(t) == calm' = [q \in Procs |-> calm[q] /\ ~(q \in Copying /\ call[q].from = t)]

\* rd_open, up to the vmalloc of the new object.  It looks the file up on the disk, which
\* need not be there yet or any more; isOpen looks into the first table.
OpenFile(p, f) ==
    /\ Calls(p)
    /\ IF module # "loaded" THEN Oops
       ELSE /\ f \notin Range(FDT[FDT_list_head].objects)
            /\ Len(FDT[Own(p)].objects) <= MaxObjects
            /\ Moves(p, "open")
            /\ call' = [call EXCEPT ![p] = [own |-> Own(p), file |-> f]]
            /\ Disturbs(Own(p))
            /\ UNCHANGED <<FDT_list_head, FDT, alive, parent, module, fault, alone>>

\* The object is added and the old path freed, up to the vmalloc of the new one.
OpenObject(p) ==
    /\ ~fault /\ pc[p] = "open"
    /\ LET own == call[p].own
       IN  IF ~Used(own) THEN Oops
           ELSE /\ FDT' = [FDT EXCEPT ![own].objects = Append(@, call[p].file),
                                      ![own].cur_path = Freed]
                /\ Moves(p, "newpath")
                /\ UNCHANGED <<FDT_list_head, alive, parent, call, module, fault, alone, calm>>

OpenPath(p) ==
    /\ ~fault /\ pc[p] = "newpath"
    /\ LET own == call[p].own
       IN  IF ~Used(own) THEN Oops
           ELSE /\ FDT' = [FDT EXCEPT ![own].cur_path = call[p].file]
                /\ Moves(p, "user")
                /\ call' = [call EXCEPT ![p] = NoCall]
                /\ UNCHANGED <<FDT_list_head, alive, parent, module, fault, alone, calm>>

\* What programs close: what rd_open has returned, be it an error, and what is closed.
Descriptors == {ERROR} \cup 1 .. MaxObjects + 1

\* Those of the table of p that are open.  (0 is its folder, which the root stays.)
Opened(p) == 1 .. Len(FDT[Own(p)].objects) - 1

\* The copies of table t that stand at its object i have lost it.
LoseObject(t, i) ==
    LET Copies(q) == pc[q] = "copy" /\ call[q].from = t
    IN  call' = [q \in Procs |->
            IF Copies(q) /\ call[q].object = i THEN [call[q] EXCEPT !.object = Freed]
            ELSE IF Copies(q) /\ call[q].object > i THEN [call[q] EXCEPT !.object = @ - 1]
            ELSE call[q]]

\* rd_close.  It does not look for NULL after the last object, nor before the first: the
\* next descriptor, and a negative one, are followed; any above that is an ERROR.
CloseFile(p, fd) ==
    /\ Calls(p)
    /\ LET own == Own(p)
       IN  \/ /\ fd < 0 \/ fd = Len(FDT[own].objects)
              /\ Oops
           \/ /\ fd \in Opened(p)
              /\ FDT' = [FDT EXCEPT ![own].objects = WithoutObject(@, fd)]
              /\ LoseObject(own, fd + 1)
              /\ Disturbs(own)
              /\ UNCHANGED <<FDT_list_head, alive, parent, pc, module, fault, alone>>

-----------------------------------------------------------------------------
(* Processes; the start and the end of the module.                         *)

Fork(p, q) ==
    /\ ~fault /\ q \notin alive
    /\ p = Init_pid \/ (p \in alive /\ ~Inside(p))
    /\ alive' = alive \cup {q}
    /\ parent' = [parent EXCEPT ![q] = p]
    /\ UNCHANGED <<FDT_list_head, FDT, pc, call, module, fault, alone, calm>>

Exit(p) ==
    /\ ~fault /\ p \in alive /\ ~Inside(p)
    /\ alive' = alive \ {p}
    /\ parent' = [q \in Procs |-> IF p \in {q, parent[q]} THEN Init_pid ELSE parent[q]]
    /\ UNCHANGED <<FDT_list_head, FDT, pc, call, module, fault, alone, calm>>

\* init_ramdisk makes the entry in proc, with its ioctl, ...
create_proc_entry ==
    /\ ~fault /\ module = "new"
    /\ module' = "entry"
    /\ UNCHANGED <<FDT_list_head, FDT, alive, parent, pc, call, fault, alone, calm>>

\* ... and only then, after a vmalloc, the disk.
init_datastructure ==
    /\ ~fault /\ module = "entry"
    /\ module' = "loaded"
    /\ UNCHANGED <<FDT_list_head, FDT, alive, parent, pc, call, fault, alone, calm>>

\* Mutant: the loop ends at the last table.
FreedTables_but_last == {t \in Listed : FDT[t].next # NULL}
FreedTables == Listed

HalfFilled(t) == FDT[t].cur_path \in {Garbage, Freed} \/ FDT[t].next = Garbage
                 \/ FDT[t].objects = <<>> \/ Garbage \in Range(FDT[t].objects)

\* unload_ramdisk: free_FDT and the memory of the disk, at any sleep of the calls inside.
\* (It does not hold their lock; that it comes into a step of theirs is left out.) ...
free_FDT ==
    /\ ~fault /\ module = "loaded"
    /\ IF \E t \in Listed : HalfFilled(t)
       THEN /\ fault' = TRUE /\ module' = "freed"
            /\ UNCHANGED <<FDT_list_head, FDT, alive, parent, pc, call, alone, calm>>
       ELSE /\ FDT' = [t \in Tables |-> IF t \in FreedTables THEN FreedTable ELSE FDT[t]]
            /\ FDT_list_head' = NULL
            /\ module' = "freed"
            /\ call' = [q \in Procs |->
                  IF q \in Building THEN [call[q] EXCEPT !.alone = FALSE] ELSE call[q]]
            /\ UNCHANGED <<alive, parent, pc, fault, alone, calm>>

\* ... and only then the proc entry, once no call is inside.
remove_proc_entry ==
    /\ ~fault /\ module = "freed"
    /\ \A p \in Procs : ~Inside(p)
    /\ module' = "removed"
    /\ UNCHANGED <<FDT_list_head, FDT, alive, parent, pc, call, fault, alone, calm>>

\* A step of a call of process p.
Call(p) ==
    \/ GetFDT(p) \/ Create(p)
    \/ ForkLink(p) \/ ForkPath(p) \/ ForkObjects(p)
    \/ \E f \in Files : OpenFile(p, f)
    \/ OpenObject(p) \/ OpenPath(p)
    \/ \E fd \in Descriptors : CloseFile(p, fd)

Next ==
    \/ \E p \in Procs :
        \/ Call(p)
        \/ \E q \in Procs \cup {Init_pid} : Fork(q, p)
        \/ Exit(p)
    \/ create_proc_entry \/ init_datastructure
    \/ free_FDT
    \/ remove_proc_entry

Spec == Init /\ [][Next]_vars

-----------------------------------------------------------------------------
(* Properties.                                                             *)

\* The first object of a table that is filled in is the root folder.
TypeOK ==
    /\ FDT_list_head \in Tables \cup {NULL}
    /\ \A t \in Tables : Used(t) =>
        /\ FDT[t].pid \in Procs
        /\ FDT[t].cur_path \in Files \cup {Root, Garbage, Freed}
        /\ FDT[t].objects # <<>> => Head(FDT[t].objects) = Root
        /\ Range(FDT[t].objects) \subseteq Files \cup {Root, Garbage, Junk}
        /\ FDT[t].next \in Tables \cup {NULL, Garbage}
    /\ alive \subseteq Procs /\ alone \subseteq Tables
    /\ parent \in [Procs -> Procs \cup {Init_pid}]
    /\ pc \in [Procs -> {"user", "create", "fork", "path", "head", "copy", "open", "newpath"}]
    /\ module \in {"new", "entry", "loaded", "freed", "removed"}
    /\ fault \in BOOLEAN /\ calm \in [Procs -> BOOLEAN]

\* A table built while nobody else was building one is never lost from the list, and is
\* released with the module (free_FDT: "release all FDTs").  Two that are built together
\* may lose one another: both are linked after the same last table.
AloneKept ==
    /\ Serving => alone \subseteq Listed
    /\ ~Serving /\ ~fault => \A t \in alone : ~Used(t)

\* However the calls interleave, the list never holds two tables of one pid, so that the
\* walk of get_FDT ("get the FDT of current process") finds the one its calls changed.
OneTable ==
    \A t, u \in Listed : FDT[t].pid = FDT[u].pid => t = u

\* A table copied from one that is at rest meanwhile equals it: the child starts with the
\* path and the open files of its parent ("create a new FDT from FDT of parent process").
Inherited ==
    [][\A p \in Procs :
        /\ pc[p] \in {"head", "copy"} /\ pc'[p] = "user"
        /\ calm[p] /\ Serving
        => /\ FDT'[call[p].new].objects = FDT[call[p].from].objects
           /\ FDT'[call[p].new].cur_path = FDT[call[p].from].cur_path
           /\ parent[p] # Init_pid => FDT[call[p].from].pid = parent[p]]_vars

\* Programs that err by themselves: they close what is not open (module_interface.h:260), or
\* open a file before the disk is there or when it is gone (initial_module.c:148, 171).
ClosesUnopened(p) == \E fd \in Descriptors : CloseFile(p, fd) /\ fd \notin Opened(p)
OpensWithoutDisk(p) == module # "loaded" /\ \E f \in Files : OpenFile(p, f)

\* Calls that come one at a time, and that free_FDT does not come into, use no pointer that
\* leads nowhere, but for these two errors: at any other fault another call is inside too, or
\* has changed the table that is being copied.
FaultsInCompany ==
    [][\A p \in Procs :
        Call(p) /\ fault' /\ ~fault /\ calm[p] /\ (Serving \/ ~Inside(p))
        => \/ \E q \in Procs \ {p} : Inside(q)
           \/ ClosesUnopened(p)
           \/ OpensWithoutDisk(p)]_vars
=============================================================================
