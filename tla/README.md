# A verification project for CS552OperatingSystem

The repository holds the programs of an operating-systems course: two small
x86 kernels with round-robin threads (FIFOS-1, FIFOS-2), two boot programs that
print the memory map (memos-1, memos-2), two keyboard drivers and a RAM disk as
Linux 2.6.32 kernel modules. This directory models them in TLA+, checks the
models with TLC and proves theorems about them with TLAPS.

## 1. Inventory

| component | state | operations | hard part |
|---|---|---|---|
| FIFOS-1 threads (`src/FIFOS-1/init.c`, `switch.s`, `boot.s`) | `TCBArray`, `currentThread`, three stacks, the loop counter of each thread | `threadCreate`, `scheduler`, `functionYield`, `functionFinish`, `switch_to` | who saves which context where; when the last thread is gone |
| FIFOS-2 threads (`src/FIFOS-2/`) | the same, and IDT, 8259, 8254, the interrupt flag | the same without the yield; `initIDT`, `initPIC`, `initPIT`, `timerInterruptHandler` | a timer interrupt between any two instructions |
| context frames (`switch.s`, `threadCreate`) | the words of a saved context | push and pop of flags, general and segment registers | a frame built by C code and consumed by assembly |
| VGA terminal (`display.h`) | row, column, cells | `terminal_putchar`, `terminal_writestring` | wrap-around only in one of the two |
| RAM disk module (`src/filesys .../module/`) | superblock, inodes, block bitmap, data blocks, open-file tables of the processes | create, mkdir, open, close, read, write, lseek, unlink, chmod, the path of the process | allocation accounting, path walking, interleaved `ioctl`s that sleep |
| RAM disk library and test (`.../test/`) | none of its own | `rd_*` wrappers around `ioctl`; a test that forks | the promises made to the caller |
| keyboard driver with interrupts (`KBD_module.c`) | `KBD_key`, `ev_press`, a wait queue | `ir_getchar`, `pseudo_device_ioctl` | keys lost, repeated or swapped between readers |
| keyboard driver with polling (`KBD_module_noIR.c`) | interrupt line 1 | `my_getchar`, `pseudo_device_ioctl` | what the call returns |
| memos-1 (`memos-1.s`) | registers | BIOS calls, number formatting | none: sequential, once |
| memos-2 (`memos-2.c`) | the multiboot map | `toString`, the sum of the map | rounding |
| vendored headers, linker scripts, Makefiles | none | none | none |

How they interact: the kernels share the TCB code and the terminal; boot code
calls `init`, `init` calls `scheduler`, and from then on the threads call each
other through `switch_to`. In FIFOS-2 the timer calls `scheduler` as well. The
RAM disk is called by any number of processes through one `ioctl` entry, which
runs under the big kernel lock but gives it up when an allocation sleeps. The
keyboard drivers are called by readers and, one of them, by the interrupt.

What makes each correct:

* threads: stacks and TCBs stay paired, round robin is fair, every thread does
  exactly its work, the system halts when all are done, kernel code is never
  preempted;
* frames: what is pushed is what is popped;
* terminal: nothing is written outside the screen;
* RAM disk: blocks and inodes are free or used by one owner, the counters agree
  with the maps, a file's content is what was written, a descriptor names the
  file it was opened for, names are unique in a directory;
* keyboard: what a call returns was pressed after the call began, no wake-up is
  lost, a reader is not left asleep after a key, the interrupt line is on again
  when all calls have returned, and no call runs in a module that is gone;
* memos-2: every region of the map is printed once, and the numbers are right up
  to the width of a word.

## 2. Modules

| module | models |
|---|---|
| `ThreadTable` | the TCB array, `threadCreate`'s search for a slot and `scheduler`'s search for the next thread; shared by both kernels, as the code is |
| `RoundRobin` | abstract: threads with work on a ring, and a turn that goes round |
| `CoopFIFOS` | FIFOS-1; implements `RoundRobin` |
| `PreemptFIFOS` | FIFOS-2 at the granularity of instructions |
| `RamdiskDisk` | the disk of the RAM disk as a value, and `support_function.h` as operators on it |
| `Ramdisk` | processes calling the RAM disk: `module_interface.h`, one action per call, two where the call sleeps |
| `RamdiskFiles` | the pointers of a file, direct, single- and double-indirect: `allocate_block`, `get_blockpointer`, `free_block` |
| `RamdiskTables` | the tables of open files of processes that fork and exit: `get_FDT`, `free_FDT`, loading and unloading |
| `KbdIrq` | the interrupt handler and the readers of `KBD_module.c`, its loading and unloading |
| `KbdPoll` | the machine with either driver: `KbdIrq`, or `KBD_module_noIR.c` |
| `Terminal` | `display.h`: the screen cell by cell |
| `MemMap` | memos-2: the walk over the memory map, the sums and the digits |
| `Screens` | the machine with one of the systems that draw: `Terminal` or `MemMap` |
| `Sums` | the sum of a sequence of numbers, used by these |
| `MC...` | instances for TLC: the programs, the paths, the texts |
| `ThreadTable_proofs` | lemmas about the two searches |
| `CoopFIFOS_proofs` | the inductive invariant of FIFOS-1 and the theorems that follow; FIFOS-1 implements `RoundRobin` |
| `PreemptFIFOS_proofs` | the inductive invariant of FIFOS-2, with a tick at any instruction, and its theorems |
| `KbdIrq_proofs`, `KbdPoll_proofs` | those of the interrupt driver, and of the machine with either driver |
| `RamdiskTables_proofs` | those of the list of open-file tables |
| `RamdiskFiles_proofs` | those of the blocks of files: the trees that the pointers make, and what writes and removals do to them |
| `Screens_proofs` | those of the terminal and of the memory map printer, and that `toString` writes digits that read as its argument |

A module that holds mutants (definitions marked "Mutant:") holds them for one
purpose: to show that the property named in `PROJECT.json` notices the bug.

### CoopFIFOS

A thread runs with interrupts off until it yields or finishes, so a step is what
one context does until it gives up the CPU.

| model | code (`src/FIFOS-1`) |
|---|---|
| `tcb[t]` | `TCBArray[t]`; `stackPointer` is the stack it points into, `function` the job |
| `esp`, `pc` | the stack in use, and where the code on each stack is or will resume |
| `times[f]` | the local counter of a thread function |
| `row` | `terminal_row` |
| `CreateThread`, `StartScheduler` | `init`: the calls of `threadCreate`, then of `scheduler` |
| `Enter` | `ret` of `switch_to` into a new thread, up to its first yield |
| `Slice` | return from `functionYield`, one line, the next yield |
| `Finish` | the loop's exit, `functionFinish`, `scheduler` |
| `Scheduler` (operator) | `scheduler` with `switch_to` and, when nothing is runnable, `system_finish` |

`slices` is a ghost: how often each job has printed. `quota` is the program: the
code has one, three threads of 3, 4 and 5 lines; the model has any number of jobs
of any length.

### PreemptFIFOS

The same program under a timer. A step is an instruction, or a run of
instructions that no interrupt can divide. `InterruptDue` is the x86's rule: IF,
the shadow of one instruction after `sti`, and a request of the 8259 that is not
in service. The gate of vector 32 is the C function `timerInterruptHandler`,
which returns with `ret`; `ret`, `pushed`, `savedIF` and `leaked` hold what the
interrupt leaves on the stack. `timerInterruptHandler_assembly` is never
installed and so is not an action. `SpacedTicks` picks between a tick at any
instruction and the timing that a 100 Hz timer keeps in practice: no second tick
before the code has come to a delay loop. The bugs below are shown with the
second, so they need no improbable timing.

### RamdiskDisk and Ramdisk

The disk is one record: `freeBlock_number`, `freeInode_number`,
`first_freeBlock` and `first_freeInode` of the superblock, the bitmap `index` as
the set of its bits that are 1, `inode` and `space`. The functions of
`support_function.h` are operators that take a disk and give one.

* A block is a row of cells of 16 bytes, the size of a directory entry; sizes,
  positions and offsets are counted in cells, and reads and writes of a file are
  whole cells.
* `inode_ptr[-1]` is memory behind the superblock's fields that reads as
  zeros; `read_pathname` can return it, so it is an inode of the model
  (`Phantom`). A pointer that leads out of the disk sets `fault`, and the
  behaviour ends there.
* A pathname is how many "../" it starts with, whether it starts with "/", its
  directories and its leaf. `Walk` never looks at a type, as the code does not,
  so a program that creates a file below a regular file breaks the tree at once.
  The paths of the runs lead through directories.

Every call runs under the big kernel lock of `ioctl`, which Linux gives up when
the call sleeps. The calls sleep in `vmalloc`: `create` between the look-up of
the name and the making of the entry, an open of a file between the look-up and
the new descriptor. Each is two actions (`CreateLookup`/`CreateFinish`,
`OpenLookup`/`OpenFinish`), and `call` holds what the sleeping call carries. All
other calls are one action each. A call that fails changes nothing and is no
step; `rd_read` and the path queries change nothing that matters
here (what `rd_read` returns is `ReadFile`, and `ContentKept` is about it).

**The range of the model.** The bitmap search takes any byte that is not zero as
free in its first bit (see Findings), so the allocator gives out block 1 once,
and from then on block 0, the block of the root directory. What follows, a file
written over the root directory, satisfies no property one could state. The
model therefore follows the system while the disk is `InGoodOrder`: no block
has two owners, no block is full and no wild pointer was followed; and while
`NoneDangling` holds. `Next` stops at the first state that is not so, and the
properties are about the states before. One file or directory below the root can
have content, as in the repository's list of commands that run; directories,
empty files, removal, renewal, opening and changes of directory are not limited.
`BlocksSeparate`, `DescriptorsLive` and the range itself are not excused in this
way: they are what the violation runs break.

`rd_close` follows a NULL pointer when the descriptor is the next one that would be
given out, or negative; `CloseFile` is a fault then, and the run ends.

### RamdiskFiles

`RamdiskDisk` keeps the allocator as it is, and with it no file ever gets a second
block of its own, so the code for large files never runs to any purpose.
`RamdiskFiles` is that code, on an allocator that works. Two expressions are
assumed to do what their comments say, the search of `allocate_bitmap` and the
pattern of `free_bitmap`; the module's header names them, and everything else is
as the code has it: the three tests for enough blocks, the counter of 16 bits,
the index blocks that are entered on the way, `block_number` after a write that
ends at the edge of a block, the search of `get_blockpointer` that is not quite
the one of `switchAddress`, and `free_block` with its loop of nine over eight direct
pointers. A word of a block is data or a pointer by how it was written.

Four things go wrong, and the properties say where they stop. `FaultsAtEdges`
lists the only ways to a wild pointer: a file written out of order; the removal
of a file that exactly fills its direct or its single-indirect blocks; one block
behind the largest file; a later row of the double-indirect part on a disk with
one block left, where the counter wraps. `MapAgrees` says what a removal leaves
behind: nothing, as long as the file had direct blocks only. `ReadsBack` is about
files that grow by appending, where no write starts at the edge of a block, and
holds through all three levels. `Running` ends the behaviour at the first
write out of order, at a fault, and when an inode is used again with its old
pointers; `RamdiskDisk` is about what happens to those.

### RamdiskTables

Every call starts with `get_FDT`, and every sleep in it gives the big kernel lock
away. `GetFDT` is the walk over the list; `Create` links what `create_FDT` has
built; `ForkLink`, `ForkPath` and `ForkObjects` are the copy of the parent's table
from one `vmalloc` to the next, linked before it is filled in. `OpenFile`,
`OpenObject`, `OpenPath` and `CloseFile` change the tables that others copy
meanwhile: `rd_open` frees the old `cur_path` and sleeps before it has a new one.
`Fork` and `Exit` are the kernel's; a pid comes back, and its new owner finds the
dead process's table. `create_proc_entry` and `init_datastructure` load the
module, in this order, `free_FDT` and `remove_proc_entry` unload it, in this order,
so that calls come in before the disk is there and after it is gone.

What the code guarantees is weaker than what one would wish, and the
properties say exactly what it is. A table built alone is kept and released
(`AloneKept`); two built together may lose one another, but no pid ever has two
in the list (`OneTable`). A child inherits what its parent had if the parent's
table is at rest during the copy (`Inherited`). A call that no other is inside
beside, and that `free_FDT` does not come into, uses a bad pointer in three cases only
(`FaultsInCompany`): it closes a descriptor that is not open (`rd_close` has no test
for NULL at line 260, so a second close of the last file is enough); it opens a file
when the disk is not there yet or not any more, the entry being older and younger
than the disk; or the table it copies was changed under it, which ends the copy in a
bad pointer even when the one who changed it has returned. `alone` and `calm` are history
variables that record these conditions. A copy whose source closes and opens
files all the time has no end; `MaxObjects` bounds it.

A field that `vmalloc` has given and nobody has filled in is `Garbage`; an inode
number that was copied out of such a field is `Junk`. A call may begin as long as
there is an address for the table that it may link (`Linking`, `Fresh`): calls that
have linked theirs already do not count.

The module's exit does not take the big kernel lock, and `vfree` does not sleep.
`free_FDT` is one step here, between any two steps of the calls, so what it frees under
a sleeping call is modelled, with the fault it leads to. On another processor it could
also come into the middle of a step; that is left out.

### KbdIrq

A key is the number of its press. The handler is a step for each thing it
does (`StoreKey`, `SetFlag`, `WakeUp`), because it may run on another processor.
A reader's call is `Enter` (clear the flag), `Printed` (the tty write of
`my_printk`, which may sleep), the expansion of `wait_event_interruptible`
(`Test`, `Retest`, `Wake`), `Clear`, `Take`; `NoCommand` is the `default` branch.
`After` is the loop of the program `KBD_test.c`, which ends at a newline.
Only the places where a call may sleep let another reader in (`HasLock`).
`reported` is a ghost: the last press that had been flagged when the call began.

The module is loaded (`CreateEntry`, `RequestIrq`) and removed (`RemoveEntry`,
`FreeIrq`) around the calls. Linux waits for the calls inside an entry it
removes and for a handler it frees; it does not when a load fails.
`request_irq` may fail, and then the entry stays though the module is freed
(`stale`): the next call runs code that is no longer there (`EnterStale`, `fault`).
`CallsServed` says that this is the only way.

### KbdPoll

Both drivers register the same proc entry and the same command, so the machine
has one of them; `driver` says which, and `SystemNext` is `KbdIrq`'s `Next` or the
polling driver's actions. The port is a short queue of bytes, key presses and
releases, which Linux's own handler empties while the interrupt is on
(`KernelTakes`). A call switches the interrupt off (`line` counts, as
`disable_irq` nests), takes bytes until one is a press, copies it and switches
the interrupt on. The port is read in two steps, the status (`PollStatus`) and then the
data (`PollData`); a data port that has nothing new gives its `latch` once more, so two
calls that both saw one byte would return it twice. Only the big kernel lock
(`PollLock`) keeps them apart, and `KeysInOrder` fails without it. The missing `break` then makes it return `-EINVAL`
(`PollReturn`).

### Terminal, MemMap and Screens

`Terminal` is `display.h` with the window as a constant: what
`terminal_writestring` and `terminal_putchar` do to each cell of the video memory,
which is larger than the window. `MemMap` is memos-2: `Word` is 2^32, `MB` is 2^20,
and a map is any sequence of regions, each with a size of its own. The characters
of the texts around the numbers are left out. The kernels and memos-2 are
different boots of one machine, and `Screens` is that machine.

## 3. Runs

| run | expects | question and bounds |
|---|---|---|
| `coop` | pass | 3 TCBs, every program of 0 to 4 jobs with 0 to 3 lines, the shipped program in every order and with a fourth thread. Four jobs on three TCBs make `threadCreate` fail; quota 0 is a thread that leaves on its first turn; three threads are the smallest ring where a thread in the middle leaves. |
| `preempt` | pass | 3 TCBs, every program of 1 to 4 jobs with 1 or 2 lines and the shipped one, a tick possible at every instruction. The last part of `MaskedInKernel` is about the end-of-interrupt, which must come before the switch: the handler may never return. |
| `preempt_quota` | violation | with spaced ticks: a new thread prints nothing. |
| `ramdisk_one` | pass | 1 process, a file, a directory, a name that is too long, paths up, down and from the root, 4 inodes, 4 blocks of 3 cells. |
| `ramdisk_two` | pass | 2 processes that interleave at the sleeps, a directory, a file in it and a file beside it, 3 inodes: the table runs full, a removal frees an inode between the two halves of a creation, and the directory of a creation is removed, and its inode used again, while it sleeps. |
| `ramdisk_same_name` | violation | two creations of one name. |
| `ramdisk_unlink_open` | violation | removal of a file another process has open. |
| `ramdisk_blocks` | violation | the second allocation is the root's block. |
| `ramdisk_files` | pass | 2 files, 2 direct pointers, blocks of 2 words, so that a file is 2 + 2 + 4 blocks; a disk of 14, less than two largest files take with their index blocks (12 each), so that it runs full at every level. |
| `ramdisk_tables` | pass | 3 processes, 1 file, 3 tables, 3 open files: a parent, a child that copies it, and a third that walks over the copy or reuses a pid; one file can be open in each table and closed under a copy. |
| `kbd` | pass | either driver, 2 readers, 3 presses, the last a newline, signals at every sleep, loading and removal at any time: one reader's start, wake-up and clearing can fall between any two steps of the other, with a press before, between and after. The port holds 2 bytes, a press and the release of another. |
| `screens` | pass | a window of 3 rows of 4 columns in a memory of 10, up to 4 texts that are shorter than a row, as long, and longer; maps of up to 2 regions of 20 or 24 bytes, words of 12 bits, megabytes of 256 bytes, regions that fit a word, cross it, and lie above it. |

`CHECK_DEADLOCK FALSE` stands where the system may stop: the RAM disk runs (the
model stops where the disk leaves the modelled range, at a fault, when the module
is removed, and at the bounds), `screens` (both programs end; the kernels'
endless loop afterwards changes nothing on the screen) and `kbd` (after a fault,
or when the presses are used up and the readers have ended). The kernels end in
the stuttering of `system_finish`.

Bounds that are guards: `MaxObjects` (open files of a process), `MaxWrite`
(cells in one write), `MaxPath` (names in a current path), `MaxFreeBlocks` (what
removals raise `freeBlock_number` to: every `free_block` adds one, whether the
block was allocated or not), `WriteSizes` and `MaxSize` (words in a write, size
of a file that is still written to), `MaxTables` (tables ever built), `MaxPresses`,
`PortSize`, `MaxTexts`, `MaxRegions`.

Symmetry is used in `ramdisk_files` and `ramdisk_tables` only: files and pids are
interchangeable there, and both runs check safety alone.

### Fairness

* FIFOS-1: the CPU keeps executing. There is one context that can step.
* FIFOS-2: the CPU keeps executing, takes an interrupt that is due, and the
  timer keeps ticking: the 8254 is programmed as a rate generator. `AllDone`
  needs the last one; a thread spins until its time is up.
* Keyboard: the handler runs to its end, and a reader inside its call goes on
  when it can. Nobody has to press a key, call, send a signal, load or remove.
* RAM disk, screens: none, and no liveness is claimed.

## 4. Findings

Each is a run with a counterexample; `PROJECT.json` quotes the sentence of the
repository that it contradicts.

1. FIFOS-2 returns from the timer interrupt with `ret`, so the flags of the
   interrupted code are lost: a tick between `cmp` and `je` of a thread's first
   test ends the thread before its first line (`preempt_quota`).
2. Two processes can create one name twice: `create` sleeps between the look-up
   and the entry (`ramdisk_same_name`).
3. `isOpen` looks in the table of the first process only, so an open file of
   any other can be removed (`ramdisk_unlink_open`).
4. The search for the next free block ends at any byte of the map that is not
   zero (`ramdisk_blocks`).

The sleep of the second has one more consequence: the directory that `create` has
found may be removed meanwhile, and its inode become a file's, which then gets the
entry. `TreeConsistent` is therefore claimed for one process (`ramdisk_one`);
`InodesAccounted` and `EntriesLive` hold all the same (`ramdisk_two`).

For the reason of the first, a tick between `popfl` and `ret` of `switch_to`, on the
stack of a new thread, makes it return to the value of CS: `Launch` and `Wild`;
`AllDone` says that the system gets to its end or is lost there.

What runs well in spite of the missing protection is as much a result: FIFOS-2
has no lock, and yet a timer interrupt never falls into `scheduler`, `switch_to`
or `functionFinish` (`MaskedInKernel`), because each is entered with IF off by
every way that leads to it; and what each preemption leaves on a stack is bounded
by the lines printed (`LeakBounded`).

## 5. Proofs

TLAPS proves the theorems below from the assumptions that the modules state about
their constants, and from nothing else: `NAssumption` (the number of TCBs is in
`1 .. infinit`), `WorkloadsAssumption` (programs are sequences of natural numbers;
positive ones in FIFOS-2), `SpacedTicksAssumption` (a Boolean: the theorems hold for
ticks at any instruction), `KbdAssumption` and `PortAssumption` (the bounds are
natural numbers), `TablesAssumption` (the bounds are natural numbers, and pids and
inodes differ from the values that stand for NULL and for garbage),
`FilesAssumption` (there are direct pointers and words in a block, and the disk has at
most `Largest` blocks, as many as the 16 bits of `freeBlock_number` count; the shipped one
has 7931),
`TerminalAssumption` (the window is not empty and fits into the video memory, no text
is empty) and `MemMapAssumption` (a word is a multiple of a megabyte, which is more
than a byte; base and length of a region are natural numbers, its size is positive).
The sets of readers, pids, files and texts are any sets; only the bounds that guards
name remain, and they may have any value.

| module | theorem | states |
|---|---|---|
| `ThreadTable_proofs` | `NextThreadLemma` | the modulo search of `scheduler` returns `infinit` exactly when nothing is runnable, and otherwise the first runnable slot after the current one |
| | `ThreadCreateLemma` | `threadCreate` fills the first free slot, or changes nothing |
| `CoopFIFOS_proofs` | `Invariance` | `Spec => []IInv` |
| | `TypeCorrect`, `StacksApart`, `Fairness`, `Exactness` | `TypeOK`, `StacksKeptApart`, `FairShare`, `ExactQuota` |
| | `StaysOnScreen`, `ShippedStays` | `ScreenFits`, for programs whose lines fit on the screen; the shipped one is such |
| | `RefinesRoundRobin` | every behaviour of FIFOS-1 is one of `RoundRobin`, but for liveness |
| `PreemptFIFOS_proofs` | `Invariant` | `Spec => []IInv` |
| | `TypeCorrect`, `KernelIsMasked`, `StacksStayApart` | `TypeOK`, `MaskedInKernel`, `StacksKeptApart` |
| | `SharesAreFair`, `PrintsAllOrNothing`, `LeaksAreBounded` | `FairShare`, `AllOrNothing`, `LeakBounded` |
| `KbdIrq_proofs` | `Invariant` | `Spec => []IInv` |
| | `TypeCorrect`, `NoWakeupIsLost`, `KeysAreNew`, `CallsAreServed` | `TypeOK`, `NoLostWakeup`, `KeyIsNew`, `CallsServed` of the interrupt driver |
| `KbdPoll_proofs` | `SystemInvariant` | `System => []SystemInv` |
| | `SystemTypeCorrect`, `SystemLosesNoWakeup`, `SystemKeysAreNew`, `SystemCallsAreServed` | `SystemTypeOK` and the same three of the machine with either driver |
| | `LineIsBalanced`, `KeysAreInOrder` | `LineBalanced`, and the action property `KeysInOrder` |
| `RamdiskTables_proofs` | `Invariant` | `Spec => []IInv` |
| | `TypeCorrect`, `OneTablePerPid`, `AloneStays` | `TypeOK`, `OneTable`, `AloneKept` |
| | `CopiesAreInherited`, `FaultsNeedCompany` | the action properties `Inherited`, `FaultsInCompany` |
| `RamdiskFiles_proofs` | `Invariance` | `Spec => []IInv` |
| | `TypeCorrect`, `FilesReadBack`, `MapRight` | `TypeOK`, `ReadsBack`, `MapAgrees` |
| | `FaultsOnlyAtEdges` | the action property `FaultsAtEdges` |
| `Screens_proofs` | `ToStringLemma` | `toString` writes, in base 10 and 16, digits that read as the number it was given |
| | `RangesArePrinted`, `SizeIsPrinted` | `RangesPrinted`, `SizePrinted` |
| | `PictureIsRight` | `PictureRight` |
| | `TypeCorrect` | `TypeOK`, if the video memory has, for each text, the rows of the longest |

The proofs have one shape: an inductive invariant in named parts, a lemma for
each action (or for a group of actions that disturb the same variables) that it is
preserved, and a theorem for each property, which follows from the invariant and,
for an action property, from one step more.

### FIFOS-1

None of the four properties is inductive: fairness needs to know how far the
round has got, exactness how much of the quota a suspended thread still has on its
stack, and both need the correspondence of slots, jobs and stacks. `IInv` adds to
`TypeOK`:

* `SlotsInv`: jobs sit in the slots in the order of creation, and each slot is
  free, live or finished; stack pointers point into the job's own stack;
* `PhaseInv`: boot code runs until the first switch, then the CPU is on the
  current thread's stack, and the system halts only when nobody is live;
* `WorkInv`: the position of a thread says what it has printed and what is left;
* `RoundInv`: slots before the current one have had their turn in this round,
  those after it have not; a live thread before is one line ahead, no more.

`SchedulerLemma` is the one fact about `scheduler` that every action uses: the
context it saves goes where the TCB pointed anyway, and the CPU goes to the
first runnable slot ahead.

`ScreenFits` is about the kernel's lines together with those of all threads, in any
order: `RowInv` says that `terminal_row` is 2, plus one for each job created, plus
the lines the jobs have printed, plus one when the boot code has taken over again. The
sum over the jobs is a function of partial sums (`Adds`), since the number of jobs
is a constant of the theorem; `AddsUpTo` compares two such sums by a least counterexample. The theorem
`StaysOnScreen` has the hypothesis `Fits`, that the final number of lines is at most
the height, and `ShippedFits` discharges it for the program of `init.c`: 3 + 3 + (4 +
5 + 6) = 21 rows of 24. Without it the statement is false, because nothing in
`terminal_writestring` keeps `terminal_row` below the height.

For the refinement, `SchedulerPassesTurn` shows that the
slot the loop finds is the place nearest ahead on the ring; `CreateThread` then
maps to `Admit` (or a stutter, when no slot is free), `StartScheduler` to `Begin`,
`Slice` to `Work`, `Finish` to `Leave`, and `Enter` to a stutter.

### FIFOS-2

Slots, phase, work and round return as `SlotsInv`, `BootInv`, `ThreadInv`, `WorkInv`
and `RoundInv`; `scheduler` is three steps now, so `ChoiceInv` carries what it has
chosen from one to the next, and `FramesInv` says what the stacks the CPU is not on
look like: new, or inside the handler with the interrupt flag off.

The heart is what the lost flags do. `ret` in place of `iret` resumes a thread with IF
off, and it stays off until the `sti` after the next line, by when the next tick is
pending (`FlagsInv`: `At("sti") => irr`). So a turn begins with the flag off, prints
one line and ends right after the `sti`, in the loop's test: every turn but the
first is exactly one line (`TurnInv`), whatever the timer does. From this follow
both `FairShare` (the turns of two live threads differ by one, their first turns may
each be a line short) and `LeakBounded` (a turn leaks once). `LoopInv` is about the
divided `cmp` and `je`: the wrong value of ZF can end the loop only before the
first line, because later the two numbers differ anyway; that is `AllOrNothing`.
`MaskedInKernel` is `FlagsInv` read at the kernel's positions; its last
part holds because an interrupt is in service only up to the handler's first step.

### Keyboard

`KeysInv`: between its steps the handler has stored the last press; a set flag
tells of a key later than all that was reported to any call so far. `ModuleInv`:
a handler is registered as long as calls are inside, unless a load has failed.
`NoLostWakeup` and `KeyIsNew` need these and one another. With the polling driver
the presses that wait in the port are in order and later than every key read
(`PortInv`), a byte waits for the call that saw the status, as nobody else is let in
between (`StatusInv`), and `line` is the cardinality of the set of calls between
`disable_irq` and `enable_irq` (`LineInv`), which needs that this set is finite even
if there are infinitely many readers.

### Tables

The list is a chain of pointers that concurrent calls extend, cut off and walk over,
and `Steps`, the length of a walk, is the least number with a property, so the first
question is why a walk ends. `LinksInv` answers: tables are taken in the order of
their addresses and a link leads to a table taken later, so the addresses along
a walk increase and there are at most `MaxTables` of them. From it come the lemmas
about walks (`At`, `Listed`, `Steps`), and about what a new link at `last` makes of the
list: the tables up to `last`, then the new one, and nothing of what was linked
there in the meantime. Then:

* `PidInv`: a process that has not found its table has none in the list until it
  links one, as only it could. `OneTable` is the other half of it;
* `AloneInv`: a table built alone lies at or before the place where any call
  inside will link, so it is not cut off;
* `UnfinishedInv`: whoever finds a field that is not filled in, or a freed path,
  can name the call that is to blame, and that it is still inside;
* `CalmInv`: the table that is copied at rest is nobody's work, and what is copied
  so far equals it (`AtRest`);
* `FreshInv`: there is an address left for every call that will take one, a count
  of finite sets.

The invariant was checked by TLC on the instance of `ramdisk_tables` before it was
proved. Its proof showed two faults of an earlier form of the model: the guard
that bounds the tables counted calls that had theirs already, and with that
mended, `FaultsInCompany` as it stood was false (the one who changed the table
may be gone by the time the copy runs into it). Both are as described in section 2
now.

### Files

What the four properties need is a word for the whole of what a file has on the
disk. It is a tree `t[f]`, from places to blocks: the places are the numbers of the
data blocks, the single-indirect and the double-indirect block and the rows below it,
and every place has a slot, in the inode or in the block of another place
(`Root`, `Holder`, `Slot`). Then:

* `Sound`: `t` is what the slots of the disk hold, no block is at two places, all of
  them are in use, free blocks are zero;
* `Fills`: a file has just the places that its number of blocks asks for, so the slots
  that come next are empty; `Holds`: its words are what was written;
* `Lost`: what is in use at no place is nothing, as long as no file with index blocks
  was removed.

`Good` is all this of the disk and the inodes, `Stands` adds the descriptors, and
`IInv` says that the disk stands while the system is followed (`Running`) and that
`TypeOK` and `ReadsBack` hold, also in the last state. That there is such a tree is the
part of the invariant that TLC cannot enumerate; it checks what follows.

*Appending.* `AttachLemma` is about one new block at one new place: the tree with it is
sound and the others are as they were. `AllocateLemma` composes it to what
`allocate_block` does, one, two or three blocks in six cases, or the two ways in which
the counter wraps (`AtEdge`). `Going` is the invariant of the loop of `write_file`,
and `ReadLemma` that a `Good` file reads back: `switchAddress` finds the block that
`allocate_block` entered.

*Out of order.* A file that is written out of order loses its tree, and
`block_number` may be any number, so blocks are entered where others are or where no index
block is. `Rough` is what is left: the pointers of that file, and those in its index
blocks, lead to its own blocks, to free ones or nowhere, so every word goes to one of
these, and what others have is untouched. This is why `ReadsBack` holds "however
the other files were written".

*Removing.* `free_block` is loops over pointers that it zeroes as it goes. `Gone` says
that exactly some places have been given back; `Emptied` sums up the four sizes of a file.
The loop of nine gives back, and zeroes, the single-indirect block before its
pointers are read, so the blocks behind it are `Lost`; and when the file ends at
the edge of a level, the level behind is read through a pointer that is not there:
those are two of the edges of `FaultsAtEdges`.

The loops are folds of the community modules. `FoldTrace` turns a fold into the sequence
of its values, with `Upwards` an induction over that sequence is one over numbers.
`FilesAssumption` had no bound on `NumBlocks` before the proof: with more blocks than
the counter can hold, "at least one free" is not what the counter tests.

### Screens

The two programs on the screen are loops over sequences, and what they should have
computed is a fold: the offset of a region, the sum of the lengths, the row a text
starts on, the number that digits stand for. `FoldLemma` is about the folds of
`Sums` and `Value`: a fold over nothing is 0, and a last element is combined with
the fold of those before. It is proved from the library's definition, a recursive
function on the sets of places in the sequence, of which `FoldExists` shows that it
exists and `FoldsAgree` that it depends on nothing behind those places.

`RevLemma` does the same for the recursion of `revstr`, on the numbers below a word;
with `ReverseLemma` it gives `ToStringLemma`. Then:

* `MemInv`: the walk has come to the end of some region k, and row and sum are those
  of the first k. `OffsetsApart` (no two regions begin at one address) says that what
  is found there is the next one. The sum is right unless the sum so far exceeds a
  word, which is what `SizePrinted` excludes;
* `TermInv`: the place of the next character is, counted in cells, the start of the
  text being written plus the characters written (`Half`), every cell of the memory
  shows the character of the one text that is on it or is blank (`Drawn`,
  `OnePlace`). As long as all texts fit, the character behind the last one is
  in the window (`NextPlace`), so that the wrap to row 0 in `terminal_putchar` is not
  taken. At the new row, `RowUnique` turns the count of cells back into a row.
* `TypeOK`: the bound of `terminal_row`, which nothing in `terminal_writestring` keeps.
  `RowsInv` counts the rows that the text being written still takes (`RowsLeft`) with the
  row reached; the sum is at most `K` rows for each text so far, `K` being the most that
  one takes. `TypeCorrect` has the hypothesis that the video memory holds these rows:
  in the run, `K = 2`, and four texts have the 8 rows they need of the 10 there are.

For `MB = 1` the size would not fit a word when all of it is available; the
assumption `MB >= 2` came from the proof.

### Only model-checked

* Liveness: `AllDone` of both kernels, `KeyTaken`, the fairness of `RoundRobin`. It
  rests on weak fairness, and so on ENABLED, which the prover does not handle.
* The four violation runs: they are counterexamples.
* `Ramdisk`. Its invariants are about the paths of the runs, which lead through
  directories; a path through a regular file breaks the tree (section 2), so none of
  them holds for every value of the constants. A theorem needs the assumption that
  no path does so, which speaks of states and not of constants.

The provers here cannot instantiate the library's induction theorems, which take
an operator as a parameter. Where a proof needs an induction (the walk along the
list exists and ends, `AtLemma` and `WalkLemma`; the folds and the digits of
`Screens_proofs`; the loops of `RamdiskFiles_proofs`), it takes a least
counterexample instead, from `MinLemma`, `Least` or `Upwards`, for the one
statement that is needed.

## 6. Not modelled

* memos-1: BIOS calls in real mode, straight-line code that runs once and keeps
  nothing.
* The words of a context frame: `threadCreate` lays them out one by one and
  `switch_to` pops them; the model knows which context is in a frame and the flags
  in it. (A CPU that checks segment loads would fault on the DS that `switch_to`
  restores from a word of the frame that was never written.)
* The scan code tables of the keyboard drivers, the colour of single characters
  of memos-2, `terminal_setcolor` (never called), and the names and numbers in the
  texts of FIFOS.
* `check_pathname` of the user library, which trims and refuses strings before a
  call is made: a path is a record here, and every record stands for a path that
  passes. `openProcRandisk`; the tests, which are fixed sequences of calls.
* Index blocks together with directories: `RamdiskFiles` has no names, and in
  `Ramdisk` the allocator never gives a file more than the blocks 1 and 0.
* Failures of `vmalloc`, most of which the code does not look at.
* Makefiles, linker scripts, vendored headers.
* Interrupt 0x21 and the exception gates of FIFOS-2: their lines are masked by
  `initPIC`, and nothing in the program raises an exception.

Known differences that no property here depends on:

* `PathAfter`: where `cur_path` has fewer names than the "../" of the path, the code
  searches in front of its buffer `temppath`; the model keeps no name then.
* `Lseek` takes positions in or behind the file; the code takes negative ones as well,
  and follows them out of the file's blocks.
* `PutCell`: the code copies from the caller's memory under the lock, and would fault on
  a bad pointer or sleep on a page that is out; the copy succeeds at once here.
* `Inodes`: `my_inode` takes more than the 64 bytes of the layout, so that inodes with
  high numbers lie over the bitmap and the first blocks; the model keeps them apart, and
  its runs have few inodes.
* `KbdIrq`'s `Take` reads the key and copies it to the caller in one step; the copy may
  sleep, but nothing of the driver's state is read after it.
* `MemMap`'s row has no bound: a map of more regions than the screen has rows is written
  past its end.

## 7. Plan

Proved: FIFOS-1 with its refinement, FIFOS-2, both keyboard drivers, the tables and
the blocks of files of the RAM disk, the terminal and the memory map printer. What is
left, in this order:

1. `Ramdisk`: an assumption on the paths that lead through directories, stated of
   states, and `InodesAccounted` under it.
2. A bound on the lines of `RoundRobin` for any ring, as a step towards its
   fairness.
