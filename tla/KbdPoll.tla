------------------------------ MODULE KbdPoll ------------------------------
(***************************************************************************)
(* The machine with either of the keyboard drivers: that of KbdIrq, or the  *)
(* polling one, KBD_module_noIR.c.  They register the same proc entry and   *)
(* the same command, so one of the two is in use, from the start on.        *)
(*                                                                         *)
(* The polling driver switches interrupt 1 off and reads the port itself    *)
(* until it has a key, the status first and then the data; what serialises  *)
(* this is the big kernel lock alone.  With the interrupt on, what is typed *)
(* goes to the kernel's own handler.  A key is the number of its press as   *)
(* before; 0 is the release of any.                                         *)
(***************************************************************************)
EXTENDS KbdIrq, Sequences

CONSTANT PortSize       \* bound: bytes that wait in the keyboard

ASSUME PortAssumption == PortSize \in Nat

VARIABLES
    driver,         \* "irq" or "poll"
    port,           \* the bytes that wait, first to last
    latch,          \* the byte that the data port gave last
    line            \* how often interrupt 1 is switched off

polling == <<driver, port, latch, line>>
system == <<vars, polling>>
sleeping == <<KBD_key, ev_press, isr, wq, signalled, reported>>

SystemInit ==
    /\ Init
    /\ driver \in {"irq", "poll"} /\ port = <<>> /\ latch = 0 /\ line = 0

-----------------------------------------------------------------------------
(* The keyboard and the kernel.                                            *)

Press ==
    /\ presses < MaxPresses /\ Len(port) < PortSize
    /\ presses' = presses + 1
    /\ port' = Append(port, presses')
    /\ UNCHANGED <<sleeping, pc, key, module, driver, latch, line>>

Release ==
    /\ Len(port) < PortSize
    /\ port' = Append(port, 0)
    /\ UNCHANGED <<vars, driver, latch, line>>

\* The data port gives the byte that waits first; with none, its last one again.
Data == IF port = <<>> THEN latch ELSE Head(port)

ReadData ==
    /\ latch' = Data
    /\ port' = IF port = <<>> THEN port ELSE Tail(port)

KernelTakes ==
    /\ line = 0 /\ port # <<>>
    /\ ReadData
    /\ UNCHANGED <<vars, driver, line>>

-----------------------------------------------------------------------------
(* pseudo_device_ioctl and my_getchar.                                     *)

\* The big kernel lock, dropped where the call may sleep: while it prints and copies.
\* Mutant: the driver registers its call as one that needs no lock.
PollLock_none(r) == TRUE
PollLock(r) == \A q \in Readers \ {r} : pc[q] \notin {"poll", "data"}

PollEnter(r) ==
    /\ pc[r] = "user" /\ entry /\ PollLock(r)
    /\ pc' = [pc EXCEPT ![r] = "print"]
    /\ UNCHANGED <<presses, sleeping, key, module, polling>>

\* Mutant: the default branch, where every command ends, switches the interrupt on.
PollCommand_enables(r) ==
    /\ pc[r] = "print" /\ PollLock(r)
    /\ \/ pc' = [pc EXCEPT ![r] = "poll"] /\ line' = line + 1
       \/ pc' = [pc EXCEPT ![r] = "user"] /\ line' = line - 1
    /\ UNCHANGED <<presses, sleeping, key, module, driver, port, latch>>

PollCommand(r) ==
    /\ pc[r] = "print" /\ PollLock(r)
    /\ \/ pc' = [pc EXCEPT ![r] = "poll"] /\ line' = line + 1
       \/ pc' = [pc EXCEPT ![r] = "user"] /\ UNCHANGED line
    /\ UNCHANGED <<presses, sleeping, key, module, driver, port, latch>>

\* my_getchar: the status says that a byte waits, ...
PollStatus(r) ==
    /\ pc[r] = "poll" /\ port # <<>> /\ PollLock(r)
    /\ pc' = [pc EXCEPT ![r] = "data"]
    /\ UNCHANGED <<presses, sleeping, key, module, polling>>

\* ... and the data port is read, until the byte is a press.
PollData(r) ==
    /\ pc[r] = "data" /\ PollLock(r)
    /\ ReadData
    /\ IF Data = 0
       THEN pc' = [pc EXCEPT ![r] = "poll"] /\ UNCHANGED key
       ELSE /\ pc' = [pc EXCEPT ![r] = "copy"]
            /\ key' = [key EXCEPT ![r] = Data]
    /\ UNCHANGED <<presses, sleeping, module, driver, line>>

\* -EINVAL, by the missing break, though the key has been copied.
PollReturn(r) ==
    /\ pc[r] = "copy" /\ PollLock(r)
    /\ pc' = [pc EXCEPT ![r] = After(key[r])]
    /\ line' = line - 1
    /\ UNCHANGED <<presses, sleeping, key, module, driver, port, latch>>

-----------------------------------------------------------------------------
(* The module.                                                             *)

PollLoad ==
    /\ image = "out"
    /\ image' = "in" /\ entry' \in BOOLEAN
    /\ UNCHANGED <<presses, sleeping, pc, key, irq, stale, fault, polling>>

PollRemove ==
    /\ image = "in"
    /\ image' = "leaving" /\ entry' = FALSE
    /\ UNCHANGED <<presses, sleeping, pc, key, irq, stale, fault, polling>>

PollGone ==
    /\ image = "leaving" /\ \A r \in Readers : ~Inside(r)
    /\ image' = "out"
    /\ UNCHANGED <<presses, sleeping, pc, key, entry, irq, stale, fault, polling>>
-----------------------------------------------------------------------------

PollReader(r) ==
    PollEnter(r) \/ PollCommand(r) \/ PollStatus(r) \/ PollData(r) \/ PollReturn(r)

SystemNext ==
    \/ driver = "irq" /\ Next /\ UNCHANGED polling
    \/ /\ driver = "poll"
       /\ \/ Press \/ Release \/ KernelTakes
          \/ \E r \in Readers : PollReader(r)
          \/ PollLoad \/ PollRemove \/ PollGone

\* As for KbdIrq; a call that polls goes on while there are bytes.
SystemFairness ==
    /\ WF_system(driver = "irq" /\ ~fault /\ (SetFlag \/ WakeUp) /\ UNCHANGED polling)
    /\ \A r \in Readers :
        /\ WF_system(driver = "irq" /\ ~fault /\ pc[r] # "user" /\ Reader(r) /\ UNCHANGED polling)
        /\ WF_system(driver = "poll" /\ (PollStatus(r) \/ PollData(r) \/ PollReturn(r)))

System == SystemInit /\ [][SystemNext]_system /\ SystemFairness

-----------------------------------------------------------------------------

SystemTypeOK ==
    /\ driver = "irq" => TypeOK /\ port = <<>> /\ latch = 0 /\ line = 0
    /\ driver = "poll" =>
        /\ pc \in [Readers -> {"user", "print", "poll", "data", "copy", "done"}]
        /\ key \in [Readers -> 0 .. presses] /\ presses \in 0 .. MaxPresses
        /\ port \in Seq(0 .. presses) /\ latch \in 0 .. presses /\ line \in Nat
        /\ image \in {"out", "in", "leaving"} /\ entry \in BOOLEAN /\ ~irq /\ ~fault

\* Whatever number of calls overlap, the interrupt is off as often as calls poll or
\* copy a key, and on when they have left: enable_irq undoes disable_irq also where the
\* missing break runs on into the error (KBD_module_noIR.c:94-101).
LineBalanced ==
    line = Cardinality({r \in Readers : pc[r] \in {"poll", "data", "copy"}})

\* Polling calls share the presses: each is read by one call at most, and a call reads a
\* later press than all calls before it (KBD_module_noIR.c:81).
KeysInOrder ==
    [][driver = "poll" =>
        \A r \in Readers : key'[r] # key[r] => \A q \in Readers : key'[r] > key[q]]_system
=============================================================================
