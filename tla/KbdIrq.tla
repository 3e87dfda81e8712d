------------------------------ MODULE KbdIrq ------------------------------
(***************************************************************************)
(* The keyboard driver with interrupts, KBD_module.c: readers sleep in an   *)
(* ioctl until the handler of interrupt 1 reports a key.  The key and the   *)
(* flag are shared and no lock protects them.                               *)
(*                                                                         *)
(* A key is the number of its press, so that two presses of the same key    *)
(* differ; 0 is the KBD_key of a driver that has seen none.  The release of *)
(* a key changes nothing and is not a step.  The handler may run on another *)
(* processor, so it is a step for each thing it does.  Readers hold the big *)
(* kernel lock, except where they may sleep: in the tty write of my_printk  *)
(* and in wait_event_interruptible.                                         *)
(*                                                                         *)
(* The module is loaded and removed around the calls.  remove_proc_entry    *)
(* waits for the calls inside, free_irq for the handler; nothing waits when *)
(* a load fails.  Each load starts from fresh variables.                    *)
(***************************************************************************)
EXTENDS Naturals, FiniteSets

CONSTANTS
    Readers,
    MaxPresses,     \* bound: keys pressed
    Newlines        \* the presses of the enter key

ASSUME KbdAssumption == MaxPresses \in Nat /\ Newlines \subseteq Nat

VARIABLES
    presses,        \* keys that the handler has seen
    KBD_key,        \* the last key the handler has stored
    ev_press,       \* the flag: a key is there
    isr,            \* the handler: "none", "stored" the key, "flagged" it
    wq,             \* the readers in the wait queue
    pc,             \* of each reader
    signalled,      \* of each reader: a signal is pending
    key,            \* of each reader: what its last call returned
    reported,       \* history, of each reader: presses flagged before its call
    image,          \* the module: "out", "loading", "in", "leaving"
    entry,          \* the proc entry leads into the module
    irq,            \* ir_getchar is registered
    stale,          \* a load that failed has left its proc entry
    fault           \* code was run that is no longer there

module == <<image, entry, irq, stale, fault>>
vars == <<presses, KBD_key, ev_press, isr, wq, pc, signalled, key, reported, module>>

Init ==
    /\ presses = 0 /\ KBD_key = 0 /\ ev_press = 0 /\ isr = "none" /\ wq = {}
    /\ pc = [r \in Readers |-> "user"]
    /\ signalled = [r \in Readers |-> FALSE]
    /\ key = [r \in Readers |-> 0]
    /\ reported = [r \in Readers |-> 0]
    /\ image = "out" /\ entry = FALSE /\ irq = FALSE
    /\ stale = FALSE /\ fault = FALSE

-----------------------------------------------------------------------------
(* ir_getchar.                                                             *)

StoreKey ==
    /\ irq /\ isr = "none" /\ presses < MaxPresses
    /\ presses' = presses + 1
    /\ KBD_key' = presses'
    /\ isr' = "stored"
    /\ UNCHANGED <<ev_press, wq, pc, signalled, key, reported, module>>

\* Mutant: the flag counts presses.
SetFlag_counted ==
    /\ isr = "stored"
    /\ ev_press' = ev_press + 1
    /\ isr' = "flagged"
    /\ UNCHANGED <<presses, KBD_key, wq, pc, signalled, key, reported, module>>

\* Mutant: the sleepers are woken before the flag is set.
SetFlag_after_wake ==
    /\ isr \in {"stored", "woken"}
    /\ IF isr = "stored" THEN isr' = "woken" /\ wq' = {} /\ UNCHANGED ev_press
                         ELSE isr' = "none" /\ ev_press' = 1 /\ UNCHANGED wq
    /\ UNCHANGED <<presses, KBD_key, pc, signalled, key, reported, module>>

SetFlag ==
    /\ isr = "stored"
    /\ ev_press' = 1
    /\ isr' = "flagged"
    /\ UNCHANGED <<presses, KBD_key, wq, pc, signalled, key, reported, module>>

WakeUp ==
    /\ isr = "flagged"
    /\ wq' = {}
    /\ isr' = "none"
    /\ UNCHANGED <<presses, KBD_key, ev_press, pc, signalled, key, reported, module>>

-----------------------------------------------------------------------------
(* pseudo_device_ioctl.                                                    *)

\* The big kernel lock: nobody else is between two places where it sleeps.
HasLock(r) == \A q \in Readers \ {r} : pc[q] \notin {"test", "queued", "clear", "take"}

Flagged == IF isr = "stored" THEN presses - 1 ELSE presses

\* Mutant: the flag of an earlier key is left set.
Enter_keeps_flag(r) ==
    /\ pc[r] = "user" /\ HasLock(r) /\ entry
    /\ pc' = [pc EXCEPT ![r] = "print"]
    /\ reported' = [reported EXCEPT ![r] = Flagged]
    /\ UNCHANGED <<presses, KBD_key, ev_press, isr, wq, signalled, key, module>>

Enter(r) ==
    /\ pc[r] = "user" /\ HasLock(r) /\ entry
    /\ ev_press' = 0
    /\ pc' = [pc EXCEPT ![r] = "print"]
    /\ reported' = [reported EXCEPT ![r] = Flagged]
    /\ UNCHANGED <<presses, KBD_key, isr, wq, signalled, key, module>>

Printed(r) ==
    /\ pc[r] = "print" /\ HasLock(r)
    /\ pc' = [pc EXCEPT ![r] = "test"]
    /\ UNCHANGED <<presses, KBD_key, ev_press, isr, wq, signalled, key, reported, module>>

\* Any other command has cleared the flag too.
NoCommand(r) ==
    /\ pc[r] = "print" /\ HasLock(r)
    /\ pc' = [pc EXCEPT ![r] = "user"]
    /\ signalled' = [signalled EXCEPT ![r] = FALSE]
    /\ UNCHANGED <<presses, KBD_key, ev_press, isr, wq, key, reported, module>>

\* wait_event_interruptible: test, queue, test again, sleep, and once more.
Test(r) ==
    /\ pc[r] = "test"
    /\ IF ev_press = 1
       THEN pc' = [pc EXCEPT ![r] = "clear"] /\ UNCHANGED wq
       ELSE pc' = [pc EXCEPT ![r] = "queued"] /\ wq' = wq \cup {r}
    /\ UNCHANGED <<presses, KBD_key, ev_press, isr, signalled, key, reported, module>>

Retest(r) ==
    /\ pc[r] = "queued"
    /\ IF ev_press = 1 \/ signalled[r]
       THEN pc' = [pc EXCEPT ![r] = "clear"] /\ wq' = wq \ {r}
       ELSE pc' = [pc EXCEPT ![r] = "asleep"] /\ UNCHANGED wq
    /\ UNCHANGED <<presses, KBD_key, ev_press, isr, signalled, key, reported, module>>

Wake(r) ==
    /\ pc[r] = "asleep" /\ HasLock(r)
    /\ r \notin wq \/ signalled[r]
    /\ pc' = [pc EXCEPT ![r] = "queued"]
    /\ wq' = wq \cup {r}
    /\ UNCHANGED <<presses, KBD_key, ev_press, isr, signalled, key, reported, module>>

Clear(r) ==
    /\ pc[r] = "clear"
    /\ ev_press' = 0
    /\ pc' = [pc EXCEPT ![r] = "take"]
    /\ UNCHANGED <<presses, KBD_key, isr, wq, signalled, key, reported, module>>

\* The program asks for keys until one is a newline.
After(k) == IF k \in Newlines THEN "done" ELSE "user"

\* The result of the wait is not looked at.  Back in user mode the process
\* handles its signal.
Take(r) ==
    /\ pc[r] = "take"
    /\ key' = [key EXCEPT ![r] = KBD_key]
    /\ pc' = [pc EXCEPT ![r] = After(KBD_key)]
    /\ signalled' = [signalled EXCEPT ![r] = FALSE]
    /\ UNCHANGED <<presses, KBD_key, ev_press, isr, wq, reported, module>>

Signal(r) ==
    /\ pc[r] \in {"print", "test", "queued", "asleep"} /\ ~signalled[r]
    /\ signalled' = [signalled EXCEPT ![r] = TRUE]
    /\ UNCHANGED <<presses, KBD_key, ev_press, isr, wq, pc, key, reported, module>>

-----------------------------------------------------------------------------
(* The module.                                                             *)

Inside(r) == pc[r] \notin {"user", "done"}
calls == <<presses, isr, wq, pc, signalled, key, reported>>

\* initialization_routine: the entry.  Where there is none, the kernel keeps
\* the module, for the 1 that is returned is no error of its own.
CreateEntry ==
    /\ image = "out"
    /\ KBD_key' = 0 /\ ev_press' = 0
    /\ \/ image' = "loading" /\ entry' = TRUE
       \/ image' = "in" /\ entry' = FALSE
    /\ UNCHANGED <<calls, irq, stale, fault>>

\* The handler.  A module whose load fails goes, with whoever is inside it.
RequestIrq ==
    /\ image = "loading"
    /\ \/ image' = "in" /\ irq' = TRUE /\ UNCHANGED <<entry, stale, fault>>
       \/ /\ image' = "out" /\ entry' = FALSE /\ stale' = TRUE
          /\ fault' = \E r \in Readers : Inside(r)
          /\ UNCHANGED irq
    /\ UNCHANGED <<calls, KBD_key, ev_press>>

\* A call by way of the entry left behind.
EnterStale(r) ==
    /\ stale /\ pc[r] = "user"
    /\ fault' = TRUE
    /\ UNCHANGED <<calls, KBD_key, ev_press, image, entry, irq, stale>>

\* cleanup_routine.
\* Mutant: the handler goes before the entry.
RemoveEntry_handler_first ==
    /\ image = "in" /\ isr = "none"
    /\ image' = "leaving" /\ entry' = FALSE /\ irq' = FALSE
    /\ UNCHANGED <<calls, KBD_key, ev_press, stale, fault>>

RemoveEntry ==
    /\ image = "in"
    /\ image' = "leaving" /\ entry' = FALSE
    /\ UNCHANGED <<calls, KBD_key, ev_press, irq, stale, fault>>

FreeIrq ==
    /\ image = "leaving" /\ isr = "none"
    /\ \A r \in Readers : ~Inside(r)
    /\ image' = "out" /\ irq' = FALSE
    /\ UNCHANGED <<calls, KBD_key, ev_press, entry, stale, fault>>

-----------------------------------------------------------------------------

Handler == StoreKey \/ SetFlag \/ WakeUp
Reader(r) ==
    \/ Enter(r) \/ Printed(r) \/ NoCommand(r)
    \/ Test(r) \/ Retest(r) \/ Wake(r)
    \/ Clear(r) \/ Take(r)
Module == CreateEntry \/ RequestIrq \/ RemoveEntry \/ FreeIrq

Next ==
    /\ ~fault
    /\ \/ Handler
       \/ \E r \in Readers : Reader(r) \/ Signal(r) \/ EnterStale(r)
       \/ Module

\* The handler runs to its end, and a reader inside the call goes on.
Fairness ==
    /\ WF_vars(~fault /\ (SetFlag \/ WakeUp))
    /\ \A r \in Readers : WF_vars(~fault /\ Reader(r) /\ pc[r] # "user")

Spec == Init /\ [][Next]_vars /\ Fairness

-----------------------------------------------------------------------------

TypeOK ==
    /\ presses \in 0 .. MaxPresses
    /\ KBD_key \in 0 .. presses /\ ev_press \in {0, 1}
    /\ isr \in {"none", "stored", "flagged"}
    /\ wq \subseteq {r \in Readers : pc[r] \in {"queued", "asleep"}}
    /\ pc \in [Readers -> {"user", "print", "test", "queued", "asleep", "clear", "take", "done"}]
    /\ signalled \in [Readers -> BOOLEAN]
    /\ key \in [Readers -> 0 .. MaxPresses] /\ reported \in [Readers -> 0 .. MaxPresses]
    /\ image \in {"out", "loading", "in", "leaving"}
    /\ entry \in BOOLEAN /\ irq \in BOOLEAN /\ stale \in BOOLEAN /\ fault \in BOOLEAN

\* No lost wake-up between ir_getchar (KBD_module.c:104) and the wait: a reader
\* is never left asleep in the queue when the flag is set and nobody is about
\* to wake it.
NoLostWakeup ==
    \A r \in Readers :
        pc[r] = "asleep" /\ r \in wq /\ ev_press = 1 => isr = "flagged"

\* A call does not return a key of before the call: unless a signal cut the
\* wait short, what it takes is a press reported after it began, whatever the
\* calls of others cleared meanwhile (KBD_module.c:117-124).
KeyIsNew ==
    \A r \in Readers :
        pc[r] \in {"clear", "take"} /\ ~signalled[r] => KBD_key > reported[r]

\* The handler outlives the calls: whoever waits for a key has one registered that
\* can wake it, or the load has not come to that yet, and the code of the module is
\* there while a call or the handler runs in it.  Only a load that failed leaves a way
\* into code that is gone (KBD_module.c:45-55, 75-76).
CallsServed ==
    /\ fault => stale
    /\ ~fault => \A r \in Readers :
        /\ Inside(r) => image # "out"
        /\ pc[r] \in {"test", "queued", "asleep"} => irq \/ image = "loading"
    /\ isr # "none" => irq

\* A key that is there while a reader sleeps is taken by a reader, unless the
\* start of another call throws it away (KBD_module.c:117) or the kernel dies.
KeyTaken ==
    (ev_press = 1 /\ \E r \in Readers : pc[r] = "asleep")
        ~> (fault \/ \E r \in Readers : pc[r] \in {"take", "print"})
=============================================================================
