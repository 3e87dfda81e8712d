----------------------------- MODULE CoopFIFOS -----------------------------
(***************************************************************************)
(* FIFOS-1: threads that yield to each other, scheduled round robin, with  *)
(* interrupts off (threadCreate gives them an EFLAGS image without IF).    *)
(* Nothing runs between two context switches but the thread itself, so a   *)
(* step of the model is what one context does until it gives up the CPU.   *)
(*                                                                         *)
(* The program creates three threads that print their name 3, 4 and 5      *)
(* times.  Here job f prints quota[f] times, and there may be more jobs    *)
(* than TCBs, so that the failing branch of threadCreate runs too.         *)
(***************************************************************************)
EXTENDS ThreadTable, Sequences

CONSTANT Workloads    \* the quotas to choose from, one sequence per program

ASSUME WorkloadsAssumption == Workloads \subseteq Seq(Nat)

VARIABLES
    quota,          \* the program: job f is to print quota[f] times
    created,        \* jobs threadCreate was called for so far
    tcb,            \* TCBArray
    currentThread,  \* index of the running thread, -1 before the first
    esp,            \* the stack the CPU runs on: a job, or 0 for boot
    pc,             \* where the code on each stack is, or will resume
    times,          \* the local variable of each job's function
    slices,         \* ghost: how often each job has printed its name
    row             \* terminal_row

vars == <<quota, created, tcb, currentThread, esp, pc, times, slices, row>>

Jobs == DOMAIN quota
Boot == 0
Stacks == {Boot} \cup Jobs

VGA_HEIGHT == 24

PrintLines_double(k) == row' = row + 2 * k

\* terminal_writestring: every string of the program is shorter than a
\* line, and the row then moves on without a check against VGA_HEIGHT.
PrintLines(k) == row' = row + k

Init ==
    /\ quota \in Workloads
    /\ created = 0
    /\ tcb = InitTCBArray
    /\ currentThread = -1
    /\ esp = Boot
    /\ pc = [s \in Stacks |-> IF s = Boot THEN "init" ELSE "unused"]
    /\ times = [f \in Jobs |-> 0]
    /\ slices = [f \in Jobs |-> 0]
    /\ row = 2                        \* the two lines of the welcome text

(***************************************************************************)
(* The boot code.                                                          *)
(***************************************************************************)
CreateThread ==
    /\ pc[esp] = "init"
    /\ created < Len(quota)
    /\ created' = created + 1
    /\ tcb' = ThreadCreate(tcb, created + 1)
    /\ pc' = IF tcb' = tcb THEN pc ELSE [pc EXCEPT ![created + 1] = "fresh"]
    /\ PrintLines(1)                  \* "created." or "failed."
    /\ UNCHANGED <<quota, currentThread, esp, times, slices>>

\* temp is read after currentThread was moved on.
Scheduler_late_temp(tab, at, k) ==
    LET next == NextThread(tab, currentThread) IN
    /\ next # infinit
    /\ currentThread' = next
    /\ tcb' = SaveContext(tab, next, esp)
    /\ esp' = tcb'[next].stackPointer
    /\ pc' = [pc EXCEPT ![esp] = at]
    /\ PrintLines(k)

\* The tail call of scheduler() with the TCB array tab and the code of the
\* caller's stack left at position at, after the caller printed k lines.
Scheduler(tab, at, k) ==
    LET next == NextThread(tab, currentThread) IN
    \/ /\ next = infinit
       /\ pc' = [pc EXCEPT ![esp] = "system_finish"]
       /\ tcb' = tab
       /\ PrintLines(k + 1)           \* "All threads done"
       /\ UNCHANGED <<currentThread, esp>>
    \/ /\ next # infinit
       /\ currentThread' = next
       /\ tcb' = SaveContext(tab, currentThread, esp)
       /\ esp' = tcb'[next].stackPointer
       /\ pc' = [pc EXCEPT ![esp] = at]
       /\ PrintLines(k)

StartScheduler ==
    /\ pc[esp] = "init"
    /\ created = Len(quota)
    /\ Scheduler(tcb, "abandoned", 0)
    /\ UNCHANGED <<quota, created, times, slices>>

(***************************************************************************)
(* The thread functions.                                                   *)
(***************************************************************************)
\* A context built by threadCreate starts its function.
Enter ==
    /\ pc[esp] = "fresh"
    /\ pc' = [pc EXCEPT ![esp] = "loop"]
    /\ times' = [times EXCEPT ![esp] = quota[esp]]
    /\ UNCHANGED <<quota, created, tcb, currentThread, esp, slices, row>>

\* The loop runs "while(times >= 0)".
Slice_once_more ==
    /\ pc[esp] = "loop"
    /\ times[esp] >= 0
    /\ times' = [times EXCEPT ![esp] = @ - 1]
    /\ slices' = [slices EXCEPT ![esp] = @ + 1]
    /\ Scheduler(tcb, "loop", 1)
    /\ UNCHANGED <<quota, created>>

\* One round of the loop: print, count down, functionYield.
Slice ==
    /\ pc[esp] = "loop"
    /\ times[esp] # 0
    /\ times' = [times EXCEPT ![esp] = @ - 1]
    /\ slices' = [slices EXCEPT ![esp] = @ + 1]
    /\ Scheduler(tcb, "loop", 1)
    /\ UNCHANGED <<quota, created>>

MarkFinished_forgotten(tab) == [tab EXCEPT ![currentThread].assigned = 1]

\* functionFinish marks the slot of the current thread, not of its caller.
MarkFinished(tab) ==
    [tab EXCEPT ![currentThread].finished = 1, ![currentThread].assigned = 0]

Finish ==
    /\ pc[esp] = "loop"
    /\ times[esp] = 0
    /\ Scheduler(MarkFinished(tcb), "gone", 1)
    /\ UNCHANGED <<quota, created, times, slices>>

\* The endless loop "system_finish: jmp system_finish".
SystemFinish == pc[esp] = "system_finish" /\ UNCHANGED vars

Next == CreateThread \/ StartScheduler \/ Enter \/ Slice \/ Finish
            \/ SystemFinish

\* The CPU keeps executing instructions.
Spec == Init /\ [][Next]_vars /\ WF_vars(Next)

-----------------------------------------------------------------------------
(***************************************************************************)
(* Properties.                                                             *)
(***************************************************************************)
Positions == {"init", "unused", "fresh", "loop", "gone", "abandoned",
              "system_finish"}

Live == {t \in Threads : Runnable(tcb, t)}
Halted == pc[esp] = "system_finish"
Owner(t) == tcb[t].function

\* Every variable has its type.
TypeOK ==
    /\ quota \in Workloads
    /\ created \in 0..Len(quota)
    /\ tcb \in [Threads -> [assigned : {0, 1}, finished : {0, 1},
                            function : Stacks, stackPointer : Stacks]]
    /\ currentThread \in Threads \cup {-1}
    /\ esp \in Stacks
    /\ pc \in [Stacks -> Positions]
    /\ times \in [Jobs -> Nat]
    /\ slices \in [Jobs -> Nat]
    /\ row \in Nat

\* A context switch never mixes up two threads: the TCB of a live thread
\* points into the stack of its own function, no two live threads share a
\* stack, and the CPU runs on the stack of the thread that scheduler calls
\* the current one.
StacksKeptApart ==
    /\ \A t \in Live : tcb[t].stackPointer = Owner(t)
    /\ \A t, u \in Live : t # u => Owner(t) # Owner(u)
    /\ esp # Boot /\ ~Halted => currentThread \in Live /\ esp = Owner(currentThread)

\* Round robin is fair at every moment: of two threads that both still run,
\* neither has printed more than one line more than the other.
FairShare ==
    \A t, u \in Live : slices[Owner(t)] <= slices[Owner(u)] + 1

\* "function1 print <1>  3 times" (init.c:87): when the system stops, every
\* job that got a TCB has printed exactly its quota, and a job for which
\* threadCreate failed has printed nothing.
ExactQuota ==
    Halted => \A f \in Jobs : slices[f] = IF f <= N THEN quota[f] ELSE 0

\* The rows written stay on the screen, though terminal_writestring does
\* not wrap.
ScreenFits == row <= VGA_HEIGHT

\* The system gets to "All threads done".
AllDone == <>Halted

(***************************************************************************)
(* FIFOS-1 implements the abstract round robin: the work left at a place   *)
(* is what the thread's loop still has to print.                           *)
(***************************************************************************)
WorkLeft == [t \in Threads |->
                IF t \notin Live THEN -1
                ELSE IF pc[Owner(t)] = "fresh" THEN quota[Owner(t)]
                ELSE times[Owner(t)]]

Turn == IF Halted THEN N ELSE currentThread

RR == INSTANCE RoundRobin WITH work <- WorkLeft, turn <- Turn

RoundRobinSpec == RR!Spec
=============================================================================
