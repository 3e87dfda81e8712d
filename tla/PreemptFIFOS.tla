---------------------------- MODULE PreemptFIFOS ----------------------------
(***************************************************************************)
(* FIFOS-2: the threads of FIFOS-1 without the yield, preempted by the     *)
(* timer.  A step of the model is an instruction, or a run of instructions *)
(* no interrupt can divide, so that a timer interrupt may come between any *)
(* two steps: the interrupt flag, its one-instruction delay after sti, the *)
(* request and in-service bits of the 8259 and the EFLAGS image on the     *)
(* stack are all state.                                                    *)
(*                                                                         *)
(* initPIT installs the C function timerInterruptHandler as the gate of    *)
(* vector 32, not timerInterruptHandler_assembly.  It returns with ret, so *)
(* the EFLAGS and CS that the CPU pushed stay on the stack, and the flags  *)
(* after the return are those that switch_to and the handler left.         *)
(***************************************************************************)
EXTENDS ThreadTable, Sequences

CONSTANTS Workloads,   \* the quotas to choose from, one sequence per program
          SpacedTicks  \* TRUE: at 100 Hz the timer ticks at most once while
                       \* code runs that does not sleep or spin; FALSE: it may
                       \* tick between any two instructions

ASSUME SpacedTicksAssumption == SpacedTicks \in BOOLEAN
ASSUME WorkloadsAssumption == Workloads \subseteq Seq(Nat \ {0})

VARIABLES
    quota,          \* the program: job f is to print quota[f] times
    created,        \* jobs threadCreate was called for so far
    tcb,            \* TCBArray
    currentThread,  \* index of the running thread, -1 before the first
    nextThread,     \* local of scheduler: its choice
    temp,           \* local of scheduler: the thread it switches away from
    esp,            \* the stack the CPU runs on: a job, or 0 for boot
    pc,             \* where the code on each stack is, or will resume
    ret,            \* where the handler on each stack returns to
    pushed,         \* the EFLAGS image the interrupt left on each stack
    savedIF,        \* IF in the EFLAGS image that switch_to left there
    leaked,         \* EFLAGS and CS pairs left behind on each stack
    IF_, ZF,        \* the flags of the CPU
    shadow,         \* the instruction after sti is still to be executed
    ticked,         \* with SpacedTicks: it ticked since the last delay
    irr, isr,       \* timer request pending, timer interrupt in service
    gates,          \* what boot has set up of "idt", "pic" and "pit"
    times, cond,    \* local of each job, and the constant compared with it
    slices,         \* ghost: how often each job has printed its name
    row             \* terminal_row

cpu == <<IF_, ZF, shadow>>
pic == <<irr, isr, ticked>>
sched == <<tcb, currentThread, nextThread, temp>>
frames == <<ret, pushed, savedIF, leaked>>
work == <<times, cond, slices>>
vars == <<quota, created, sched, esp, pc, frames, cpu, pic, gates, work, row>>

Jobs == DOMAIN quota
Boot == 0
Stacks == {Boot} \cup Jobs

\* terminal_writestring with a text shorter than a line: no wrap.
PrintLine == row' = row + 1

At(p) == pc[esp] = p
Goto(p) == pc' = [pc EXCEPT ![esp] = p]

Init ==
    /\ quota \in Workloads
    /\ created = 0
    /\ tcb = InitTCBArray
    /\ currentThread = -1 /\ nextThread = infinit /\ temp = -1
    /\ esp = Boot
    /\ pc = [s \in Stacks |-> IF s = Boot THEN "create" ELSE "unused"]
    /\ ret = [s \in Stacks |-> "unused"]
    /\ pushed = [s \in Stacks |-> [if |-> FALSE, zf |-> FALSE]]
    /\ savedIF = [s \in Stacks |-> FALSE]
    /\ leaked = [s \in Stacks |-> 0]
    /\ IF_ = FALSE /\ ZF = FALSE /\ shadow = FALSE    \* init starts with cli
    /\ irr \in BOOLEAN /\ isr = FALSE /\ ticked = FALSE
    /\ gates = {}
    /\ times = [f \in Jobs |-> 0]
    /\ cond = [f \in Jobs |-> 0]
    /\ slices = [f \in Jobs |-> 0]
    /\ row = 2                        \* the two lines of the welcome text

(***************************************************************************)
(* The boot code.                                                          *)
(***************************************************************************)
CreateThread ==
    /\ At("create")
    /\ created < Len(quota)
    /\ created' = created + 1
    /\ tcb' = ThreadCreate(tcb, created + 1)
    /\ IF tcb' = tcb
       THEN UNCHANGED <<pc, savedIF>>
       ELSE /\ pc' = [pc EXCEPT ![created + 1] = "fresh"]
            /\ savedIF' = [savedIF EXCEPT ![created + 1] = TRUE]   \* 0x202
    /\ PrintLine                      \* "created." or "failed."
    /\ UNCHANGED <<quota, currentThread, nextThread, temp, esp, ret, pushed,
                   leaked, cpu, pic, gates, work>>

\* initIDT loads the IDT, with the gates of the 32 exceptions only.
InitIDT ==
    /\ At("create") /\ created = Len(quota)
    /\ Goto("initPIC")
    /\ gates' = gates \cup {"idt"}
    /\ UNCHANGED <<quota, created, sched, esp, frames, cpu, pic, work, row>>

\* initPIC maps the timer to vector 32 and masks every other line; the
\* initialisation sequence clears the controller's requests.
InitPIC ==
    /\ At("initPIC")
    /\ Goto("initPIT")
    /\ gates' = gates \cup {"pic"}
    /\ irr' = FALSE /\ isr' = FALSE
    /\ UNCHANGED <<quota, created, sched, esp, frames, cpu, ticked, work, row>>

\* initPIT fills gate 32 and starts the timer at 100 Hz.
InitPIT ==
    /\ At("initPIT")
    /\ Goto("sti_boot")
    /\ gates' = gates \cup {"pit"}
    /\ UNCHANGED <<quota, created, sched, esp, frames, cpu, pic, work, row>>

SetInterruptFlag ==
    /\ IF_' = TRUE
    /\ shadow' = ~IF_
    /\ UNCHANGED ZF

StiBoot_forgotten ==
    /\ At("sti_boot")
    /\ Goto("spin")
    /\ UNCHANGED <<quota, created, sched, esp, frames, cpu, pic, gates, work, row>>

StiBoot ==
    /\ At("sti_boot")
    /\ Goto("spin")
    /\ SetInterruptFlag
    /\ UNCHANGED <<quota, created, sched, esp, frames, pic, gates, work, row>>

\* while(true){}
Spin ==
    /\ At("spin")
    /\ shadow' = FALSE
    /\ ticked' = (ticked /\ shadow)   \* from then on the loop is a delay
    /\ UNCHANGED <<quota, created, sched, esp, pc, frames, IF_, ZF, irr, isr,
                   gates, work, row>>

(***************************************************************************)
(* The thread functions.  The loop test compares times with quota, quota-1 *)
(* down to 1, one compare instruction and one conditional jump each.       *)
(***************************************************************************)
\* The ret of switch_to on a stack that threadCreate prepared.  popfl has
\* just enabled interrupts.  One that was taken here left CS and EFLAGS on
\* top of the function's address, and ret then jumps to where CS points.
Launch ==
    /\ At("fresh")
    /\ \/ leaked[esp] = 0 /\ Goto("entry")
       \/ leaked[esp] > 0 /\ Goto("wild")
    /\ UNCHANGED <<quota, created, sched, esp, frames, cpu, pic, gates, work, row>>

\* Whatever is executed at linear address 8, it is not this program.
Wild == At("wild") /\ UNCHANGED vars

Enter ==
    /\ At("entry")
    /\ Goto("compare")
    /\ times' = [times EXCEPT ![esp] = quota[esp]]
    /\ cond' = [cond EXCEPT ![esp] = quota[esp]]
    /\ UNCHANGED <<quota, created, sched, esp, frames, cpu, pic, gates, slices,
                   row>>

Compare ==
    /\ At("compare")
    /\ Goto("jump")
    /\ ZF' = (times[esp] = cond[esp])
    /\ shadow' = FALSE
    /\ UNCHANGED <<quota, created, sched, esp, frames, IF_, pic, gates, work,
                   row>>

Jump ==
    /\ At("jump")
    /\ \/ ZF /\ Goto("cli") /\ UNCHANGED cond
       \/ ~ZF /\ cond[esp] > 1 /\ Goto("compare")
              /\ cond' = [cond EXCEPT ![esp] = @ - 1]
       \/ ~ZF /\ cond[esp] = 1 /\ Goto("finish") /\ UNCHANGED cond
    /\ UNCHANGED <<quota, created, sched, esp, frames, cpu, pic, gates, times,
                   slices, row>>

Cli ==
    /\ At("cli")
    /\ Goto("body")
    /\ IF_' = FALSE
    /\ UNCHANGED <<quota, created, sched, esp, frames, ZF, shadow, pic, gates,
                   work, row>>

\* Print, function_sleep, count down.  The 80,000,000 iterations of the
\* sleep take longer than the 10 ms between two ticks, so a request is
\* pending at the end.
Body ==
    /\ At("body")
    /\ Goto("sti")
    /\ PrintLine
    /\ slices' = [slices EXCEPT ![esp] = @ + 1]
    /\ times' = [times EXCEPT ![esp] = @ - 1]
    /\ irr' = TRUE
    /\ ticked' = FALSE
    /\ UNCHANGED <<quota, created, sched, esp, frames, cpu, isr, gates, cond>>

\* The loop test compares times with the value it has, not with quota first.
Sti_tests_current ==
    /\ At("sti")
    /\ Goto("compare")
    /\ SetInterruptFlag
    /\ cond' = [cond EXCEPT ![esp] = Max({1, times[esp]})]
    /\ UNCHANGED <<quota, created, sched, esp, frames, pic, gates, times,
                   slices, row>>

Sti ==
    /\ At("sti")
    /\ Goto("compare")
    /\ SetInterruptFlag
    /\ cond' = [cond EXCEPT ![esp] = quota[esp]]
    /\ UNCHANGED <<quota, created, sched, esp, frames, pic, gates, times,
                   slices, row>>

\* functionFinish, up to its call of scheduler.
MarkFinished ==
    /\ At("finish")
    /\ Goto("unassign")
    /\ PrintLine                      \* "thread ... funished."
    /\ tcb' = [tcb EXCEPT ![currentThread].finished = 1]
    /\ UNCHANGED <<quota, created, currentThread, nextThread, temp, esp, frames,
                   cpu, pic, gates, work>>

MarkUnassigned ==
    /\ At("unassign")
    /\ Goto("select")
    /\ tcb' = [tcb EXCEPT ![currentThread].assigned = 0]
    /\ UNCHANGED <<quota, created, currentThread, nextThread, temp, esp, frames,
                   cpu, pic, gates, work, row>>

(***************************************************************************)
(* scheduler and switch_to.                                                *)
(***************************************************************************)
\* No test for "no thread left".
Select_unchecked ==
    /\ At("select")
    /\ nextThread' = NextThread(tcb, currentThread)
    /\ Goto("advance")
    /\ UNCHANGED <<quota, created, tcb, currentThread, temp, esp, frames, cpu,
                   pic, gates, work, row>>

Select ==
    /\ At("select")
    /\ nextThread' = NextThread(tcb, currentThread)
    /\ \/ nextThread' # infinit /\ Goto("advance") /\ UNCHANGED row
       \/ nextThread' = infinit /\ Goto("system_finish")
              /\ PrintLine            \* "All threads done"
    /\ UNCHANGED <<quota, created, tcb, currentThread, temp, esp, frames, cpu,
                   pic, gates, work>>

\* temp is read after currentThread was moved on.
Advance_late_temp ==
    /\ At("advance")
    /\ Goto("switch")
    /\ temp' = nextThread
    /\ currentThread' = nextThread
    /\ UNCHANGED <<quota, created, tcb, nextThread, esp, frames, cpu, pic, gates,
                   work, row>>

Advance ==
    /\ At("advance")
    /\ Goto("switch")
    /\ temp' = currentThread
    /\ currentThread' = nextThread
    /\ UNCHANGED <<quota, created, tcb, nextThread, esp, frames, cpu, pic, gates,
                   work, row>>

\* Save this context, unless it is the boot code's, and resume the other:
\* popfl loads its flags.  Neither a new frame nor one saved here, after
\* "testl %esi,%esi", has ZF set.
SwitchTo ==
    /\ At("switch")
    /\ Goto("return")
    /\ tcb' = SaveContext(tcb, temp, esp)
    /\ savedIF' = IF temp = -1 THEN savedIF ELSE [savedIF EXCEPT ![esp] = IF_]
    /\ esp' = tcb'[nextThread].stackPointer
    /\ IF_' = savedIF'[esp']
    /\ ZF' = FALSE
    /\ UNCHANGED <<quota, created, currentThread, nextThread, temp, ret, pushed,
                   leaked, shadow, pic, gates, work, row>>

\* The endless loop "system_finish: jmp system_finish".
SystemFinish == At("system_finish") /\ UNCHANGED vars

(***************************************************************************)
(* The timer interrupt.                                                    *)
(***************************************************************************)
\* The timer's edge latches a request; while one is pending it is lost.
Tick ==
    /\ ~irr /\ ~ticked
    /\ irr' = TRUE
    /\ ticked' = SpacedTicks
    /\ UNCHANGED <<quota, created, sched, esp, pc, frames, cpu, isr, gates, work,
                   row>>

InterruptDue == IF_ /\ ~shadow /\ irr /\ ~isr

\* A trap gate (0x8f) leaves IF on.
TimerInterrupt_trap_gate ==
    /\ InterruptDue
    /\ Goto("eoi")
    /\ irr' = FALSE /\ isr' = TRUE
    /\ ret' = [ret EXCEPT ![esp] = pc[esp]]
    /\ pushed' = [pushed EXCEPT ![esp] = [if |-> IF_, zf |-> ZF]]
    /\ UNCHANGED <<quota, created, sched, esp, savedIF, leaked, cpu, ticked, gates,
                   work, row>>

\* The CPU takes the interrupt between two instructions, through an
\* interrupt gate, which clears IF.  One return address for each stack is
\* enough as long as the handler is not interrupted itself: MaskedInKernel.
TimerInterrupt ==
    /\ InterruptDue
    /\ Goto("eoi")
    /\ irr' = FALSE /\ isr' = TRUE
    /\ ret' = [ret EXCEPT ![esp] = pc[esp]]
    /\ pushed' = [pushed EXCEPT ![esp] = [if |-> IF_, zf |-> ZF]]
    /\ IF_' = FALSE
    /\ UNCHANGED <<quota, created, sched, esp, savedIF, leaked, ZF, shadow,
                   ticked, gates, work, row>>

\* outb(0x20, 0x20), the first thing timerInterruptHandler does.
EndOfInterrupt ==
    /\ At("eoi")
    /\ Goto("select")
    /\ isr' = FALSE
    /\ UNCHANGED <<quota, created, sched, esp, frames, cpu, irr, ticked, gates,
                   work, row>>

\* The handler enables interrupts before its ret.
HandlerReturn_sti ==
    /\ At("return")
    /\ Goto(ret[esp])
    /\ leaked' = [leaked EXCEPT ![esp] = @ + 1]
    /\ IF_' = TRUE
    /\ UNCHANGED <<quota, created, sched, esp, ret, pushed, savedIF, ZF, shadow,
                   pic, gates, work, row>>

\* switch_to, scheduler and timerInterruptHandler return, the last one with
\* ret: the EFLAGS image is not popped.
HandlerReturn ==
    /\ At("return")
    /\ Goto(ret[esp])
    /\ leaked' = [leaked EXCEPT ![esp] = @ + 1]
    /\ UNCHANGED <<quota, created, sched, esp, ret, pushed, savedIF, cpu, pic,
                   gates, work, row>>

CpuStep ==
    /\ ~InterruptDue
    /\ \/ CreateThread \/ InitIDT \/ InitPIC \/ InitPIT \/ StiBoot \/ Spin
       \/ Launch \/ Wild \/ Enter \/ Compare \/ Jump \/ Cli \/ Body \/ Sti
       \/ MarkFinished \/ MarkUnassigned
       \/ Select \/ Advance \/ SwitchTo \/ SystemFinish
       \/ EndOfInterrupt \/ HandlerReturn

Next == CpuStep \/ TimerInterrupt \/ Tick

\* The CPU keeps executing, and takes an interrupt that is due; the timer
\* keeps ticking.
Spec == Init /\ [][Next]_vars
        /\ WF_vars(CpuStep) /\ WF_vars(TimerInterrupt) /\ WF_vars(Tick)

-----------------------------------------------------------------------------
(***************************************************************************)
(* Properties.                                                             *)
(***************************************************************************)
BootCode == {"create", "initPIC", "initPIT", "sti_boot", "spin"}
ThreadCode == {"fresh", "entry", "compare", "jump", "cli", "body", "sti", "finish"}
KernelCode == {"unassign", "select", "advance", "switch", "eoi", "return",
               "system_finish"}
Positions == BootCode \cup ThreadCode \cup KernelCode \cup {"unused", "wild"}

Live == {t \in Threads : Runnable(tcb, t)}
Owner(t) == tcb[t].function
Halted == At("system_finish")

\* Every variable has its type.
TypeOK ==
    /\ quota \in Workloads
    /\ created \in 0..Len(quota)
    /\ tcb \in [Threads -> [assigned : {0, 1}, finished : {0, 1},
                            function : Stacks, stackPointer : Stacks]]
    /\ currentThread \in Threads \cup {-1}
    /\ nextThread \in Threads \cup {infinit}
    /\ temp \in Threads \cup {-1}
    /\ esp \in Stacks
    /\ pc \in [Stacks -> Positions]
    /\ ret \in [Stacks -> Positions]
    /\ pushed \in [Stacks -> [if : BOOLEAN, zf : BOOLEAN]]
    /\ savedIF \in [Stacks -> BOOLEAN]
    /\ leaked \in [Stacks -> Nat]
    /\ IF_ \in BOOLEAN /\ ZF \in BOOLEAN /\ shadow \in BOOLEAN
    /\ irr \in BOOLEAN /\ isr \in BOOLEAN /\ ticked \in BOOLEAN
    /\ gates \subseteq {"idt", "pic", "pit"}
    /\ times \in [Jobs -> Int]
    /\ cond \in [Jobs -> Nat]
    /\ slices \in [Jobs -> Nat]
    /\ row \in Nat

\* Nothing protects scheduler, switch_to and functionFinish but the state of
\* IF they happen to be entered with: it is off in all of them, as it is in
\* the boot code until the timer's gate, the controller and the threads are
\* ready.  And where it is on the timer gets through: the interrupt that led to a
\* switch has been acknowledged, though its handler may never return.
MaskedInKernel ==
    IF_ => /\ At("spin") \/ pc[esp] \in ThreadCode
           /\ gates = {"idt", "pic", "pit"}
           /\ created = Len(quota)
           /\ ~isr

\* A preemption never mixes up two threads: code of a thread runs on the
\* stack of the thread currentThread says is running, and every other live
\* thread's TCB points into its own stack, to a context that will resume.
StacksKeptApart ==
    /\ \A t \in Live : tcb[t].stackPointer = Owner(t)
    /\ pc[esp] \in ThreadCode =>
          currentThread \in Live /\ esp = Owner(currentThread)
    /\ \A t \in Live : Owner(t) # esp => pc[Owner(t)] \in {"fresh", "return"}

\* Between preemptions at any instruction, round robin stays fair: of two
\* threads that still run, neither is more than two lines ahead.  (A tick in
\* the first instructions of a thread costs it one turn.)
FairShare ==
    \A t, u \in Live : slices[Owner(t)] <= slices[Owner(u)] + 2

\* Though ret in place of iret loses the flags a loop test has just set, a
\* thread never prints more than its quota, and when it has finished it has
\* printed all of it, or nothing.
AllOrNothing ==
    \A t \in Threads : Owner(t) # Boot =>
        LET f == Owner(t) IN
        /\ slices[f] <= quota[f]
        /\ tcb[t].finished = 1 => slices[f] \in {0, quota[f]}

\* Each preemption leaves two words on the thread's stack for good.  They do
\* not pile up: at most one pair for each line printed and one more.
LeakBounded ==
    \A f \in Jobs : leaked[f] <= slices[f] + 1

\* The system gets to "All threads done".  The only other end is the wild return
\* of Launch: a tick between popfl and ret of switch_to, on a new stack.
AllDone == <>(Halted \/ At("wild"))

(***************************************************************************)
(* What comments and the readme say of the program and it does not do.     *)
(***************************************************************************)
\* "function1 print <1>  3 times" (init.c:85): a thread that has finished
\* has printed its quota.
ExactQuota ==
    \A t \in Threads :
        Owner(t) # Boot /\ tcb[t].finished = 1 => slices[Owner(t)] = quota[Owner(t)]
=============================================================================
