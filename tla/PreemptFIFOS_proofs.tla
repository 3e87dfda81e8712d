------------------------ MODULE PreemptFIFOS_proofs ------------------------
(***************************************************************************)
(* Proofs about PreemptFIFOS, for every number of TCBs and every program,   *)
(* wherever the timer ticks.                                               *)
(*                                                                         *)
(* A thread's turn begins when switch_to loads its stack and ends with the  *)
(* interrupt that takes the CPU from it.  All but the first begin with IF   *)
(* off, for ret does not restore it, and no interrupt comes before the sti  *)
(* after the next line printed; the first may end before a line.  What that *)
(* makes of the loop's locals, of the leaked words and of the lines printed *)
(* is LoopInv, FlagsInv and TurnInv; RoundInv counts the turns of threads   *)
(* against each other.                                                     *)
(***************************************************************************)
EXTENDS PreemptFIFOS, ThreadTable_proofs

TCB == [assigned : {0, 1}, finished : {0, 1},
        function : Stacks, stackPointer : Stacks]

\* From the interrupt to the return of the handler, unless scheduler was called by
\* functionFinish.
HandlerCode == {"eoi", "select", "advance", "switch", "return"}

\* Where IF may be on in a thread function.
OpenCode == {"fresh", "entry", "compare", "jump", "cli"}
LoopCode == {"compare", "jump", "cli", "body", "sti", "finish"}

\* Where a thread's function is, or will go on.
Position(f) == IF pc[f] \in HandlerCode THEN ret[f] ELSE pc[f]

\* Jobs get the slots in the order of their creation; a slot is free, live or
\* finished, or functionFinish is at work on it.
SlotsInv ==
    \A t \in Threads :
        IF t < created
        THEN /\ tcb[t].function = t + 1
             /\ tcb[t].stackPointer = t + 1
             /\ tcb[t].assigned = 1 /\ tcb[t].finished = 1
                    <=> t = currentThread /\ At("unassign")
             /\ tcb[t].assigned = 0 => tcb[t].finished = 1
        ELSE /\ tcb[t].function = 0
             /\ tcb[t].assigned = 0
             /\ tcb[t].finished = 1

\* While the boot code or its interrupt runs, no thread has.
BootInv ==
    esp = Boot =>
        /\ pc[Boot] \in BootCode \cup {"eoi", "select", "advance", "switch", "system_finish"}
        /\ At("switch") => temp = -1
        /\ ~At("switch") => currentThread = -1
        /\ ~At("create") => created = Len(quota)
        /\ At("create") => gates = {}
        /\ At("initPIC") => gates = {"idt"}
        /\ At("initPIT") => gates = {"idt", "pic"}
        /\ ~At("create") /\ ~At("initPIC") /\ ~At("initPIT") => gates = {"idt", "pic", "pit"}
        /\ \A t \in Threads : t < created => t \in Live /\ pc[t + 1] = "fresh"

\* Later the CPU is on the stack of the current thread, or of the one that is being
\* switched away from.
ThreadInv ==
    esp # Boot =>
        /\ created = Len(quota) /\ gates = {"idt", "pic", "pit"}
        /\ pc[esp] \in ThreadCode \cup KernelCode \cup {"wild"}
        /\ At("switch") => temp \in Threads /\ temp < created /\ esp = temp + 1
        /\ ~At("switch") => /\ currentThread \in Threads /\ currentThread < created
                            /\ esp = currentThread + 1
        /\ pc[esp] \in ThreadCode \cup {"wild", "eoi", "return"} => currentThread \in Live

\* What scheduler has chosen, from its choice to the switch.
ChoiceInv ==
    /\ At("advance") =>
        /\ nextThread \in Live
        /\ \A t \in Between(currentThread, nextThread) : t \notin Live
    /\ At("switch") => nextThread \in Live /\ currentThread = nextThread
    /\ Halted => Live = {}

\* The stacks the CPU is not on.
FramesInv ==
    /\ \A t \in Threads : t < created /\ t + 1 # esp =>
        \/ pc[t + 1] = "fresh" /\ savedIF[t + 1] /\ leaked[t + 1] = 0
        \/ pc[t + 1] = "return" /\ ~savedIF[t + 1]
    /\ \A f \in Jobs : f > created \/ f > N => leaked[f] = 0 /\ slices[f] = 0
    /\ \A f \in Jobs : slices[f] <= quota[f]

\* How far a live thread has got in its function.
LoopInv(f) ==
    /\ Position(f) \in ThreadCode \cup {"wild"}
    /\ pc[f] \in HandlerCode => ret[f] \in OpenCode
    /\ Position(f) \in {"fresh", "entry", "wild"} => slices[f] = 0
    /\ Position(f) \in LoopCode => times[f] + slices[f] = quota[f] /\ cond[f] \in 1 .. quota[f]
    /\ Position(f) = "compare" /\ slices[f] > 0 => times[f] <= cond[f]
    /\ pc[f] = "jump" => /\ ZF => times[f] = cond[f]
                         /\ ~ZF /\ slices[f] > 0 => times[f] < cond[f]
    /\ pc[f] \in HandlerCode /\ ret[f] = "jump" /\ slices[f] > 0 => times[f] < cond[f]
    /\ Position(f) \in {"cli", "body"} => times[f] > 0
    /\ Position(f) = "sti" => slices[f] > 0
    /\ Position(f) = "finish" => slices[f] = 0 \/ times[f] = 0

WorkInv ==
    \A t \in Threads : t < created =>
        IF t \in Live THEN LoopInv(t + 1)
        ELSE /\ slices[t + 1] \in {0, quota[t + 1]}
             /\ leaked[t + 1] <= slices[t + 1] + 1

\* IF is off except where FlagsInv says; where it is on after a line was printed, the
\* request that came in the meantime is pending.
FlagsInv ==
    /\ IF_ => At("spin") \/ pc[esp] \in OpenCode
    /\ isr => At("eoi")
    /\ shadow => At("spin") \/ At("compare")
    /\ At("return") => ~ZF
    /\ IF_ => gates = {"idt", "pic", "pit"} /\ created = Len(quota)
    /\ At("sti") => irr
    /\ IF_ /\ pc[esp] \in {"compare", "jump"} => cond[esp] = quota[esp]
    /\ IF_ /\ pc[esp] \in OpenCode /\ slices[esp] > 0 => pc[esp] \in {"compare", "jump"} /\ irr
    /\ IF_ /\ At("jump") /\ slices[esp] = 0 => ZF

\* The turns of a thread that have ended: each return to it leaks once.
Turns(f) == leaked[f] + (IF pc[f] \in HandlerCode THEN 1 ELSE 0)

\* The line of this turn has been printed.
Printed(f) == f = esp /\ (pc[f] = "sti" \/ (IF_ /\ slices[f] > 0))

\* A turn is a line, but for the first, which may have none.
TurnInv ==
    \A t \in Live :
        /\ slices[t + 1] <= Turns(t + 1) + (IF Printed(t + 1) THEN 1 ELSE 0)
        /\ Turns(t + 1) <= slices[t + 1] + 1
        /\ Printed(t + 1) \/ (t + 1 = esp /\ IF_) => Turns(t + 1) <= slices[t + 1]

\* The current turn is over once its interrupt has been taken.
HasHadTurn(t) ==
    \/ t < currentThread
    \/ t = currentThread /\ pc[esp] \in {"eoi", "select", "advance"}

\* In each round every live thread has one turn, in the order of the slots.
RoundInv ==
    \A t, u \in Live :
        /\ (HasHadTurn(t) <=> HasHadTurn(u)) => Turns(t + 1) = Turns(u + 1)
        /\ HasHadTurn(t) /\ ~HasHadTurn(u) => Turns(t + 1) = Turns(u + 1) + 1

IInv ==
    /\ TypeOK /\ SlotsInv /\ BootInv /\ ThreadInv /\ ChoiceInv
    /\ FramesInv /\ WorkInv /\ FlagsInv /\ TurnInv /\ RoundInv

-----------------------------------------------------------------------------
\* What the typing says of the constants and of the program.
LEMMA ProgramFacts ==
    ASSUME TypeOK
    PROVE  /\ N \in Nat /\ N > 0
           /\ quota \in Seq(Nat \ {0})
           /\ Len(quota) \in Nat
           /\ Jobs = 1 .. Len(quota)
           /\ Stacks = 0 .. Len(quota)
           /\ \A f \in Jobs : quota[f] \in Nat /\ quota[f] > 0
<1>1. N \in Nat /\ N > 0
  BY NAssumption DEF infinit
<1>2. quota \in Seq(Nat \ {0})
  BY WorkloadsAssumption DEF TypeOK
<1>3. \A f \in Jobs : quota[f] \in Nat \ {0}
  BY <1>2 DEF Jobs
<1> QED BY <1>1, <1>2, <1>3 DEF Jobs, Stacks, Boot

\* Where the stack of a thread is, and the context on it when it does not run.
LEMMA SlotFacts ==
    ASSUME IInv, NEW t \in Threads, t < created
    PROVE  /\ t \in Nat /\ t + 1 \in Jobs /\ t + 1 # Boot /\ t + 1 <= N
           /\ t + 1 # esp => pc[t + 1] \in {"fresh", "return"}
<1>1. /\ N \in Nat /\ Len(quota) \in Nat /\ Jobs = 1 .. Len(quota)
      /\ created \in 0 .. Len(quota)
  BY ProgramFacts DEF IInv, TypeOK
<1>2. t + 1 # esp => pc[t + 1] \in {"fresh", "return"}
  BY DEF IInv, FramesInv
<1> QED BY <1>1, <1>2 DEF Threads, Boot

\* Every live thread has been created.
LEMMA LiveFacts ==
    ASSUME IInv, NEW t \in Live
    PROVE  t \in Threads /\ t < created
<1>1. t \in Threads /\ tcb[t].assigned = 1
  BY DEF Live, Runnable
<1>2. t < created
  BY <1>1 DEF IInv, SlotsInv
<1> QED BY <1>1, <1>2

\* While code of a thread or the beginning of its interrupt runs, or the end of it,
\* the CPU is on the stack of the current thread.
LEMMA RunningFacts ==
    ASSUME IInv, esp # Boot, pc[esp] \in ThreadCode \cup {"wild", "eoi", "return"}
    PROVE  /\ currentThread \in Threads /\ currentThread \in Live
           /\ currentThread < created /\ created = Len(quota)
           /\ esp = currentThread + 1 /\ esp \in Jobs
           /\ gates = {"idt", "pic", "pit"}
           /\ LoopInv(esp)
<1>1. /\ currentThread \in Threads /\ currentThread \in Live
      /\ currentThread < created /\ created = Len(quota)
      /\ esp = currentThread + 1 /\ gates = {"idt", "pic", "pit"}
  BY DEF IInv, ThreadInv, ThreadCode, At
<1>2. esp \in Jobs
  BY <1>1, SlotFacts
<1>3. LoopInv(esp)
  BY <1>1 DEF IInv, WorkInv
<1> QED BY <1>1, <1>2, <1>3

\* The boot code is not a thread's.
LEMMA ThreadCodeOffBoot ==
    ASSUME IInv, pc[esp] \in ThreadCode \cup {"wild", "unassign", "return"}
    PROVE  esp # Boot
  BY DEF IInv, BootInv, ThreadCode, BootCode

\* A step that leaves a thread's context and locals alone leaves it where it was.
LEMMA LoopFrame ==
    ASSUME NEW f, LoopInv(f), pc[f] # "jump",
           UNCHANGED <<pc[f], ret[f], times[f], cond[f], slices[f], quota>>
    PROVE  LoopInv(f)'
  BY DEF LoopInv, Position

\* A step of the current thread's function.
LEMMA ThreadStep ==
    ASSUME IInv, pc[esp] \in ThreadCode,
           NEW p \in ThreadCode \cup {"wild"}, pc' = [pc EXCEPT ![esp] = p],
           UNCHANGED <<quota, created, sched, esp, frames, gates>>,
           \A f \in Jobs : f # esp => UNCHANGED <<times[f], cond[f], slices[f]>>,
           TypeOK', FlagsInv', LoopInv(esp)',
           slices'[esp] <= quota[esp],
           slices'[esp] <= leaked[esp] + (IF Printed(esp)' THEN 1 ELSE 0),
           leaked[esp] <= slices'[esp] + 1,
           Printed(esp)' \/ IF_' => leaked[esp] <= slices'[esp]
    PROVE  IInv'
<1>1. /\ currentThread \in Threads /\ currentThread \in Live
      /\ currentThread < created /\ created = Len(quota)
      /\ esp = currentThread + 1 /\ esp \in Jobs /\ esp # Boot
      /\ gates = {"idt", "pic", "pit"}
  BY RunningFacts, ThreadCodeOffBoot
<1>2. /\ pc \in [Stacks -> Positions] /\ Jobs = 1 .. Len(quota) /\ Stacks = 0 .. Len(quota)
      /\ N \in Nat /\ Len(quota) \in Nat /\ esp \in Stacks
      /\ leaked \in [Stacks -> Nat]
  BY ProgramFacts DEF IInv, TypeOK
<1>3. /\ UNCHANGED <<quota, created, tcb, currentThread, nextThread, temp, esp,
                     ret, savedIF, leaked, gates>>
      /\ Live' = Live /\ Jobs' = Jobs
  BY DEF sched, frames, Live, Runnable, Jobs
<1>4. pc'[esp] = p /\ \A s \in Stacks : s # esp => pc'[s] = pc[s]
  BY <1>2
<1>5. /\ pc[esp] \notin HandlerCode \cup {"unassign", "system_finish"}
      /\ p \notin HandlerCode \cup {"unassign", "system_finish"}
  BY DEF ThreadCode, HandlerCode
<1>6. SlotsInv'
  BY <1>3, <1>4, <1>5 DEF IInv, SlotsInv, At
<1>7. BootInv' /\ ThreadInv'
  BY <1>1, <1>3, <1>4, <1>5 DEF BootInv, ThreadInv, HandlerCode, At
<1>8. ChoiceInv'
  BY <1>3, <1>4, <1>5 DEF ChoiceInv, HandlerCode, Halted, At
<1>9. FramesInv'
  <2>1. \A t \in Threads : t < created /\ t + 1 # esp => pc'[t + 1] = pc[t + 1]
    BY <1>2, <1>4, SlotFacts
  <2>2. \A f \in Jobs : slices'[f] <= quota[f]
    BY DEF IInv, FramesInv
  <2>3. esp <= created /\ esp <= N
    BY <1>1, <1>2 DEF Threads
  <2>4. \A f \in Jobs : f > created \/ f > N => slices'[f] = slices[f]
    BY <1>1, <1>2, <2>3
  <2> QED BY <1>3, <2>1, <2>2, <2>4 DEF IInv, FramesInv
<1>10. WorkInv'
  <2> SUFFICES ASSUME NEW t \in Threads, t < created
               PROVE  IF t \in Live THEN LoopInv(t + 1)'
                      ELSE /\ slices'[t + 1] \in {0, quota[t + 1]}
                           /\ leaked[t + 1] <= slices'[t + 1] + 1
    BY <1>3 DEF WorkInv
  <2>0. CASE t + 1 = esp
    <3>1. t = currentThread
      BY <1>1, <1>2, <2>0 DEF Threads
    <3> QED BY <1>1, <2>0, <3>1
  <2>1. t + 1 # esp =>
          t + 1 \in Jobs /\ pc[t + 1] \in {"fresh", "return"} /\ pc'[t + 1] = pc[t + 1]
    BY <1>2, <1>4, SlotFacts
  <2>2. CASE t + 1 # esp /\ t \in Live
    BY <1>3, <2>1, <2>2, LoopFrame DEF IInv, WorkInv
  <2>3. CASE t + 1 # esp /\ t \notin Live
    BY <1>3, <2>1, <2>3 DEF IInv, WorkInv
  <2> QED BY <2>0, <2>2, <2>3
<1>11. \A t \in Live : /\ Turns(t + 1)' = Turns(t + 1)
                       /\ t + 1 # esp => /\ Printed(t + 1)' = Printed(t + 1)
                                         /\ slices'[t + 1] = slices[t + 1]
  <2> SUFFICES ASSUME NEW t \in Live
               PROVE  /\ Turns(t + 1)' = Turns(t + 1)
                      /\ t + 1 # esp => /\ Printed(t + 1)' = Printed(t + 1)
                                        /\ slices'[t + 1] = slices[t + 1]
    OBVIOUS
  <2>1. t + 1 \in Jobs
    BY LiveFacts, SlotFacts
  <2> QED BY <1>2, <1>3, <1>4, <1>5, <2>1 DEF Turns, Printed
<1>12. TurnInv'
  <2> SUFFICES ASSUME NEW t \in Live
               PROVE  /\ slices'[t + 1] <= Turns(t + 1)' + (IF Printed(t + 1)' THEN 1 ELSE 0)
                      /\ Turns(t + 1)' <= slices'[t + 1] + 1
                      /\ Printed(t + 1)' \/ (t + 1 = esp /\ IF_') =>
                            Turns(t + 1)' <= slices'[t + 1]
    BY <1>3 DEF TurnInv
  <2>1. CASE t + 1 = esp
    <3>1. Turns(esp)' = leaked[esp]
      BY <1>2, <1>3, <1>4, <1>5 DEF Turns
    <3> QED BY <2>1, <3>1
  <2>2. CASE t + 1 # esp
    BY <1>11, <2>2 DEF IInv, TurnInv, Printed
  <2> QED BY <2>1, <2>2
<1>13. RoundInv'
  <2>1. \A t \in Live : HasHadTurn(t)' = HasHadTurn(t)
    BY <1>3, <1>4, <1>5 DEF HasHadTurn, HandlerCode
  <2> QED BY <1>3, <1>11, <2>1 DEF IInv, RoundInv
<1> QED BY <1>6, <1>7, <1>8, <1>9, <1>10, <1>12, <1>13 DEF IInv

\* What the invariant says of the thread that runs.
LEMMA CurrentFacts ==
    ASSUME IInv, pc[esp] \in ThreadCode
    PROVE  /\ esp \in Jobs /\ esp \in Stacks /\ esp # Boot
           /\ times[esp] \in Int /\ cond[esp] \in Nat
           /\ slices[esp] \in Nat /\ leaked[esp] \in Nat
           /\ quota[esp] \in Nat /\ quota[esp] > 0
           /\ slices[esp] <= quota[esp]
           /\ LoopInv(esp) /\ Position(esp) = pc[esp]
           /\ slices[esp] <= leaked[esp] + (IF Printed(esp) THEN 1 ELSE 0)
           /\ leaked[esp] <= slices[esp] + 1
           /\ Printed(esp) \/ IF_ => leaked[esp] <= slices[esp]
           /\ created = Len(quota) /\ gates = {"idt", "pic", "pit"}
<1>1. /\ currentThread \in Live /\ esp = currentThread + 1 /\ esp \in Jobs /\ esp # Boot
      /\ created = Len(quota) /\ gates = {"idt", "pic", "pit"} /\ LoopInv(esp)
  BY RunningFacts, ThreadCodeOffBoot
<1>2. pc[esp] \notin HandlerCode
  BY DEF ThreadCode, HandlerCode
<1>3. Turns(esp) = leaked[esp] /\ Position(esp) = pc[esp]
  <2>1. leaked \in [Stacks -> Nat] /\ esp \in Stacks
    BY DEF IInv, TypeOK
  <2> QED BY <1>2, <2>1 DEF Turns, Position
<1>4. /\ slices[esp] <= Turns(esp) + (IF Printed(esp) THEN 1 ELSE 0)
      /\ Turns(esp) <= slices[esp] + 1
      /\ Printed(esp) \/ IF_ => Turns(esp) <= slices[esp]
  BY <1>1 DEF IInv, TurnInv
<1>5. /\ esp \in Stacks /\ times[esp] \in Int /\ cond[esp] \in Nat
      /\ slices[esp] \in Nat /\ leaked[esp] \in Nat
  BY <1>1 DEF IInv, TypeOK
<1>6. quota[esp] \in Nat /\ quota[esp] > 0 /\ slices[esp] <= quota[esp]
  BY <1>1, ProgramFacts DEF IInv, FramesInv
<1> QED BY <1>1, <1>3, <1>4, <1>5, <1>6

\* A new stack is left for its function, unless an interrupt was taken on it.
LEMMA LaunchPreserves == IInv /\ Launch => IInv'
<1> SUFFICES ASSUME IInv, Launch PROVE IInv'
  OBVIOUS
<1>1. pc[esp] = "fresh" /\ pc[esp] \in ThreadCode
  BY DEF Launch, At, ThreadCode
<1>2. PICK p \in {"entry", "wild"} : /\ pc' = [pc EXCEPT ![esp] = p]
                                     /\ p = "entry" <=> leaked[esp] = 0
  BY <1>1, CurrentFacts DEF Launch, Goto
<1>3. /\ UNCHANGED <<quota, created, sched, esp, frames, gates, times, cond, slices, row>>
      /\ UNCHANGED <<IF_, ZF, shadow, irr, isr, ticked>>
      /\ Jobs' = Jobs /\ Stacks' = Stacks
  BY DEF Launch, cpu, pic, work, Jobs, Stacks
<1>4. slices[esp] = 0 /\ esp \in Stacks /\ pc \in [Stacks -> Positions]
  BY <1>1, CurrentFacts DEF LoopInv, IInv, TypeOK
<1>5. pc'[esp] = p
  BY <1>2, <1>4
<1>6. TypeOK'
  BY <1>2, <1>3, <1>4 DEF IInv, TypeOK, sched, frames, Positions, ThreadCode
<1>7. IF_ => p = "entry"
  BY <1>1, <1>2, <1>4, CurrentFacts
<1>8. FlagsInv'
  BY <1>1, <1>3, <1>4, <1>5, <1>7 DEF IInv, FlagsInv, At, OpenCode
<1>9. LoopInv(esp)'
  BY <1>3, <1>4, <1>5 DEF LoopInv, Position, ThreadCode, HandlerCode, LoopCode
<1>10. ~Printed(esp) /\ ~Printed(esp)'
  BY <1>1, <1>3, <1>4, <1>5 DEF Printed
<1> QED BY <1>1, <1>2, <1>3, <1>6, <1>8, <1>9, <1>10, CurrentFacts, ThreadStep
         DEF ThreadCode

\* The locals of a function start at its quota.
LEMMA EnterPreserves == IInv /\ Enter => IInv'
<1> SUFFICES ASSUME IInv, Enter PROVE IInv'
  OBVIOUS
<1>1. pc[esp] = "entry" /\ pc[esp] \in ThreadCode
  BY DEF Enter, At, ThreadCode
<1>2. /\ pc' = [pc EXCEPT ![esp] = "compare"]
      /\ times' = [times EXCEPT ![esp] = quota[esp]]
      /\ cond' = [cond EXCEPT ![esp] = quota[esp]]
      /\ UNCHANGED <<quota, created, sched, esp, frames, gates, slices, row>>
      /\ UNCHANGED <<IF_, ZF, shadow, irr, isr, ticked>>
      /\ Jobs' = Jobs /\ Stacks' = Stacks
  BY DEF Enter, Goto, cpu, pic, Jobs, Stacks
<1>3. /\ pc \in [Stacks -> Positions] /\ times \in [Jobs -> Int] /\ cond \in [Jobs -> Nat]
      /\ esp \in Stacks /\ esp \in Jobs /\ quota[esp] \in Nat /\ quota[esp] > 0
  BY <1>1, CurrentFacts DEF IInv, TypeOK
<1>4. slices[esp] = 0
  BY <1>1, CurrentFacts DEF LoopInv
<1>5. pc'[esp] = "compare" /\ times'[esp] = quota[esp] /\ cond'[esp] = quota[esp]
  BY <1>2, <1>3
<1>6. TypeOK'
  <2>1. pc' \in [Stacks -> Positions] /\ times' \in [Jobs -> Int] /\ cond' \in [Jobs -> Nat]
    BY <1>2, <1>3 DEF Positions, ThreadCode
  <2> QED BY <1>2, <2>1 DEF IInv, TypeOK, sched, frames
<1>7. FlagsInv'
  BY <1>1, <1>2, <1>4, <1>5 DEF IInv, FlagsInv, At, OpenCode
<1>8. LoopInv(esp)'
  BY <1>2, <1>3, <1>4, <1>5 DEF LoopInv, Position, ThreadCode, HandlerCode, LoopCode
<1>9. ~Printed(esp) /\ ~Printed(esp)'
  BY <1>1, <1>2, <1>4, <1>5 DEF Printed
<1>10. \A f \in Jobs : f # esp => UNCHANGED <<times[f], cond[f], slices[f]>>
  BY <1>2, <1>3
<1> QED BY <1>1, <1>2, <1>6, <1>7, <1>8, <1>9, <1>10, CurrentFacts, ThreadStep
         DEF ThreadCode

\* The compare instruction of the loop test.
LEMMA ComparePreserves == IInv /\ Compare => IInv'
<1> SUFFICES ASSUME IInv, Compare PROVE IInv'
  OBVIOUS
<1>1. pc[esp] = "compare" /\ pc[esp] \in ThreadCode
  BY DEF Compare, At, ThreadCode
<1>2. /\ pc' = [pc EXCEPT ![esp] = "jump"]
      /\ ZF' = (times[esp] = cond[esp]) /\ shadow' = FALSE
      /\ UNCHANGED <<quota, created, sched, esp, frames, gates, times, cond, slices, row>>
      /\ UNCHANGED <<IF_, irr, isr, ticked>>
      /\ Jobs' = Jobs /\ Stacks' = Stacks
  BY DEF Compare, Goto, pic, work, Jobs, Stacks
<1>3. /\ pc \in [Stacks -> Positions] /\ esp \in Stacks
      /\ times[esp] \in Int /\ cond[esp] \in Nat /\ slices[esp] \in Nat
      /\ quota[esp] \in Nat /\ LoopInv(esp) /\ Position(esp) = "compare"
  BY <1>1, CurrentFacts DEF IInv, TypeOK
<1>4. /\ times[esp] + slices[esp] = quota[esp] /\ cond[esp] \in 1 .. quota[esp]
      /\ slices[esp] > 0 => times[esp] <= cond[esp]
  BY <1>3 DEF LoopInv, LoopCode
<1>5. pc'[esp] = "jump"
  BY <1>2, <1>3
<1>6. TypeOK'
  BY <1>2, <1>3 DEF IInv, TypeOK, sched, frames, Positions, ThreadCode
<1>7. ZF' <=> times[esp] = cond[esp]
  BY <1>2
<1>8. /\ esp' = esp /\ IF_' = IF_ /\ shadow' = FALSE /\ isr' = isr /\ irr' = irr
       /\ UNCHANGED <<gates, created, quota>>
       /\ UNCHANGED <<times[esp], cond[esp], slices[esp]>>
  BY <1>2
<1>9. FlagsInv'
  <2>1. IF_ => cond[esp] = quota[esp]
    BY <1>1 DEF IInv, FlagsInv, At
  <2> QED
    BY <1>1, <1>3, <1>4, <1>5, <1>7, <1>8, <2>1 DEF IInv, FlagsInv, At, OpenCode
<1>10. LoopInv(esp)'
  BY <1>3, <1>4, <1>5, <1>7, <1>8 DEF LoopInv, Position, ThreadCode, HandlerCode, LoopCode
<1>11. Printed(esp)' <=> Printed(esp)
  BY <1>1, <1>2, <1>5 DEF Printed
<1> QED BY <1>1, <1>2, <1>6, <1>9, <1>10, <1>11, CurrentFacts, ThreadStep
         DEF ThreadCode

\* The jump: with IF on, a thread that has printed is interrupted before it, so that
\* only the first test of all can be made with IF on, and that one succeeds.
LEMMA JumpPreserves == IInv /\ Jump /\ ~InterruptDue => IInv'
<1> SUFFICES ASSUME IInv, Jump, ~InterruptDue PROVE IInv'
  OBVIOUS
<1>1. pc[esp] = "jump" /\ pc[esp] \in ThreadCode
  BY DEF Jump, At, ThreadCode
<1>2. /\ UNCHANGED <<quota, created, sched, esp, frames, gates, times, slices, row>>
      /\ UNCHANGED <<IF_, ZF, shadow, irr, isr, ticked>>
      /\ Jobs' = Jobs /\ Stacks' = Stacks
  BY DEF Jump, cpu, pic, work, Jobs, Stacks
<1>3. /\ pc \in [Stacks -> Positions] /\ cond \in [Jobs -> Nat]
      /\ esp \in Stacks /\ esp \in Jobs
      /\ times[esp] \in Int /\ cond[esp] \in Nat /\ slices[esp] \in Nat
      /\ quota[esp] \in Nat /\ LoopInv(esp) /\ Position(esp) = "jump"
      /\ slices[esp] <= quota[esp]
  BY <1>1, CurrentFacts DEF IInv, TypeOK
<1>4. /\ times[esp] + slices[esp] = quota[esp] /\ cond[esp] \in 1 .. quota[esp]
      /\ ZF => times[esp] = cond[esp]
      /\ ~ZF /\ slices[esp] > 0 => times[esp] < cond[esp]
  BY <1>1, <1>3 DEF LoopInv, LoopCode
<1>5. IF_ => slices[esp] = 0 /\ ZF
  BY <1>1, <1>3 DEF IInv, FlagsInv, InterruptDue, At, OpenCode
<1>6. PICK p \in {"cli", "compare", "finish"} :
        /\ pc' = [pc EXCEPT ![esp] = p]
        /\ p = "cli" => ZF /\ cond' = cond
        /\ p = "compare" => ~ZF /\ cond[esp] > 1 /\ cond' = [cond EXCEPT ![esp] = @ - 1]
        /\ p = "finish" => ~ZF /\ cond[esp] = 1 /\ cond' = cond
  BY DEF Jump, Goto
<1>7. pc'[esp] = p
  BY <1>3, <1>6
<1>8. /\ cond' \in [Jobs -> Nat]
      /\ \A f \in Jobs : f # esp => cond'[f] = cond[f]
      /\ cond'[esp] \in 1 .. quota[esp]
      /\ p = "compare" => cond'[esp] = cond[esp] - 1
  BY <1>3, <1>4, <1>6
<1>9. TypeOK'
  <2>1. pc' \in [Stacks -> Positions]
    BY <1>3, <1>6 DEF Positions, ThreadCode
  <2> QED BY <1>2, <1>8, <2>1 DEF IInv, TypeOK, sched, frames
<1>10. FlagsInv'
  BY <1>1, <1>2, <1>5, <1>6, <1>7 DEF IInv, FlagsInv, At, OpenCode
<1>11. LoopInv(esp)'
  <2>1. CASE p = "cli"
    BY <1>2, <1>3, <1>4, <1>6, <1>7, <1>8, <2>1
       DEF LoopInv, Position, ThreadCode, HandlerCode, LoopCode
  <2>2. CASE p = "compare"
    BY <1>2, <1>3, <1>4, <1>6, <1>7, <1>8, <2>2
       DEF LoopInv, Position, ThreadCode, HandlerCode, LoopCode
  <2>3. CASE p = "finish"
    BY <1>2, <1>3, <1>4, <1>6, <1>7, <1>8, <2>3
       DEF LoopInv, Position, ThreadCode, HandlerCode, LoopCode
  <2> QED BY <2>1, <2>2, <2>3
<1>12. ~Printed(esp) /\ ~Printed(esp)'
  BY <1>1, <1>2, <1>3, <1>5, <1>6, <1>7 DEF Printed
<1> QED BY <1>1, <1>2, <1>3, <1>6, <1>8, <1>9, <1>10, <1>11, <1>12, CurrentFacts, ThreadStep
         DEF ThreadCode

\* IF is on at cli at most before the first line.
LEMMA CliPreserves == IInv /\ Cli => IInv'
<1> SUFFICES ASSUME IInv, Cli PROVE IInv'
  OBVIOUS
<1>1. pc[esp] = "cli" /\ pc[esp] \in ThreadCode
  BY DEF Cli, At, ThreadCode
<1>2. /\ pc' = [pc EXCEPT ![esp] = "body"] /\ IF_' = FALSE
      /\ UNCHANGED <<quota, created, sched, esp, frames, gates, times, cond, slices, row>>
      /\ UNCHANGED <<ZF, shadow, irr, isr, ticked>>
      /\ Jobs' = Jobs /\ Stacks' = Stacks
  BY DEF Cli, Goto, pic, work, Jobs, Stacks
<1>3. /\ pc \in [Stacks -> Positions] /\ esp \in Stacks
      /\ slices[esp] \in Nat /\ LoopInv(esp) /\ Position(esp) = "cli"
  BY <1>1, CurrentFacts DEF IInv, TypeOK
<1>4. IF_ => ~(slices[esp] > 0)
  BY <1>1 DEF IInv, FlagsInv, OpenCode
<1>5. pc'[esp] = "body"
  BY <1>2, <1>3
<1>6. TypeOK'
  BY <1>2, <1>3 DEF IInv, TypeOK, sched, frames, Positions, ThreadCode
<1>7. FlagsInv'
  BY <1>1, <1>2, <1>5 DEF IInv, FlagsInv, At, OpenCode
<1>8. LoopInv(esp)'
  BY <1>2, <1>3, <1>5 DEF LoopInv, Position, ThreadCode, HandlerCode, LoopCode
<1>9. ~Printed(esp) /\ ~Printed(esp)'
  BY <1>1, <1>2, <1>4, <1>5 DEF Printed
<1> QED BY <1>1, <1>2, <1>6, <1>7, <1>8, <1>9, CurrentFacts, ThreadStep
         DEF ThreadCode

\* The line of this turn.
LEMMA BodyPreserves == IInv /\ Body => IInv'
<1> SUFFICES ASSUME IInv, Body PROVE IInv'
  OBVIOUS
<1>1. pc[esp] = "body" /\ pc[esp] \in ThreadCode
  BY DEF Body, At, ThreadCode
<1>2. /\ pc' = [pc EXCEPT ![esp] = "sti"]
      /\ slices' = [slices EXCEPT ![esp] = @ + 1]
      /\ times' = [times EXCEPT ![esp] = @ - 1]
      /\ irr' = TRUE /\ ticked' = FALSE /\ row' = row + 1
      /\ UNCHANGED <<quota, created, sched, esp, frames, gates, cond>>
      /\ UNCHANGED <<IF_, ZF, shadow, isr>>
      /\ Jobs' = Jobs /\ Stacks' = Stacks
  BY DEF Body, Goto, PrintLine, cpu, Jobs, Stacks
<1>3. /\ pc \in [Stacks -> Positions] /\ times \in [Jobs -> Int] /\ slices \in [Jobs -> Nat]
      /\ esp \in Stacks /\ esp \in Jobs
      /\ times[esp] \in Int /\ slices[esp] \in Nat /\ quota[esp] \in Nat /\ leaked[esp] \in Nat
      /\ LoopInv(esp) /\ Position(esp) = "body"
  BY <1>1, CurrentFacts DEF IInv, TypeOK
<1>4. /\ times[esp] + slices[esp] = quota[esp] /\ times[esp] > 0
      /\ cond[esp] \in 1 .. quota[esp]
  BY <1>3 DEF LoopInv, LoopCode
<1>5. ~IF_ /\ ~Printed(esp)
  BY <1>1 DEF IInv, FlagsInv, OpenCode, At, Printed
<1>6. /\ pc'[esp] = "sti" /\ slices'[esp] = slices[esp] + 1 /\ times'[esp] = times[esp] - 1
      /\ slices'[esp] <= quota[esp]
  BY <1>2, <1>3, <1>4
<1>7. TypeOK'
  <2>1. slices' \in [Jobs -> Nat] /\ times' \in [Jobs -> Int]
    BY <1>2, <1>3
  <2>2. irr' \in BOOLEAN /\ ticked' \in BOOLEAN
    BY <1>2
  <2>3. row' \in Nat
    BY <1>2 DEF IInv, TypeOK
  <2>4. pc' \in [Stacks -> Positions]
    BY <1>2, <1>3 DEF Positions, ThreadCode
  <2> QED BY <1>2, <2>1, <2>2, <2>3, <2>4 DEF IInv, TypeOK, sched, frames
<1>8. FlagsInv'
  BY <1>1, <1>2, <1>5, <1>6 DEF IInv, FlagsInv, At, OpenCode
<1>9. LoopInv(esp)'
  BY <1>2, <1>3, <1>4, <1>6 DEF LoopInv, Position, ThreadCode, HandlerCode, LoopCode
<1>10. Printed(esp)'
  BY <1>2, <1>6 DEF Printed
<1>11. leaked[esp] <= slices'[esp] /\ slices'[esp] <= leaked[esp] + 1
  BY <1>1, <1>3, <1>5, <1>6, CurrentFacts
<1>12. \A f \in Jobs : f # esp => UNCHANGED <<times[f], cond[f], slices[f]>>
  BY <1>2, <1>3
<1> QED BY <1>1, <1>2, <1>3, <1>6, <1>7, <1>8, <1>9, <1>10, <1>11, <1>12, ThreadStep
         DEF ThreadCode

\* IF is on again, with a request pending.
LEMMA StiPreserves == IInv /\ Sti => IInv'
<1> SUFFICES ASSUME IInv, Sti PROVE IInv'
  OBVIOUS
<1>1. pc[esp] = "sti" /\ pc[esp] \in ThreadCode
  BY DEF Sti, At, ThreadCode
<1>2. /\ pc' = [pc EXCEPT ![esp] = "compare"]
      /\ cond' = [cond EXCEPT ![esp] = quota[esp]]
      /\ IF_' = TRUE /\ shadow' \in BOOLEAN
      /\ UNCHANGED <<quota, created, sched, esp, frames, gates, times, slices, row>>
      /\ UNCHANGED <<ZF, irr, isr, ticked>>
      /\ Jobs' = Jobs /\ Stacks' = Stacks
  BY DEF Sti, Goto, SetInterruptFlag, pic, Jobs, Stacks
<1>3. /\ pc \in [Stacks -> Positions] /\ cond \in [Jobs -> Nat]
      /\ esp \in Stacks /\ esp \in Jobs
      /\ times[esp] \in Int /\ slices[esp] \in Nat /\ quota[esp] \in Nat /\ quota[esp] > 0
      /\ LoopInv(esp) /\ Position(esp) = "sti"
      /\ created = Len(quota) /\ gates = {"idt", "pic", "pit"}
  BY <1>1, CurrentFacts DEF IInv, TypeOK
<1>4. times[esp] + slices[esp] = quota[esp] /\ slices[esp] > 0
  BY <1>3 DEF LoopInv, LoopCode
<1>5. pc'[esp] = "compare" /\ cond'[esp] = quota[esp]
  BY <1>2, <1>3
<1>6. TypeOK'
  <2>1. cond' \in [Jobs -> Nat]
    BY <1>2, <1>3
  <2> QED BY <1>2, <1>3, <2>1 DEF IInv, TypeOK, sched, frames, Positions, ThreadCode
<1>7. FlagsInv'
  BY <1>1, <1>2, <1>3, <1>5 DEF IInv, FlagsInv, At, OpenCode
<1>8. LoopInv(esp)'
  BY <1>2, <1>3, <1>4, <1>5 DEF LoopInv, Position, ThreadCode, HandlerCode, LoopCode
<1>9. Printed(esp) /\ Printed(esp)'
  BY <1>1, <1>2, <1>4, <1>5 DEF Printed
<1>10. \A f \in Jobs : f # esp => UNCHANGED <<times[f], cond[f], slices[f]>>
  BY <1>2, <1>3
<1> QED BY <1>1, <1>2, <1>6, <1>7, <1>8, <1>9, <1>10, CurrentFacts, ThreadStep
         DEF ThreadCode

-----------------------------------------------------------------------------
\* On the boot code's stack every thread created is live and new.
LEMMA BootFacts ==
    ASSUME IInv, esp = Boot
    PROVE  /\ ~At("switch") => currentThread = -1
           /\ \A t \in Threads : t < created =>
                /\ t \in Live /\ pc[t + 1] = "fresh" /\ savedIF[t + 1]
                /\ leaked[t + 1] = 0 /\ slices[t + 1] = 0 /\ Turns(t + 1) = 0
<1>1. ~At("switch") => currentThread = -1
  BY DEF IInv, BootInv
<1>2. ASSUME NEW t \in Threads, t < created
      PROVE  /\ t \in Live /\ pc[t + 1] = "fresh" /\ savedIF[t + 1]
             /\ leaked[t + 1] = 0 /\ slices[t + 1] = 0 /\ Turns(t + 1) = 0
  <2>1. t \in Live /\ pc[t + 1] = "fresh" /\ t + 1 # esp
    BY <1>2, SlotFacts DEF IInv, BootInv
  <2>2. savedIF[t + 1] /\ leaked[t + 1] = 0
    BY <1>2, <2>1 DEF IInv, FramesInv
  <2>3. slices[t + 1] = 0
    BY <1>2, <2>1 DEF IInv, WorkInv, LoopInv, Position, HandlerCode
  <2> QED BY <2>1, <2>2, <2>3 DEF Turns, HandlerCode
<1> QED BY <1>1, <1>2

\* What a step on one stack leaves true of the others.
LEMMA OtherStacks ==
    ASSUME IInv, UNCHANGED <<quota, created, esp>>,
           \A s \in Stacks : s # esp => UNCHANGED <<pc[s], ret[s], savedIF[s], leaked[s]>>,
           UNCHANGED <<times, cond, slices>>,
           esp = Boot \/ (esp <= created /\ esp <= N)
    PROVE  /\ FramesInv'
           /\ \A t \in Threads : t < created /\ t + 1 # esp =>
                IF t \in Live THEN LoopInv(t + 1)'
                ELSE /\ slices'[t + 1] \in {0, quota[t + 1]}
                     /\ leaked'[t + 1] <= slices'[t + 1] + 1
           /\ \A t \in Live : t + 1 # esp =>
                /\ Turns(t + 1)' = Turns(t + 1) /\ slices'[t + 1] = slices[t + 1]
                /\ ~Printed(t + 1) /\ ~Printed(t + 1)'
<1>1. /\ Jobs' = Jobs /\ Jobs = 1 .. Len(quota) /\ Stacks = 0 .. Len(quota)
      /\ N \in Nat /\ created \in Nat /\ Len(quota) \in Nat
  BY ProgramFacts DEF IInv, TypeOK, Jobs
<1>2. ASSUME NEW t \in Threads, t < created, t + 1 # esp
      PROVE  /\ t + 1 \in Jobs /\ t + 1 \in Stacks /\ pc[t + 1] \in {"fresh", "return"}
             /\ UNCHANGED <<pc[t + 1], ret[t + 1], savedIF[t + 1], leaked[t + 1],
                            times[t + 1], cond[t + 1], slices[t + 1]>>
  BY <1>2, SlotFacts DEF Stacks
<1>3. FramesInv'
  <2>1. \A t \in Threads : t < created /\ t + 1 # esp =>
            \/ pc'[t + 1] = "fresh" /\ savedIF'[t + 1] /\ leaked'[t + 1] = 0
            \/ pc'[t + 1] = "return" /\ ~savedIF'[t + 1]
    BY <1>2 DEF IInv, FramesInv
  <2>2. \A f \in Jobs : f > created \/ f > N => leaked'[f] = 0 /\ slices'[f] = 0
    <3>1. \A f \in Jobs : f \in Stacks /\ (f > created \/ f > N => f # esp)
      BY <1>1 DEF Stacks, Boot
    <3> QED BY <3>1 DEF IInv, FramesInv
  <2> QED BY <1>1, <2>1, <2>2 DEF IInv, FramesInv
<1>4. ASSUME NEW t \in Threads, t < created, t + 1 # esp
      PROVE  IF t \in Live THEN LoopInv(t + 1)'
             ELSE /\ slices'[t + 1] \in {0, quota[t + 1]}
                  /\ leaked'[t + 1] <= slices'[t + 1] + 1
  <2>1. CASE t \in Live
    BY <1>2, <1>4, <2>1, LoopFrame DEF IInv, WorkInv
  <2>2. CASE t \notin Live
    BY <1>2, <1>4, <2>2 DEF IInv, WorkInv
  <2> QED BY <2>1, <2>2
<1>5. ASSUME NEW t \in Live, t + 1 # esp
      PROVE  /\ Turns(t + 1)' = Turns(t + 1) /\ slices'[t + 1] = slices[t + 1]
             /\ ~Printed(t + 1) /\ ~Printed(t + 1)'
  BY <1>2, <1>5, LiveFacts DEF Turns, Printed
<1> QED BY <1>3, <1>4, <1>5

\* A step on the boot stack before scheduler has chosen.
LEMMA BootStep ==
    ASSUME IInv, esp = Boot, UNCHANGED <<quota, created, sched, esp, savedIF, leaked, work>>,
           NEW p \in Positions \ {"unassign", "advance", "switch", "system_finish"},
           ~At("switch"),
           pc' = [pc EXCEPT ![Boot] = p],
           \A f \in Jobs : ret'[f] = ret[f],
           TypeOK', BootInv', FlagsInv'
    PROVE  IInv'
<1>1. /\ UNCHANGED <<quota, created, tcb, currentThread, nextThread, temp, esp, savedIF,
                     leaked, times, cond, slices>>
      /\ Live' = Live /\ pc \in [Stacks -> Positions] /\ Boot \in Stacks
      /\ currentThread = -1
  BY BootFacts DEF sched, work, Live, Runnable, IInv, TypeOK, Stacks
<1>2. pc'[Boot] = p /\ \A s \in Stacks : s # Boot => pc'[s] = pc[s] /\ ret'[s] = ret[s]
  BY <1>1 DEF Stacks
<1>3. SlotsInv'
  <2>1. \A t \in Threads : t # -1
    BY ProgramFacts DEF Threads, IInv
  <2> QED BY <1>1, <1>2, <2>1 DEF IInv, SlotsInv, At
<1>4. ThreadInv' /\ ChoiceInv'
  BY <1>1, <1>2 DEF ThreadInv, ChoiceInv, At, Halted
<1>5. /\ FramesInv'
      /\ \A t \in Threads : t < created /\ t + 1 # esp =>
            IF t \in Live THEN LoopInv(t + 1)'
            ELSE /\ slices'[t + 1] \in {0, quota[t + 1]}
                 /\ leaked'[t + 1] <= slices'[t + 1] + 1
      /\ \A t \in Live : t + 1 # esp =>
            /\ Turns(t + 1)' = Turns(t + 1) /\ slices'[t + 1] = slices[t + 1]
            /\ ~Printed(t + 1) /\ ~Printed(t + 1)'
  BY <1>1, <1>2, OtherStacks
<1>6. \A t \in Threads : t < created => t + 1 # esp
  BY SlotFacts
<1>7. WorkInv'
  BY <1>1, <1>5, <1>6 DEF WorkInv
<1>8. TurnInv'
  BY <1>1, <1>5, <1>6, LiveFacts DEF IInv, TurnInv
<1>9. RoundInv'
  <2>1. \A t \in Threads : ~HasHadTurn(t) /\ ~HasHadTurn(t)'
    BY <1>1, ProgramFacts DEF HasHadTurn, Threads, IInv
  <2> QED BY <1>1, <1>5, <1>6, <2>1, LiveFacts DEF IInv, RoundInv
<1> QED BY <1>3, <1>4, <1>5, <1>7, <1>8, <1>9 DEF IInv

\* Code of the boot sequence runs on the boot stack.
LEMMA BootCodeFacts ==
    ASSUME IInv, pc[esp] \in BootCode
    PROVE  /\ esp = Boot /\ ~At("switch") /\ BootInv /\ FlagsInv
           /\ currentThread = -1
           /\ pc \in [Stacks -> Positions] /\ Boot \in Stacks /\ Boot \notin Jobs
<1>1. esp = Boot
  BY DEF IInv, ThreadInv, BootCode, ThreadCode, KernelCode
<1>2. Boot \notin Jobs
  BY ProgramFacts DEF IInv, Boot
<1> QED BY <1>1, <1>2 DEF IInv, BootInv, TypeOK, Stacks, At, BootCode

\* initIDT.
LEMMA InitIDTPreserves == IInv /\ InitIDT => IInv'
<1> SUFFICES ASSUME IInv, InitIDT PROVE IInv'
  OBVIOUS
<1>1. pc[esp] = "create" /\ pc[esp] \in BootCode /\ created = Len(quota)
  BY DEF InitIDT, At, BootCode
<1>2. /\ esp = Boot /\ ~At("switch") /\ BootInv /\ FlagsInv
      /\ pc \in [Stacks -> Positions] /\ Boot \in Stacks
  BY <1>1, BootCodeFacts
<1>3. /\ pc' = [pc EXCEPT ![Boot] = "initPIC"] /\ gates' = gates \cup {"idt"}
      /\ UNCHANGED <<quota, created, sched, esp, frames, cpu, pic, work, row>>
      /\ Jobs' = Jobs /\ Stacks' = Stacks
  BY <1>2 DEF InitIDT, Goto, Jobs, Stacks
<1>4. pc'[Boot] = "initPIC" /\ \A s \in Stacks : s # Boot => pc'[s] = pc[s]
  BY <1>2, <1>3
<1>5. ~IF_ /\ gates = {}
  BY <1>1, <1>2 DEF FlagsInv, BootInv, At, OpenCode
<1>6. TypeOK'
  BY <1>3, <1>2
     DEF IInv, TypeOK, sched, frames, cpu, pic, work, Positions, BootCode
<1>7. FlagsInv'
  BY <1>1, <1>2, <1>3, <1>4, <1>5 DEF FlagsInv, At, OpenCode, cpu, pic, work
<1>8. BootInv'
  <2>1. \A t \in Threads : t < created => t + 1 \in Stacks /\ t + 1 # Boot
    BY SlotFacts DEF Stacks
  <2>2. Live' = Live
    BY <1>3 DEF sched, Live, Runnable
  <2> QED BY <1>1, <1>2, <1>3, <1>4, <1>5, <2>1, <2>2 DEF BootInv, At, sched, BootCode
<1> QED BY <1>2, <1>3, <1>6, <1>7, <1>8, BootStep DEF Positions, BootCode, frames

\* initPIC, after which no request of before is pending.
LEMMA InitPICPreserves == IInv /\ InitPIC => IInv'
<1> SUFFICES ASSUME IInv, InitPIC PROVE IInv'
  OBVIOUS
<1>1. pc[esp] = "initPIC" /\ pc[esp] \in BootCode
  BY DEF InitPIC, At, BootCode
<1>2. /\ esp = Boot /\ ~At("switch") /\ BootInv /\ FlagsInv
      /\ pc \in [Stacks -> Positions] /\ Boot \in Stacks
  BY <1>1, BootCodeFacts
<1>3. /\ pc' = [pc EXCEPT ![Boot] = "initPIT"] /\ gates' = gates \cup {"pic"}
      /\ irr' = FALSE /\ isr' = FALSE
      /\ UNCHANGED <<quota, created, sched, esp, frames, cpu, ticked, work, row>>
      /\ Jobs' = Jobs /\ Stacks' = Stacks
  BY <1>2 DEF InitPIC, Goto, Jobs, Stacks
<1>4. pc'[Boot] = "initPIT" /\ \A s \in Stacks : s # Boot => pc'[s] = pc[s]
  BY <1>2, <1>3
<1>5. ~IF_ /\ gates = {"idt"} /\ created = Len(quota)
  BY <1>1, <1>2 DEF FlagsInv, BootInv, At, OpenCode
<1>6. TypeOK'
  BY <1>3, <1>2
     DEF IInv, TypeOK, sched, frames, cpu, pic, work, Positions, BootCode
<1>7. FlagsInv'
  BY <1>1, <1>2, <1>3, <1>4, <1>5 DEF FlagsInv, At, OpenCode, cpu, work
<1>8. BootInv'
  <2>1. \A t \in Threads : t < created => t + 1 \in Stacks /\ t + 1 # Boot
    BY SlotFacts DEF Stacks
  <2>2. Live' = Live
    BY <1>3 DEF sched, Live, Runnable
  <2> QED BY <1>1, <1>2, <1>3, <1>4, <1>5, <2>1, <2>2 DEF BootInv, At, sched, BootCode
<1> QED BY <1>2, <1>3, <1>6, <1>7, <1>8, BootStep DEF Positions, BootCode, frames

\* initPIT, the last of the gates.
LEMMA InitPITPreserves == IInv /\ InitPIT => IInv'
<1> SUFFICES ASSUME IInv, InitPIT PROVE IInv'
  OBVIOUS
<1>1. pc[esp] = "initPIT" /\ pc[esp] \in BootCode
  BY DEF InitPIT, At, BootCode
<1>2. /\ esp = Boot /\ ~At("switch") /\ BootInv /\ FlagsInv
      /\ pc \in [Stacks -> Positions] /\ Boot \in Stacks
  BY <1>1, BootCodeFacts
<1>3. /\ pc' = [pc EXCEPT ![Boot] = "sti_boot"] /\ gates' = gates \cup {"pit"}
      /\ UNCHANGED <<quota, created, sched, esp, frames, cpu, pic, work, row>>
      /\ Jobs' = Jobs /\ Stacks' = Stacks
  BY <1>2 DEF InitPIT, Goto, Jobs, Stacks
<1>4. pc'[Boot] = "sti_boot" /\ \A s \in Stacks : s # Boot => pc'[s] = pc[s]
  BY <1>2, <1>3
<1>5. ~IF_ /\ gates = {"idt", "pic"} /\ created = Len(quota)
  BY <1>1, <1>2 DEF FlagsInv, BootInv, At, OpenCode
<1>6. TypeOK'
  BY <1>3, <1>2
     DEF IInv, TypeOK, sched, frames, cpu, pic, work, Positions, BootCode
<1>7. FlagsInv'
  BY <1>1, <1>2, <1>3, <1>4, <1>5 DEF FlagsInv, At, OpenCode, cpu, pic, work
<1>8. BootInv'
  <2>1. \A t \in Threads : t < created => t + 1 \in Stacks /\ t + 1 # Boot
    BY SlotFacts DEF Stacks
  <2>2. Live' = Live
    BY <1>3 DEF sched, Live, Runnable
  <2>3. gates' = {"idt", "pic", "pit"}
    BY <1>3, <1>5
  <2> QED BY <1>1, <1>2, <1>3, <1>4, <1>5, <2>1, <2>2, <2>3 DEF BootInv, At, sched, BootCode
<1> QED BY <1>2, <1>3, <1>6, <1>7, <1>8, BootStep DEF Positions, BootCode, frames

\* The first sti finds everything in place.
LEMMA StiBootPreserves == IInv /\ StiBoot => IInv'
<1> SUFFICES ASSUME IInv, StiBoot PROVE IInv'
  OBVIOUS
<1>1. pc[esp] = "sti_boot" /\ pc[esp] \in BootCode
  BY DEF StiBoot, At, BootCode
<1>2. /\ esp = Boot /\ ~At("switch") /\ BootInv /\ FlagsInv
      /\ pc \in [Stacks -> Positions] /\ Boot \in Stacks
  BY <1>1, BootCodeFacts
<1>3. /\ pc' = [pc EXCEPT ![Boot] = "spin"]
      /\ IF_' = TRUE /\ shadow' \in BOOLEAN /\ ZF' = ZF
      /\ UNCHANGED <<quota, created, sched, esp, frames, pic, gates, work, row>>
      /\ Jobs' = Jobs /\ Stacks' = Stacks
  BY <1>2 DEF StiBoot, Goto, SetInterruptFlag, Jobs, Stacks
<1>4. pc'[Boot] = "spin" /\ \A s \in Stacks : s # Boot => pc'[s] = pc[s]
  BY <1>2, <1>3
<1>5. gates = {"idt", "pic", "pit"} /\ created = Len(quota)
  BY <1>1, <1>2 DEF BootInv, At
<1>6. TypeOK'
  BY <1>3, <1>2
     DEF IInv, TypeOK, sched, frames, cpu, pic, work, Positions, BootCode
<1>7. FlagsInv'
  BY <1>1, <1>2, <1>3, <1>4, <1>5 DEF FlagsInv, At, OpenCode, pic, work
<1>8. BootInv'
  <2>1. \A t \in Threads : t < created => t + 1 \in Stacks /\ t + 1 # Boot
    BY SlotFacts DEF Stacks
  <2>2. Live' = Live
    BY <1>3 DEF sched, Live, Runnable
  <2> QED BY <1>1, <1>2, <1>3, <1>4, <1>5, <2>1, <2>2 DEF BootInv, At, sched, BootCode
<1> QED BY <1>2, <1>3, <1>6, <1>7, <1>8, BootStep DEF Positions, BootCode, frames

\* The boot code spins until the first interrupt.
LEMMA SpinPreserves == IInv /\ Spin => IInv'
<1> SUFFICES ASSUME IInv, Spin PROVE IInv'
  OBVIOUS
<1>1. pc[esp] = "spin" /\ pc[esp] \in BootCode
  BY DEF Spin, At, BootCode
<1>2. /\ esp = Boot /\ ~At("switch") /\ BootInv /\ FlagsInv
      /\ pc \in [Stacks -> Positions] /\ Boot \in Stacks
  BY <1>1, BootCodeFacts
<1>3. /\ pc' = pc /\ shadow' = FALSE /\ ticked' \in BOOLEAN
      /\ UNCHANGED <<quota, created, sched, esp, frames, IF_, ZF, irr, isr, gates, work, row>>
      /\ Jobs' = Jobs /\ Stacks' = Stacks
  BY DEF Spin, Jobs, Stacks
<1>4. pc' = [pc EXCEPT ![Boot] = "spin"]
  BY <1>1, <1>2, <1>3
<1>5. TypeOK'
  BY <1>3 DEF IInv, TypeOK, sched, frames, cpu, pic, work
<1>6. FlagsInv'
  BY <1>1, <1>2, <1>3 DEF FlagsInv, At, OpenCode, work
<1>7. BootInv'
  BY <1>2, <1>3 DEF BootInv, At, sched, Live, Runnable
<1> QED BY <1>2, <1>3, <1>4, <1>5, <1>6, <1>7, BootStep DEF Positions, BootCode, frames

\* A job gets the next slot and a new stack, or nothing.
LEMMA CreateThreadPreserves == IInv /\ CreateThread => IInv'
<1> SUFFICES ASSUME IInv, CreateThread PROVE IInv'
  OBVIOUS
<1>1. pc[esp] = "create" /\ pc[esp] \in BootCode
  BY DEF CreateThread, At, BootCode
<1>2. /\ esp = Boot /\ BootInv /\ FlagsInv /\ currentThread = -1
      /\ pc \in [Stacks -> Positions] /\ Boot \in Stacks /\ Boot \notin Jobs
  BY <1>1, BootCodeFacts
<1>3. /\ N \in Nat /\ N > 0 /\ quota \in Seq(Nat \ {0}) /\ Len(quota) \in Nat
      /\ Jobs = 1 .. Len(quota) /\ Stacks = 0 .. Len(quota)
  BY ProgramFacts DEF IInv
<1>4. /\ created \in Nat /\ created < Len(quota) /\ created' = created + 1
      /\ UNCHANGED <<quota, currentThread, nextThread, temp, esp, ret, pushed, leaked, IF_, ZF,
                     shadow, irr, isr, ticked, gates, times, cond, slices>>
      /\ Jobs' = Jobs /\ Stacks' = Stacks
      /\ row \in Nat /\ row' \in Nat
  BY DEF CreateThread, IInv, TypeOK, Jobs, Stacks, PrintLine, cpu, pic, work
<1>5. \A t \in Threads : t < created =>
        /\ t \in Live /\ pc[t + 1] = "fresh" /\ savedIF[t + 1]
        /\ leaked[t + 1] = 0 /\ slices[t + 1] = 0 /\ Turns(t + 1) = 0
  BY <1>2, BootFacts
<1>6. \A t \in Threads : tcb[t].assigned = IF t < created THEN 1 ELSE 0
  BY <1>5 DEF IInv, SlotsInv, Live, Runnable
<1>7. tcb \in [Threads -> TCB] /\ savedIF \in [Stacks -> BOOLEAN]
  BY DEF IInv, TypeOK, TCB
<1>8. CASE created < N
  <2> DEFINE new == [assigned |-> 1, finished |-> 0,
                     function |-> created + 1, stackPointer |-> created + 1]
  <2>1. tcb' = [tcb EXCEPT ![created] = new]
    <3>1. created \in 0 .. N
      BY <1>3, <1>4, <1>8
    <3> QED BY <3>1, <1>6, <1>8, ThreadCreateLemma DEF CreateThread
  <2>2. created \in Threads /\ new \in TCB
    BY <1>3, <1>4, <1>8 DEF Threads, TCB
  <2>3. tcb' # tcb
    <3>1. tcb[created].assigned = 0
      BY <2>2, <1>6, <1>4
    <3> QED BY <2>1, <2>2, <3>1, <1>7
  <2>4. /\ pc' = [pc EXCEPT ![created + 1] = "fresh"]
        /\ savedIF' = [savedIF EXCEPT ![created + 1] = TRUE]
        /\ created + 1 \in Jobs
    BY <1>3, <1>4, <2>3 DEF CreateThread
  <2>5. /\ tcb'[created] = new
        /\ \A t \in Threads : t # created => tcb'[t] = tcb[t]
        /\ Live' = Live \cup {created}
    BY <1>7, <2>1, <2>2 DEF Live, Runnable
  <2>6. /\ pc'[created + 1] = "fresh" /\ savedIF'[created + 1]
        /\ pc'[esp] = pc[esp]
        /\ \A t \in Threads : t < created =>
              pc'[t + 1] = pc[t + 1] /\ savedIF'[t + 1] = savedIF[t + 1]
    <3>1. created + 1 \in Stacks /\ esp # created + 1
      BY <1>2, <2>4 DEF Stacks
    <3>2. \A t \in Threads : t < created => t + 1 \in Stacks /\ t + 1 # created + 1
      BY <1>3, <1>4 DEF Threads
    <3> QED BY <1>2, <1>7, <2>4, <3>1, <3>2
  <2>7. leaked[created + 1] = 0 /\ slices[created + 1] = 0
    BY <1>4, <2>4 DEF IInv, FramesInv
  <2>8. \A t \in Threads : t < created' =>
        /\ t \in Live' /\ pc'[t + 1] = "fresh" /\ savedIF'[t + 1]
        /\ leaked'[t + 1] = 0 /\ slices'[t + 1] = 0 /\ Turns(t + 1)' = 0
    <3>1. \A t \in Threads : t < created' => t < created \/ t = created
      BY <1>4 DEF Threads
    <3> QED BY <1>4, <1>5, <2>5, <2>6, <2>7, <3>1 DEF Turns, HandlerCode
  <2>9. TypeOK'
    <3>1. /\ tcb' \in [Threads -> TCB] /\ pc' \in [Stacks -> Positions]
          /\ savedIF' \in [Stacks -> BOOLEAN]
      BY <1>2, <1>7, <2>1, <2>2, <2>4 DEF Positions, ThreadCode, Stacks
    <3>2. created' \in 0 .. Len(quota)
      BY <1>3, <1>4
    <3> QED BY <1>4, <3>1, <3>2 DEF IInv, TypeOK, TCB
  <2>10. SlotsInv'
    <3>1. \A t \in Threads : t < created' <=> t < created \/ t = created
      BY <1>4 DEF Threads
    <3>2. \A t \in Threads : t # currentThread
      BY <1>2, <1>3 DEF Threads
    <3> QED BY <1>4, <2>5, <3>1, <3>2 DEF IInv, SlotsInv
  <2>11. BootInv' /\ ThreadInv' /\ ChoiceInv'
    BY <1>1, <1>2, <1>4, <2>6, <2>8 DEF BootInv, ThreadInv, ChoiceInv, At, Halted
  <2>12. FramesInv'
    <3>1. \A f \in Jobs : f > created' \/ f > N => f > created \/ f > N
      BY <1>3, <1>4
    <3> QED BY <1>4, <2>8, <3>1 DEF IInv, FramesInv
  <2>13. WorkInv'
    BY <2>8 DEF WorkInv, LoopInv, Position, ThreadCode, HandlerCode, LoopCode
  <2>14. FlagsInv'
    BY <1>1, <1>2, <1>4, <2>6 DEF FlagsInv, At, OpenCode
  <2>15. \A t \in Live' : t < created' /\ t \in Threads
    <3>1. \A t \in Live : t < created /\ t \in Threads
      BY LiveFacts
    <3> QED BY <1>3, <1>4, <2>2, <2>5, <3>1 DEF Threads
  <2>16. TurnInv'
    <3>1. \A t \in Live' : ~Printed(t + 1)' /\ slices'[t + 1] = 0 /\ Turns(t + 1)' = 0
      BY <2>8, <2>15 DEF Printed
    <3> QED BY <3>1 DEF TurnInv
  <2>17. RoundInv'
    <3>1. \A t \in Threads : ~HasHadTurn(t)'
      BY <1>2, <1>3, <1>4 DEF HasHadTurn, Threads
    <3> QED BY <2>8, <2>15, <3>1 DEF RoundInv
  <2> QED BY <2>9, <2>10, <2>11, <2>12, <2>13, <2>14, <2>16, <2>17 DEF IInv
<1>9. CASE created >= N
  <2>1. tcb' = tcb /\ pc' = pc /\ savedIF' = savedIF
    <3>1. \A t \in Threads : tcb[t].assigned = IF t < N THEN 1 ELSE 0
      BY <1>3, <1>4, <1>6, <1>9 DEF Threads
    <3>2. N \in 0 .. N
      BY <1>3
    <3>3. ThreadCreate(tcb, created + 1) = tcb
      BY <3>1, <3>2, ThreadCreateLemma
    <3> QED BY <3>3 DEF CreateThread
  <2>2. Live' = Live /\ \A t \in Threads : t < created /\ t < created'
    BY <1>3, <1>4, <1>9, <2>1 DEF Live, Runnable, Threads
  <2>3. TypeOK'
    <3>1. created' \in 0 .. Len(quota)
      BY <1>3, <1>4
    <3> QED BY <1>4, <2>1, <3>1 DEF IInv, TypeOK
  <2>4. SlotsInv'
    BY <1>4, <2>1, <2>2 DEF IInv, SlotsInv, At
  <2>5. BootInv' /\ ThreadInv' /\ ChoiceInv'
    BY <1>1, <1>2, <1>4, <2>1, <2>2 DEF BootInv, ThreadInv, ChoiceInv, At, Halted
  <2>6. FramesInv'
    BY <1>3, <1>4, <2>1, <2>2 DEF IInv, FramesInv
  <2>7. WorkInv'
    BY <1>4, <2>1, <2>2 DEF IInv, WorkInv, LoopInv, Position
  <2>8. FlagsInv'
    BY <1>1, <1>2, <1>4, <2>1 DEF FlagsInv, At, OpenCode
  <2>9. TurnInv' /\ RoundInv'
    BY <1>4, <2>1, <2>2 DEF IInv, TurnInv, RoundInv, Turns, Printed, HasHadTurn
  <2> QED BY <2>3, <2>4, <2>5, <2>6, <2>7, <2>8, <2>9 DEF IInv
<1> QED BY <1>3, <1>4, <1>8, <1>9

-----------------------------------------------------------------------------
\* In the handler a thread's function stands still.
LEMMA LoopHandler ==
    ASSUME NEW f, LoopInv(f), pc[f] \in HandlerCode, pc'[f] \in HandlerCode,
           UNCHANGED <<ret[f], times[f], cond[f], slices[f], quota>>
    PROVE  LoopInv(f)'
  BY DEF LoopInv, Position, HandlerCode

\* Until the switch the CPU is on the stack of the current thread.
LEMMA StackFacts ==
    ASSUME IInv, ~At("switch")
    PROVE  /\ esp = Boot => currentThread = -1
           /\ esp # Boot =>
                /\ currentThread \in Threads /\ currentThread < created
                /\ esp = currentThread + 1 /\ esp \in Jobs
           /\ esp = Boot \/ (esp <= created /\ esp <= N)
           /\ \A t \in Threads : t < created /\ t + 1 = esp => t = currentThread
<1>1. /\ esp = Boot => currentThread = -1
      /\ esp # Boot => /\ currentThread \in Threads /\ currentThread < created
                       /\ esp = currentThread + 1
  BY DEF IInv, BootInv, ThreadInv
<1>2. N \in Nat /\ created \in Nat
  BY ProgramFacts DEF IInv, TypeOK
<1>3. \A t \in Threads : t < created => t \in Nat /\ t + 1 \in Jobs /\ t + 1 # Boot
  BY SlotFacts
<1> QED BY <1>1, <1>2, <1>3 DEF Threads

\* A step of the handler or of scheduler before the switch.
LEMMA KernelStep ==
    ASSUME IInv, pc[esp] \in {"eoi", "select"},
           NEW q \in {"select", "advance", "system_finish"}, pc' = [pc EXCEPT ![esp] = q],
           UNCHANGED <<quota, created, tcb, currentThread, temp, esp, frames, gates, work>>,
           TypeOK', FlagsInv', ChoiceInv',
           q = "system_finish" => Live = {}
    PROVE  IInv'
<1>1. /\ esp = Boot => currentThread = -1
      /\ esp # Boot =>
            /\ currentThread \in Threads /\ currentThread < created
            /\ esp = currentThread + 1 /\ esp \in Jobs
      /\ esp = Boot \/ (esp <= created /\ esp <= N)
      /\ \A t \in Threads : t < created /\ t + 1 = esp => t = currentThread
  BY StackFacts DEF At
<1>2. /\ pc \in [Stacks -> Positions] /\ esp \in Stacks
      /\ leaked \in [Stacks -> Nat] /\ Live' = Live
      /\ UNCHANGED <<ret, savedIF, leaked, times, cond, slices>>
  BY DEF IInv, TypeOK, Live, Runnable, frames, work
<1>3. pc'[esp] = q /\ \A s \in Stacks : s # esp => pc'[s] = pc[s]
  BY <1>2
<1>4. SlotsInv'
  BY <1>2, <1>3 DEF IInv, SlotsInv, At
<1>5. BootInv' /\ ThreadInv'
  <2>1. \A t \in Threads : t < created /\ esp = Boot => t + 1 # esp /\ t + 1 \in Stacks
    BY SlotFacts DEF Stacks
  <2> QED BY <1>1, <1>2, <1>3, <2>1 DEF IInv, BootInv, ThreadInv, At, ThreadCode, KernelCode
<1>6. /\ FramesInv'
      /\ \A t \in Threads : t < created /\ t + 1 # esp =>
            IF t \in Live THEN LoopInv(t + 1)'
            ELSE /\ slices'[t + 1] \in {0, quota[t + 1]}
                 /\ leaked'[t + 1] <= slices'[t + 1] + 1
      /\ \A t \in Live : t + 1 # esp =>
            /\ Turns(t + 1)' = Turns(t + 1) /\ slices'[t + 1] = slices[t + 1]
            /\ ~Printed(t + 1) /\ ~Printed(t + 1)'
  BY <1>1, <1>2, <1>3, OtherStacks
<1>7. currentThread \in Live =>
        /\ LoopInv(esp)' /\ Turns(esp)' = Turns(esp)
        /\ ~Printed(esp) /\ ~Printed(esp)' /\ ~IF_'
  <2> SUFFICES ASSUME currentThread \in Live
               PROVE  /\ LoopInv(esp)' /\ Turns(esp)' = Turns(esp)
                      /\ ~Printed(esp) /\ ~Printed(esp)' /\ ~IF_'
    OBVIOUS
  <2>1. q # "system_finish" /\ esp = currentThread + 1
    BY <1>1, LiveFacts, SlotFacts
  <2>2. pc[esp] \in HandlerCode /\ pc'[esp] \in HandlerCode
    BY <1>3, <2>1 DEF HandlerCode
  <2>3. LoopInv(esp)
    BY <2>1, LiveFacts DEF IInv, WorkInv
  <2>4. LoopInv(esp)'
    BY <1>2, <2>2, <2>3, LoopHandler
  <2>5. ~IF_ /\ ~IF_'
    BY <1>3, <2>1 DEF IInv, FlagsInv, At, OpenCode
  <2> QED BY <1>2, <1>3, <2>2, <2>4, <2>5 DEF Turns, Printed
<1>8. WorkInv'
  <2> SUFFICES ASSUME NEW t \in Threads, t < created
               PROVE  IF t \in Live THEN LoopInv(t + 1)'
                      ELSE /\ slices'[t + 1] \in {0, quota[t + 1]}
                           /\ leaked'[t + 1] <= slices'[t + 1] + 1
    BY <1>2 DEF WorkInv
  <2>1. CASE t + 1 # esp
    BY <1>6, <2>1
  <2>2. CASE t + 1 = esp /\ t \in Live
    BY <1>1, <1>7, <2>2
  <2>3. CASE t \notin Live
    BY <1>2, <2>3 DEF IInv, WorkInv
  <2> QED BY <2>1, <2>2, <2>3
<1>9. TurnInv'
  <2> SUFFICES ASSUME NEW t \in Live
               PROVE  /\ slices'[t + 1] <= Turns(t + 1)' + (IF Printed(t + 1)' THEN 1 ELSE 0)
                      /\ Turns(t + 1)' <= slices'[t + 1] + 1
                      /\ Printed(t + 1)' \/ (t + 1 = esp /\ IF_') =>
                            Turns(t + 1)' <= slices'[t + 1]
    BY <1>2 DEF TurnInv
  <2>1. t + 1 = esp => t = currentThread
    BY <1>1, LiveFacts
  <2> QED BY <1>2, <1>6, <1>7, <2>1 DEF IInv, TurnInv
<1>10. RoundInv'
  <2>1. CASE q = "system_finish"
    BY <1>2, <2>1 DEF RoundInv
  <2>2. CASE q # "system_finish"
    <3>1. \A t \in Live : HasHadTurn(t)' = HasHadTurn(t)
      BY <1>2, <1>3, <2>2 DEF HasHadTurn
    <3>2. \A t \in Live : Turns(t + 1)' = Turns(t + 1)
      BY <1>1, <1>6, <1>7, LiveFacts
    <3> QED BY <1>2, <3>1, <3>2 DEF IInv, RoundInv
  <2> QED BY <2>1, <2>2
<1> QED BY <1>4, <1>5, <1>6, <1>8, <1>9, <1>10 DEF IInv

\* From there on the controller would let the next request through; IF does not.
LEMMA EndOfInterruptPreserves == IInv /\ EndOfInterrupt => IInv'
<1> SUFFICES ASSUME IInv, EndOfInterrupt PROVE IInv'
  OBVIOUS
<1>1. /\ pc[esp] = "eoi" /\ pc' = [pc EXCEPT ![esp] = "select"] /\ isr' = FALSE
      /\ UNCHANGED <<quota, created, tcb, currentThread, nextThread, temp, esp, frames, gates,
                     work, IF_, ZF, shadow, irr, ticked, row>>
      /\ Jobs' = Jobs /\ Stacks' = Stacks
  BY DEF EndOfInterrupt, At, Goto, sched, cpu, Jobs, Stacks
<1>2. pc \in [Stacks -> Positions] /\ esp \in Stacks /\ pc'[esp] = "select"
  BY <1>1 DEF IInv, TypeOK
<1>3. TypeOK'
  BY <1>1, <1>2 DEF IInv, TypeOK, frames, work, Positions, KernelCode
<1>4. FlagsInv'
  BY <1>1, <1>2 DEF IInv, FlagsInv, At, OpenCode
<1>5. ChoiceInv'
  BY <1>1, <1>2 DEF ChoiceInv, At, Halted
<1> QED BY <1>1, <1>3, <1>4, <1>5, KernelStep

\* The choice of scheduler: the next live slot, round the array.
LEMMA SelectPreserves == IInv /\ Select => IInv'
<1> SUFFICES ASSUME IInv, Select PROVE IInv'
  OBVIOUS
<1>1. /\ pc[esp] = "select" /\ nextThread' = NextThread(tcb, currentThread)
      /\ UNCHANGED <<quota, created, tcb, currentThread, temp, esp, frames, gates, work,
                     IF_, ZF, shadow, irr, isr, ticked>>
      /\ Jobs' = Jobs /\ Stacks' = Stacks /\ Live' = Live
  BY DEF Select, At, cpu, pic, Jobs, Stacks, Live, Runnable
<1>2. /\ pc \in [Stacks -> Positions] /\ esp \in Stacks /\ row \in Nat
      /\ currentThread \in Threads \cup {-1}
  BY DEF IInv, TypeOK
<1>3. \/ /\ nextThread' = infinit /\ Live = {}
      \/ /\ nextThread' # infinit /\ nextThread' \in Live /\ nextThread' \in Threads
         /\ \A t \in Between(currentThread, nextThread') : t \notin Live
  BY <1>1, <1>2, NextThreadLemma DEF Live
<1>4. PICK q \in {"advance", "system_finish"} :
        /\ pc' = [pc EXCEPT ![esp] = q] /\ row' \in Nat
        /\ q = "system_finish" <=> nextThread' = infinit
  BY <1>2 DEF Select, Goto, PrintLine
<1>5. pc'[esp] = q
  BY <1>2, <1>4
<1>6. TypeOK'
  BY <1>1, <1>2, <1>3, <1>4 DEF IInv, TypeOK, frames, work, Positions, KernelCode
<1>7. FlagsInv'
  BY <1>1, <1>5 DEF IInv, FlagsInv, At, OpenCode
<1>8. ChoiceInv'
  BY <1>1, <1>3, <1>4, <1>5 DEF ChoiceInv, At, Halted
<1> QED BY <1>1, <1>3, <1>4, <1>6, <1>7, <1>8, KernelStep

\* A thread that has finished leaves with all of its quota printed, or nothing, and with
\* IF off.
LEMMA MarkFinishedPreserves == IInv /\ MarkFinished => IInv'
<1> SUFFICES ASSUME IInv, MarkFinished PROVE IInv'
  OBVIOUS
<1>1. pc[esp] = "finish" /\ pc[esp] \in ThreadCode
  BY DEF MarkFinished, At, ThreadCode
<1>2. /\ currentThread \in Threads /\ currentThread \in Live
      /\ currentThread < created /\ created = Len(quota)
      /\ esp = currentThread + 1 /\ esp \in Jobs /\ esp # Boot
      /\ gates = {"idt", "pic", "pit"} /\ ~At("switch")
  BY <1>1, RunningFacts, ThreadCodeOffBoot DEF At
<1>3. /\ pc' = [pc EXCEPT ![esp] = "unassign"]
      /\ tcb' = [tcb EXCEPT ![currentThread].finished = 1]
      /\ UNCHANGED <<quota, created, currentThread, nextThread, temp, esp, ret, pushed, savedIF,
                     leaked, IF_, ZF, shadow, irr, isr, ticked, gates, times, cond, slices>>
      /\ row' = row + 1 /\ Jobs' = Jobs /\ Stacks' = Stacks
  BY DEF MarkFinished, Goto, PrintLine, frames, cpu, pic, work, Jobs, Stacks
<1>4. /\ pc \in [Stacks -> Positions] /\ tcb \in [Threads -> TCB] /\ esp \in Stacks
      /\ row \in Nat /\ N \in Nat
  BY ProgramFacts DEF IInv, TypeOK, TCB
<1>5. pc'[esp] = "unassign" /\ \A s \in Stacks : s # esp => pc'[s] = pc[s]
  BY <1>3, <1>4
<1>6. tcb' = [tcb EXCEPT ![currentThread] = [tcb[currentThread] EXCEPT !.finished = 1]]
  BY <1>2, <1>3, <1>4
<1>7. /\ tcb'[currentThread] = [tcb[currentThread] EXCEPT !.finished = 1]
      /\ \A t \in Threads : t # currentThread => tcb'[t] = tcb[t]
      /\ tcb' \in [Threads -> TCB]
  BY <1>2, <1>4, <1>6 DEF TCB
<1>8. Live' = Live \ {currentThread}
  BY <1>2, <1>4, <1>7 DEF Live, Runnable, TCB
<1>9. TypeOK'
  <2>1. row' \in Nat /\ pc' \in [Stacks -> Positions]
    BY <1>3, <1>4 DEF Positions, KernelCode
  <2> QED BY <1>3, <1>7, <2>1 DEF IInv, TypeOK, TCB
<1>10. SlotsInv'
  <2>1. /\ tcb[currentThread].assigned = 1 /\ tcb'[currentThread].finished = 1
        /\ tcb'[currentThread].assigned = 1
        /\ tcb'[currentThread].function = tcb[currentThread].function
        /\ tcb'[currentThread].stackPointer = tcb[currentThread].stackPointer
    BY <1>2, <1>4, <1>7 DEF Live, Runnable, TCB
  <2> QED BY <1>1, <1>2, <1>3, <1>5, <1>7, <2>1 DEF IInv, SlotsInv, At
<1>11. BootInv' /\ ThreadInv' /\ ChoiceInv'
  BY <1>1, <1>2, <1>3, <1>5
     DEF IInv, BootInv, ThreadInv, ChoiceInv, At, Halted, KernelCode, ThreadCode
<1>12. /\ FramesInv'
       /\ \A t \in Threads : t < created /\ t + 1 # esp =>
            IF t \in Live THEN LoopInv(t + 1)'
            ELSE /\ slices'[t + 1] \in {0, quota[t + 1]}
                 /\ leaked'[t + 1] <= slices'[t + 1] + 1
       /\ \A t \in Live : t + 1 # esp =>
            /\ Turns(t + 1)' = Turns(t + 1) /\ slices'[t + 1] = slices[t + 1]
            /\ ~Printed(t + 1) /\ ~Printed(t + 1)'
  BY <1>2, <1>3, <1>5, StackFacts, OtherStacks
<1>13. \A t \in Threads : t # currentThread => t + 1 # esp
  BY <1>2, <1>4 DEF Threads
<1>14. slices[esp] \in {0, quota[esp]} /\ leaked[esp] <= slices[esp] + 1
  <2>1. /\ times[esp] + slices[esp] = quota[esp] /\ (slices[esp] = 0 \/ times[esp] = 0)
        /\ leaked[esp] <= slices[esp] + 1 /\ slices[esp] \in Nat /\ quota[esp] \in Nat
    BY <1>1, CurrentFacts DEF LoopInv, LoopCode
  <2> QED BY <2>1
<1>15. WorkInv'
  BY <1>2, <1>3, <1>8, <1>12, <1>13, <1>14 DEF WorkInv
<1>16. FlagsInv'
  BY <1>1, <1>3, <1>5 DEF IInv, FlagsInv, At, OpenCode
<1>17. TurnInv'
  BY <1>3, <1>8, <1>12, <1>13, LiveFacts DEF IInv, TurnInv
<1>18. RoundInv'
  <2>1. \A t \in Live' : HasHadTurn(t)' = HasHadTurn(t) /\ Turns(t + 1)' = Turns(t + 1)
    BY <1>1, <1>3, <1>5, <1>8, <1>12, <1>13, LiveFacts DEF HasHadTurn
  <2> QED BY <1>8, <2>1 DEF IInv, RoundInv
<1> QED BY <1>9, <1>10, <1>11, <1>12, <1>15, <1>16, <1>17, <1>18 DEF IInv

\* functionFinish gives the slot back and calls scheduler.
LEMMA MarkUnassignedPreserves == IInv /\ MarkUnassigned => IInv'
<1> SUFFICES ASSUME IInv, MarkUnassigned PROVE IInv'
  OBVIOUS
<1>1. pc[esp] = "unassign" /\ ~At("switch")
  BY DEF MarkUnassigned, At
<1>2. /\ esp # Boot /\ currentThread \in Threads /\ currentThread < created
      /\ esp = currentThread + 1 /\ esp \in Jobs
      /\ created = Len(quota) /\ gates = {"idt", "pic", "pit"}
  BY <1>1, StackFacts, ThreadCodeOffBoot DEF IInv, ThreadInv
<1>3. /\ pc' = [pc EXCEPT ![esp] = "select"]
      /\ tcb' = [tcb EXCEPT ![currentThread].assigned = 0]
      /\ UNCHANGED <<quota, created, currentThread, nextThread, temp, esp, ret, pushed, savedIF,
                     leaked, IF_, ZF, shadow, irr, isr, ticked, gates, times, cond, slices, row>>
      /\ Jobs' = Jobs /\ Stacks' = Stacks
  BY DEF MarkUnassigned, Goto, frames, cpu, pic, work, Jobs, Stacks
<1>4. /\ pc \in [Stacks -> Positions] /\ tcb \in [Threads -> TCB] /\ esp \in Stacks /\ N \in Nat
  BY ProgramFacts DEF IInv, TypeOK, TCB
<1>5. pc'[esp] = "select" /\ \A s \in Stacks : s # esp => pc'[s] = pc[s]
  BY <1>3, <1>4
<1>6. tcb' = [tcb EXCEPT ![currentThread] = [tcb[currentThread] EXCEPT !.assigned = 0]]
  BY <1>2, <1>3, <1>4
<1>7. /\ tcb'[currentThread] = [tcb[currentThread] EXCEPT !.assigned = 0]
      /\ \A t \in Threads : t # currentThread => tcb'[t] = tcb[t]
      /\ tcb' \in [Threads -> TCB]
  BY <1>2, <1>4, <1>6 DEF TCB
<1>8. tcb[currentThread].assigned = 1 /\ tcb[currentThread].finished = 1
  BY <1>1, <1>2 DEF IInv, SlotsInv, At
<1>9. Live' = Live /\ currentThread \notin Live
  BY <1>2, <1>4, <1>7, <1>8 DEF Live, Runnable, TCB
<1>10. TypeOK'
  <2>1. pc' \in [Stacks -> Positions]
    BY <1>3, <1>4 DEF Positions, KernelCode
  <2> QED BY <1>3, <1>7, <2>1 DEF IInv, TypeOK, TCB
<1>11. SlotsInv'
  <2>1. /\ tcb'[currentThread].assigned = 0 /\ tcb'[currentThread].finished = 1
        /\ tcb'[currentThread].function = tcb[currentThread].function
        /\ tcb'[currentThread].stackPointer = tcb[currentThread].stackPointer
    BY <1>2, <1>4, <1>7, <1>8 DEF TCB
  <2> QED BY <1>1, <1>2, <1>3, <1>5, <1>7, <2>1 DEF IInv, SlotsInv, At
<1>12. BootInv' /\ ThreadInv' /\ ChoiceInv'
  BY <1>1, <1>2, <1>3, <1>5
     DEF IInv, BootInv, ThreadInv, ChoiceInv, At, Halted, KernelCode, ThreadCode
<1>13. /\ FramesInv'
       /\ \A t \in Threads : t < created /\ t + 1 # esp =>
            IF t \in Live THEN LoopInv(t + 1)'
            ELSE /\ slices'[t + 1] \in {0, quota[t + 1]}
                 /\ leaked'[t + 1] <= slices'[t + 1] + 1
       /\ \A t \in Live : t + 1 # esp =>
            /\ Turns(t + 1)' = Turns(t + 1) /\ slices'[t + 1] = slices[t + 1]
            /\ ~Printed(t + 1) /\ ~Printed(t + 1)'
  BY <1>1, <1>3, <1>5, StackFacts, OtherStacks
<1>14. \A t \in Threads : t # currentThread => t + 1 # esp
  BY <1>2, <1>4 DEF Threads
<1>15. WorkInv'
  BY <1>2, <1>3, <1>9, <1>13, <1>14 DEF IInv, WorkInv
<1>16. FlagsInv'
  BY <1>1, <1>3, <1>5 DEF IInv, FlagsInv, At, OpenCode
<1>17. TurnInv'
  BY <1>3, <1>9, <1>13, <1>14, LiveFacts DEF IInv, TurnInv
<1>18. RoundInv'
  <2>1. \A t \in Live : HasHadTurn(t)' = HasHadTurn(t) /\ Turns(t + 1)' = Turns(t + 1)
    BY <1>1, <1>3, <1>5, <1>9, <1>13, <1>14, LiveFacts DEF HasHadTurn
  <2> QED BY <1>9, <2>1 DEF IInv, RoundInv
<1> QED BY <1>10, <1>11, <1>12, <1>13, <1>15, <1>16, <1>17, <1>18 DEF IInv

\* The turn goes to the thread chosen; those passed over on the way have left.
LEMMA AdvancePreserves == IInv /\ Advance => IInv'
<1> SUFFICES ASSUME IInv, Advance PROVE IInv'
  OBVIOUS
<1>1. pc[esp] = "advance" /\ ~At("switch")
  BY DEF Advance, At
<1>2. /\ esp = Boot => currentThread = -1
      /\ esp # Boot =>
            /\ currentThread \in Threads /\ currentThread < created
            /\ esp = currentThread + 1 /\ esp \in Jobs
      /\ esp = Boot \/ (esp <= created /\ esp <= N)
  BY <1>1, StackFacts
<1>3. /\ pc' = [pc EXCEPT ![esp] = "switch"]
      /\ temp' = currentThread /\ currentThread' = nextThread
      /\ UNCHANGED <<quota, created, tcb, nextThread, esp, ret, pushed, savedIF, leaked,
                     IF_, ZF, shadow, irr, isr, ticked, gates, times, cond, slices, row>>
      /\ Jobs' = Jobs /\ Stacks' = Stacks /\ Live' = Live
  BY DEF Advance, Goto, frames, cpu, pic, work, Jobs, Stacks, Live, Runnable
<1>4. /\ pc \in [Stacks -> Positions] /\ esp \in Stacks /\ N \in Nat /\ N > 0
      /\ leaked \in [Stacks -> Nat] /\ currentThread \in Threads \cup {-1}
  BY ProgramFacts DEF IInv, TypeOK
<1>5. pc'[esp] = "switch" /\ \A s \in Stacks : s # esp => pc'[s] = pc[s]
  BY <1>3, <1>4
<1>6. /\ nextThread \in Live /\ nextThread \in Threads /\ nextThread < created
      /\ \A t \in Between(currentThread, nextThread) : t \notin Live
  BY <1>1, LiveFacts DEF IInv, ChoiceInv, At
<1>7. TypeOK'
  <2>1. pc' \in [Stacks -> Positions]
    BY <1>3, <1>4 DEF Positions, KernelCode
  <2> QED BY <1>3, <1>4, <1>6, <2>1 DEF IInv, TypeOK
<1>8. SlotsInv'
  BY <1>1, <1>3, <1>5 DEF IInv, SlotsInv, At
<1>9. BootInv' /\ ThreadInv' /\ ChoiceInv'
  <2>1. \A t \in Threads : t < created /\ esp = Boot => t + 1 # esp /\ t + 1 \in Stacks
    BY SlotFacts DEF Stacks
  <2> QED BY <1>1, <1>2, <1>3, <1>5, <1>6, <2>1
          DEF IInv, BootInv, ThreadInv, ChoiceInv, At, Halted, KernelCode, ThreadCode
<1>10. /\ FramesInv'
       /\ \A t \in Threads : t < created /\ t + 1 # esp =>
            IF t \in Live THEN LoopInv(t + 1)'
            ELSE /\ slices'[t + 1] \in {0, quota[t + 1]}
                 /\ leaked'[t + 1] <= slices'[t + 1] + 1
       /\ \A t \in Live : t + 1 # esp =>
            /\ Turns(t + 1)' = Turns(t + 1) /\ slices'[t + 1] = slices[t + 1]
            /\ ~Printed(t + 1) /\ ~Printed(t + 1)'
  BY <1>2, <1>3, <1>5, OtherStacks
<1>11. \A t \in Live : t + 1 = esp =>
        /\ LoopInv(t + 1)' /\ Turns(t + 1)' = Turns(t + 1)
        /\ ~Printed(t + 1) /\ ~Printed(t + 1)' /\ ~IF_ /\ ~IF_'
  <2> SUFFICES ASSUME NEW t \in Live, t + 1 = esp
               PROVE  /\ LoopInv(t + 1)' /\ Turns(t + 1)' = Turns(t + 1)
                      /\ ~Printed(t + 1) /\ ~Printed(t + 1)' /\ ~IF_ /\ ~IF_'
    OBVIOUS
  <2>1. LoopInv(t + 1)
    BY LiveFacts DEF IInv, WorkInv
  <2>2. LoopInv(t + 1)'
    BY <1>1, <1>3, <1>5, <2>1, LoopHandler DEF HandlerCode
  <2>3. ~IF_ /\ ~IF_'
    BY <1>1, <1>3 DEF IInv, FlagsInv, At, OpenCode
  <2> QED BY <1>1, <1>3, <1>4, <1>5, <2>2, <2>3 DEF Turns, Printed, HandlerCode
<1>12. WorkInv'
  <2> SUFFICES ASSUME NEW t \in Threads, t < created
               PROVE  IF t \in Live THEN LoopInv(t + 1)'
                      ELSE /\ slices'[t + 1] \in {0, quota[t + 1]}
                           /\ leaked'[t + 1] <= slices'[t + 1] + 1
    BY <1>3 DEF WorkInv
  <2>1. t \notin Live => /\ slices'[t + 1] \in {0, quota[t + 1]}
                         /\ leaked'[t + 1] <= slices'[t + 1] + 1
    BY <1>3 DEF IInv, WorkInv
  <2> QED BY <1>10, <1>11, <2>1
<1>13. FlagsInv'
  BY <1>1, <1>3, <1>5 DEF IInv, FlagsInv, At, OpenCode
<1>14. TurnInv'
  BY <1>3, <1>10, <1>11 DEF IInv, TurnInv
<1>15. RoundInv'
  <2>1. \A t \in Live : Turns(t + 1)' = Turns(t + 1) /\ t \in Threads
    BY <1>10, <1>11, LiveFacts
  <2>2. \A t \in Live : /\ HasHadTurn(t) <=> t <= currentThread
                        /\ HasHadTurn(t)' <=> t < nextThread
    BY <1>1, <1>3, <1>4, <1>5, <2>1 DEF HasHadTurn, Threads
  <2>3. CASE nextThread > currentThread
    <3>1. \A t \in Live : t <= currentThread <=> t < nextThread
      BY <1>4, <1>6, <2>1, <2>3 DEF Between, Threads
    <3> QED BY <1>3, <2>1, <2>2, <3>1 DEF IInv, RoundInv
  <2>4. CASE nextThread <= currentThread
    <3>1. \A t \in Live : t <= currentThread /\ ~(t < nextThread)
      BY <1>4, <1>6, <2>1, <2>4 DEF Between, Threads
    <3> QED BY <1>3, <2>1, <2>2, <3>1 DEF IInv, RoundInv
  <2> QED BY <1>4, <1>6, <2>3, <2>4 DEF Threads
<1> QED BY <1>7, <1>8, <1>9, <1>10, <1>12, <1>13, <1>14, <1>15 DEF IInv

\* The context saved on the old stack will resume with IF off, and the new one is either a
\* function that has not begun or such a context.
LEMMA SwitchToPreserves == IInv /\ SwitchTo => IInv'
<1> SUFFICES ASSUME IInv, SwitchTo PROVE IInv'
  OBVIOUS
<1> DEFINE next == nextThread + 1
<1>1. pc[esp] = "switch" /\ ~IF_
  BY DEF SwitchTo, At, IInv, FlagsInv, OpenCode
<1>2. /\ nextThread \in Live /\ currentThread = nextThread
      /\ esp = Boot => temp = -1
      /\ esp # Boot => temp \in Threads /\ temp < created /\ esp = temp + 1
      /\ created = Len(quota) /\ gates = {"idt", "pic", "pit"}
  BY <1>1 DEF IInv, ChoiceInv, BootInv, ThreadInv, At
<1>3. /\ nextThread \in Threads /\ nextThread < created
      /\ next \in Jobs /\ next \in Stacks /\ next # Boot
      /\ next # esp => pc[next] \in {"fresh", "return"}
  BY <1>2, LiveFacts, SlotFacts DEF Stacks
<1>4. /\ pc \in [Stacks -> Positions] /\ esp \in Stacks /\ N \in Nat /\ created \in Nat
      /\ leaked \in [Stacks -> Nat] /\ savedIF \in [Stacks -> BOOLEAN]
      /\ tcb \in [Threads -> TCB]
  <2>1. TypeOK /\ N \in Nat /\ Len(quota) \in Nat
    BY ProgramFacts DEF IInv
  <2>2. created \in Nat
    BY <2>1 DEF TypeOK
  <2> QED BY <2>1, <2>2 DEF TypeOK, TCB
<1>5. tcb' = tcb
  <2>1. CASE temp = -1
    BY <2>1 DEF SwitchTo, SaveContext
  <2>2. CASE temp # -1
    <3>1. temp \in Threads /\ tcb[temp].stackPointer = esp
      BY <1>2, <2>2 DEF IInv, SlotsInv
    <3>2. [tcb EXCEPT ![temp].stackPointer = esp] = tcb
      BY <1>4, <3>1 DEF TCB
    <3> QED BY <2>2, <3>2 DEF SwitchTo, SaveContext
  <2> QED BY <2>1, <2>2
<1>6. /\ esp' = next /\ pc' = [pc EXCEPT ![esp] = "return"]
      /\ savedIF' = IF temp = -1 THEN savedIF ELSE [savedIF EXCEPT ![esp] = IF_]
      /\ IF_' = savedIF'[next] /\ ZF' = FALSE
      /\ UNCHANGED <<quota, created, currentThread, nextThread, temp, ret, pushed, leaked,
                     shadow, irr, isr, ticked, gates, times, cond, slices, row>>
      /\ Jobs' = Jobs /\ Stacks' = Stacks /\ Live' = Live
  <2>1. tcb[nextThread].stackPointer = next
    BY <1>3 DEF IInv, SlotsInv
  <2> QED BY <1>5, <2>1 DEF SwitchTo, Goto, pic, work, Jobs, Stacks, Live, Runnable
<1>7. /\ pc'[esp] = "return" /\ \A s \in Stacks : s # esp => pc'[s] = pc[s]
      /\ \A s \in Stacks : s # esp => savedIF'[s] = savedIF[s]
      /\ esp # Boot => ~savedIF'[esp]
      /\ savedIF' \in [Stacks -> BOOLEAN]
  <2>1. esp # Boot => temp # -1
    BY <1>2, <1>4 DEF Threads
  <2>2. CASE temp = -1
    BY <1>4, <1>6, <2>1, <2>2
  <2>3. CASE temp # -1
    <3>1. IF_ = FALSE
      BY <1>1 DEF IInv, TypeOK
    <3>2. savedIF' = [savedIF EXCEPT ![esp] = FALSE]
      BY <1>6, <2>3, <3>1
    <3> QED BY <1>4, <1>6, <3>2
  <2> QED BY <2>2, <2>3
<1>8. \/ /\ pc'[next] = "fresh" /\ IF_' /\ leaked[next] = 0 /\ slices[next] = 0
         /\ pc[next] = "fresh"
      \/ pc'[next] = "return" /\ ~IF_' /\ pc[next] \in HandlerCode
  <2>1. CASE next = esp
    BY <1>1, <1>3, <1>6, <1>7, <2>1 DEF HandlerCode
  <2>2. CASE next # esp
    <3>1. pc'[next] = pc[next] /\ savedIF'[next] = savedIF[next]
      BY <1>3, <1>7, <2>2
    <3>2. \/ pc[next] = "fresh" /\ savedIF[next] /\ leaked[next] = 0
          \/ pc[next] = "return" /\ ~savedIF[next]
      BY <1>3, <2>2 DEF IInv, FramesInv
    <3>3. LoopInv(next)
      BY <1>2, <1>3 DEF IInv, WorkInv
    <3>4. pc[next] = "fresh" => slices[next] = 0
      BY <3>3 DEF LoopInv, Position, HandlerCode
    <3> QED BY <1>6, <3>1, <3>2, <3>4 DEF HandlerCode
  <2> QED BY <2>1, <2>2
<1>9. TypeOK'
  <2>1. pc' \in [Stacks -> Positions]
    BY <1>4, <1>6 DEF Positions, KernelCode
  <2>2. IF_' \in BOOLEAN /\ ZF' \in BOOLEAN
    BY <1>3, <1>6, <1>7
  <2> QED BY <1>3, <1>5, <1>6, <1>7, <2>1, <2>2 DEF IInv, TypeOK
<1>10. SlotsInv'
  BY <1>1, <1>5, <1>6, <1>8 DEF IInv, SlotsInv, At
<1>11. BootInv' /\ ThreadInv' /\ ChoiceInv'
  BY <1>2, <1>3, <1>6, <1>8
     DEF BootInv, ThreadInv, ChoiceInv, At, Halted, KernelCode, ThreadCode
<1>12. FramesInv'
  <2>1. ASSUME NEW t \in Threads, t < created, t + 1 # next
        PROVE  \/ pc'[t + 1] = "fresh" /\ savedIF'[t + 1] /\ leaked'[t + 1] = 0
               \/ pc'[t + 1] = "return" /\ ~savedIF'[t + 1]
    <3>1. t + 1 \in Stacks /\ t + 1 # Boot
      BY <2>1, SlotFacts DEF Stacks
    <3> QED BY <1>6, <1>7, <2>1, <3>1 DEF IInv, FramesInv
  <2> QED BY <1>6, <2>1 DEF IInv, FramesInv
<1>13. ASSUME NEW t \in Live
       PROVE  LoopInv(t + 1)' /\ Turns(t + 1)' = Turns(t + 1)
  <2>1. LoopInv(t + 1) /\ t + 1 \in Stacks
    BY LiveFacts, SlotFacts DEF IInv, WorkInv, Stacks
  <2>2. CASE t + 1 = esp
    BY <1>1, <1>4, <1>6, <1>7, <2>1, <2>2, LoopHandler DEF HandlerCode, Turns
  <2>3. CASE t + 1 # esp
    <3>1. pc[t + 1] \in {"fresh", "return"} /\ pc'[t + 1] = pc[t + 1]
      BY <1>7, <2>1, <2>3, LiveFacts, SlotFacts
    <3> QED BY <1>6, <2>1, <3>1, LoopFrame DEF Turns
  <2> QED BY <2>2, <2>3
<1>14. WorkInv'
  BY <1>6, <1>13 DEF IInv, WorkInv
<1>15. FlagsInv'
  BY <1>1, <1>2, <1>6, <1>8 DEF IInv, FlagsInv, At, OpenCode
<1>16. TurnInv'
  <2> SUFFICES ASSUME NEW t \in Live
               PROVE  /\ slices[t + 1] <= Turns(t + 1) + (IF Printed(t + 1)' THEN 1 ELSE 0)
                      /\ Turns(t + 1) <= slices[t + 1] + 1
                      /\ Printed(t + 1)' \/ (t + 1 = next /\ IF_') => Turns(t + 1) <= slices[t + 1]
    BY <1>6, <1>13 DEF TurnInv
  <2>1. ~Printed(t + 1)
    BY <1>1 DEF Printed
  <2>2. ~Printed(t + 1)'
    BY <1>6, <1>8 DEF Printed
  <2>3. t + 1 = next /\ IF_' => Turns(t + 1) = 0 /\ slices[t + 1] = 0
    BY <1>8 DEF Turns, HandlerCode
  <2> QED BY <2>1, <2>2, <2>3 DEF IInv, TurnInv
<1>17. RoundInv'
  <2>1. \A t \in Live : HasHadTurn(t)' = HasHadTurn(t)
    BY <1>1, <1>6, <1>8 DEF HasHadTurn
  <2> QED BY <1>6, <1>13, <2>1 DEF IInv, RoundInv
<1> QED BY <1>9, <1>10, <1>11, <1>12, <1>14, <1>15, <1>16, <1>17 DEF IInv

\* The handler returns to where its interrupt came, with IF off; the turn it begins is
\* counted by what it leaks.
LEMMA HandlerReturnPreserves == IInv /\ HandlerReturn => IInv'
<1> SUFFICES ASSUME IInv, HandlerReturn PROVE IInv'
  OBVIOUS
<1>1. pc[esp] = "return" /\ ~IF_ /\ ~ZF /\ ~At("switch")
  BY DEF HandlerReturn, At, IInv, FlagsInv, OpenCode
<1>2. /\ currentThread \in Threads /\ currentThread \in Live
      /\ currentThread < created /\ created = Len(quota)
      /\ esp = currentThread + 1 /\ esp \in Jobs /\ esp # Boot
      /\ gates = {"idt", "pic", "pit"} /\ LoopInv(esp)
  BY <1>1, RunningFacts, ThreadCodeOffBoot
<1>3. /\ pc' = [pc EXCEPT ![esp] = ret[esp]]
      /\ leaked' = [leaked EXCEPT ![esp] = @ + 1]
      /\ UNCHANGED <<quota, created, tcb, currentThread, nextThread, temp, esp, ret, pushed,
                     savedIF, IF_, ZF, shadow, irr, isr, ticked, gates, times, cond, slices, row>>
      /\ Jobs' = Jobs /\ Stacks' = Stacks /\ Live' = Live
  BY DEF HandlerReturn, Goto, sched, cpu, pic, work, Jobs, Stacks, Live, Runnable
<1>4. /\ pc \in [Stacks -> Positions] /\ leaked \in [Stacks -> Nat] /\ esp \in Stacks
      /\ ret \in [Stacks -> Positions] /\ N \in Nat
  BY ProgramFacts DEF IInv, TypeOK
<1>5. /\ pc'[esp] = ret[esp] /\ leaked'[esp] = leaked[esp] + 1
      /\ \A s \in Stacks : s # esp => pc'[s] = pc[s] /\ leaked'[s] = leaked[s]
  BY <1>3, <1>4
<1>6. ret[esp] \in OpenCode
  BY <1>1, <1>2 DEF LoopInv, HandlerCode
<1>7. TypeOK'
  <2>1. pc' \in [Stacks -> Positions] /\ leaked' \in [Stacks -> Nat]
    BY <1>3, <1>4
  <2> QED BY <1>3, <2>1 DEF IInv, TypeOK
<1>8. SlotsInv'
  BY <1>1, <1>3, <1>5, <1>6 DEF IInv, SlotsInv, At, OpenCode
<1>9. BootInv' /\ ThreadInv' /\ ChoiceInv'
  BY <1>2, <1>3, <1>5, <1>6 DEF BootInv, ThreadInv, ChoiceInv, At, Halted, OpenCode, ThreadCode
<1>10. /\ FramesInv'
       /\ \A t \in Threads : t < created /\ t + 1 # esp =>
            IF t \in Live THEN LoopInv(t + 1)'
            ELSE /\ slices'[t + 1] \in {0, quota[t + 1]}
                 /\ leaked'[t + 1] <= slices'[t + 1] + 1
       /\ \A t \in Live : t + 1 # esp =>
            /\ Turns(t + 1)' = Turns(t + 1) /\ slices'[t + 1] = slices[t + 1]
            /\ ~Printed(t + 1) /\ ~Printed(t + 1)'
  BY <1>1, <1>3, <1>5, StackFacts, OtherStacks
<1>11. \A t \in Threads : t # currentThread => t + 1 # esp
  BY <1>2, <1>4 DEF Threads
<1>12. LoopInv(esp)'
  BY <1>1, <1>2, <1>3, <1>5, <1>6
     DEF LoopInv, Position, HandlerCode, OpenCode, ThreadCode, LoopCode
<1>13. /\ Turns(esp)' = Turns(esp) /\ ~Printed(esp) /\ ~Printed(esp)'
  BY <1>1, <1>3, <1>4, <1>5, <1>6 DEF Turns, Printed, HandlerCode, OpenCode
<1>14. WorkInv'
  BY <1>2, <1>3, <1>10, <1>11, <1>12 DEF WorkInv
<1>15. FlagsInv'
  BY <1>1, <1>3, <1>5, <1>6 DEF IInv, FlagsInv, At, OpenCode
<1>16. TurnInv'
  BY <1>1, <1>2, <1>3, <1>10, <1>11, <1>13, LiveFacts DEF IInv, TurnInv
<1>17. RoundInv'
  <2>1. \A t \in Live : HasHadTurn(t)' = HasHadTurn(t) /\ Turns(t + 1)' = Turns(t + 1)
    BY <1>1, <1>2, <1>3, <1>5, <1>6, <1>10, <1>11, <1>13, LiveFacts DEF HasHadTurn, OpenCode
  <2> QED BY <1>3, <2>1 DEF IInv, RoundInv
<1> QED BY <1>7, <1>8, <1>9, <1>10, <1>14, <1>15, <1>16, <1>17 DEF IInv

\* The interrupt ends the turn of the thread it comes in.
LEMMA TimerInterruptPreserves == IInv /\ TimerInterrupt => IInv'
<1> SUFFICES ASSUME IInv, TimerInterrupt PROVE IInv'
  OBVIOUS
<1>1. /\ pc' = [pc EXCEPT ![esp] = "eoi"]
      /\ irr' = FALSE /\ isr' = TRUE /\ IF_' = FALSE
      /\ ret' = [ret EXCEPT ![esp] = pc[esp]]
      /\ pushed' = [pushed EXCEPT ![esp] = [if |-> IF_, zf |-> ZF]]
      /\ UNCHANGED <<quota, created, tcb, currentThread, nextThread, temp, esp, savedIF, leaked,
                     ZF, shadow, ticked, gates, times, cond, slices, row>>
      /\ Jobs' = Jobs /\ Stacks' = Stacks /\ Live' = Live
  BY DEF TimerInterrupt, Goto, sched, work, Jobs, Stacks, Live, Runnable
<1>2. IF_ /\ ~shadow /\ (pc[esp] = "spin" \/ pc[esp] \in OpenCode) /\ ~At("switch")
  BY DEF TimerInterrupt, InterruptDue, IInv, FlagsInv, At, OpenCode
<1>3. /\ pc \in [Stacks -> Positions] /\ ret \in [Stacks -> Positions] /\ esp \in Stacks
      /\ pushed \in [Stacks -> [if : BOOLEAN, zf : BOOLEAN]]
      /\ leaked \in [Stacks -> Nat] /\ N \in Nat /\ created \in Nat /\ Boot \in Stacks
  BY ProgramFacts DEF IInv, TypeOK, Stacks
<1>4. /\ pc'[esp] = "eoi" /\ ret'[esp] = pc[esp]
      /\ \A s \in Stacks : s # esp => pc'[s] = pc[s] /\ ret'[s] = ret[s]
  BY <1>1, <1>3
<1>5. TypeOK'
  <2>1. pc' \in [Stacks -> Positions] /\ ret' \in [Stacks -> Positions]
    BY <1>1, <1>3 DEF Positions, KernelCode
  <2>2. pushed' \in [Stacks -> [if : BOOLEAN, zf : BOOLEAN]]
    <3>1. [if |-> IF_, zf |-> ZF] \in [if : BOOLEAN, zf : BOOLEAN]
      BY DEF IInv, TypeOK
    <3> QED BY <1>1, <1>3, <3>1
  <2>3. irr' \in BOOLEAN /\ isr' \in BOOLEAN /\ IF_' \in BOOLEAN
    BY <1>1
  <2> QED BY <1>1, <2>1, <2>2, <2>3 DEF IInv, TypeOK
<1>6. FlagsInv'
  BY <1>1, <1>2, <1>4 DEF IInv, FlagsInv, At, OpenCode
<1>7. CASE esp = Boot
  <2>1. BootInv'
    <3>1. \A t \in Threads : t < created => t + 1 \in Stacks /\ t + 1 # Boot
      BY SlotFacts DEF Stacks
    <3>2. pc[Boot] = "spin"
      BY <1>2, <1>7 DEF IInv, BootInv, BootCode, OpenCode
    <3> QED BY <1>1, <1>4, <1>7, <3>1, <3>2 DEF IInv, BootInv, At
  <2>2. \A f \in Jobs : f \in Stacks /\ f # Boot
    BY ProgramFacts DEF IInv, Stacks, Boot
  <2> QED BY <1>1, <1>2, <1>4, <1>5, <1>6, <1>7, <2>1, <2>2, BootStep
          DEF Positions, KernelCode, sched, work
<1>8. CASE esp # Boot
  <2>1. pc[esp] \in OpenCode /\ pc[esp] \in ThreadCode
    <3>1. pc[esp] # "spin"
      BY <1>8 DEF IInv, ThreadInv, ThreadCode, KernelCode
    <3> QED BY <1>2, <3>1 DEF OpenCode, ThreadCode
  <2>2. /\ currentThread \in Threads /\ currentThread \in Live
        /\ currentThread < created /\ created = Len(quota)
        /\ esp = currentThread + 1 /\ esp \in Jobs
        /\ gates = {"idt", "pic", "pit"} /\ LoopInv(esp)
    BY <1>8, <2>1, RunningFacts
  <2>3. SlotsInv'
    BY <1>1, <1>4, <2>1 DEF IInv, SlotsInv, At, OpenCode
  <2>4. BootInv' /\ ThreadInv' /\ ChoiceInv'
    BY <1>1, <1>4, <1>8, <2>2
       DEF BootInv, ThreadInv, ChoiceInv, At, Halted, KernelCode, ThreadCode
  <2>5. /\ FramesInv'
        /\ \A t \in Threads : t < created /\ t + 1 # esp =>
            IF t \in Live THEN LoopInv(t + 1)'
            ELSE /\ slices'[t + 1] \in {0, quota[t + 1]}
                 /\ leaked'[t + 1] <= slices'[t + 1] + 1
        /\ \A t \in Live : t + 1 # esp =>
            /\ Turns(t + 1)' = Turns(t + 1) /\ slices'[t + 1] = slices[t + 1]
            /\ ~Printed(t + 1) /\ ~Printed(t + 1)'
    BY <1>1, <1>2, <1>4, StackFacts, OtherStacks
  <2>6. \A t \in Threads : t # currentThread => t + 1 # esp
    BY <1>3, <2>2 DEF Threads
  <2>7. /\ slices[esp] \in Nat /\ leaked[esp] \in Nat /\ quota[esp] \in Nat
        /\ times[esp] \in Int /\ Position(esp) = pc[esp]
        /\ slices[esp] <= leaked[esp] + 1 /\ leaked[esp] <= slices[esp]
    BY <1>2, <2>1, CurrentFacts
  <2>8. LoopInv(esp)'
    <3>1. pc[esp] = "jump" => cond[esp] = quota[esp] /\ times[esp] + slices[esp] = quota[esp]
      BY <1>2, <2>2, <2>7 DEF IInv, FlagsInv, LoopInv, LoopCode
    <3> QED BY <1>1, <1>4, <2>1, <2>2, <2>7, <3>1
            DEF LoopInv, Position, HandlerCode, OpenCode, ThreadCode, LoopCode
  <2>9. Turns(esp)' = leaked[esp] + 1 /\ Turns(esp) = leaked[esp] /\ ~Printed(esp)'
    BY <1>1, <1>3, <1>4, <2>1 DEF Turns, Printed, HandlerCode, OpenCode
  <2>10. WorkInv'
    BY <1>1, <2>2, <2>5, <2>6, <2>8 DEF WorkInv
  <2>11. TurnInv'
    <3> SUFFICES ASSUME NEW t \in Live
                 PROVE  /\ slices'[t + 1] <= Turns(t + 1)' + (IF Printed(t + 1)' THEN 1 ELSE 0)
                        /\ Turns(t + 1)' <= slices'[t + 1] + 1
                        /\ Printed(t + 1)' \/ (t + 1 = esp /\ IF_') =>
                              Turns(t + 1)' <= slices'[t + 1]
      BY <1>1 DEF TurnInv
    <3>1. CASE t = currentThread
      BY <1>1, <2>2, <2>7, <2>9, <3>1
    <3>2. CASE t # currentThread
      BY <2>5, <2>6, <3>2, LiveFacts DEF IInv, TurnInv
    <3> QED BY <3>1, <3>2
  <2>12. RoundInv'
    <3>1. \A t \in Live : /\ t # currentThread => /\ HasHadTurn(t)' = HasHadTurn(t)
                                                  /\ Turns(t + 1)' = Turns(t + 1)
                          /\ t \in Threads
      BY <1>1, <2>5, <2>6, LiveFacts DEF HasHadTurn
    <3>2. /\ ~HasHadTurn(currentThread) /\ HasHadTurn(currentThread)'
          /\ Turns(currentThread + 1)' = Turns(currentThread + 1) + 1
      BY <1>1, <1>3, <1>4, <2>1, <2>2, <2>9 DEF HasHadTurn, OpenCode, Threads
    <3>3. \A t \in Live : Turns(t + 1) \in Nat
      BY <1>3, <3>1, LiveFacts, SlotFacts DEF Turns, Stacks
    <3> QED BY <1>1, <2>2, <3>1, <3>2, <3>3 DEF IInv, RoundInv
  <2> QED BY <1>5, <1>6, <2>3, <2>4, <2>5, <2>10, <2>11, <2>12 DEF IInv
<1> QED BY <1>7, <1>8

\* A tick is a request, wherever it comes.
LEMMA TickPreserves == IInv /\ Tick => IInv'
<1> SUFFICES ASSUME IInv, Tick PROVE IInv'
  OBVIOUS
<1>1. /\ irr' = TRUE /\ ticked' \in BOOLEAN
      /\ UNCHANGED <<quota, created, tcb, currentThread, nextThread, temp, esp, pc, ret, pushed,
                     savedIF, leaked, IF_, ZF, shadow, isr, gates, times, cond, slices, row>>
      /\ Jobs' = Jobs /\ Stacks' = Stacks /\ Live' = Live
  BY SpacedTicksAssumption DEF Tick, sched, frames, cpu, work, Jobs, Stacks, Live, Runnable
<1>2. TypeOK'
  <2>1. irr' \in BOOLEAN
    BY <1>1
  <2> QED BY <1>1, <2>1 DEF IInv, TypeOK
<1>3. SlotsInv' /\ BootInv' /\ ThreadInv' /\ ChoiceInv'
  BY <1>1 DEF IInv, SlotsInv, BootInv, ThreadInv, ChoiceInv, At, Halted
<1>4. FramesInv' /\ WorkInv' /\ FlagsInv'
  BY <1>1 DEF IInv, FramesInv, WorkInv, LoopInv, Position, FlagsInv, At
<1>5. TurnInv' /\ RoundInv'
  BY <1>1 DEF IInv, TurnInv, RoundInv, Turns, Printed, HasHadTurn
<1> QED BY <1>2, <1>3, <1>4, <1>5 DEF IInv

-----------------------------------------------------------------------------
\* Before the first thread is created there is nothing to say of threads.
LEMMA InitEstablishes == Init => IInv
<1> SUFFICES ASSUME Init PROVE IInv
  OBVIOUS
<1>1. TypeOK
  <2>1. N \in Nat /\ N > 0
    BY NAssumption DEF infinit
  <2>2. quota \in Seq(Nat \ {0}) /\ 0 \in 0 .. Len(quota)
    BY WorkloadsAssumption DEF Init
  <2>3. tcb \in [Threads -> TCB]
    BY DEF Init, InitTCBArray, TCB, Stacks, Boot
  <2>4. pc \in [Stacks -> Positions] /\ ret \in [Stacks -> Positions]
    BY DEF Init, Positions, BootCode
  <2>5. /\ esp \in Stacks /\ savedIF \in [Stacks -> BOOLEAN] /\ leaked \in [Stacks -> Nat]
        /\ pushed \in [Stacks -> [if : BOOLEAN, zf : BOOLEAN]]
    BY DEF Init, Stacks
  <2>6. /\ times \in [Jobs -> Int] /\ cond \in [Jobs -> Nat] /\ slices \in [Jobs -> Nat]
    BY DEF Init
  <2>7. /\ quota \in Workloads /\ created \in 0 .. Len(quota)
        /\ currentThread = -1 /\ nextThread = infinit /\ temp = -1
        /\ IF_ \in BOOLEAN /\ ZF \in BOOLEAN /\ shadow \in BOOLEAN
        /\ irr \in BOOLEAN /\ isr \in BOOLEAN /\ ticked \in BOOLEAN
        /\ gates \subseteq {"idt", "pic", "pit"} /\ row \in Nat
    BY <2>2 DEF Init
  <2> QED BY <2>3, <2>4, <2>5, <2>6, <2>7 DEF TypeOK, TCB
<1>2. \A t \in Threads : ~(t < created) /\ t \notin Live
  BY ProgramFacts, <1>1 DEF Init, Live, Runnable, InitTCBArray, Threads
<1>3. /\ pc[Boot] = "create" /\ esp = Boot /\ currentThread = -1 /\ gates = {}
      /\ ~IF_ /\ ~isr /\ ~shadow
      /\ \A f \in Jobs : leaked[f] = 0 /\ slices[f] = 0 /\ quota[f] \in Nat
  BY ProgramFacts, <1>1 DEF Init, Stacks
<1>4. SlotsInv
  BY <1>2 DEF Init, SlotsInv, InitTCBArray
<1>5. BootInv /\ ThreadInv /\ ChoiceInv
  BY <1>2, <1>3 DEF BootInv, ThreadInv, ChoiceInv, At, Halted, BootCode
<1>6. FramesInv /\ WorkInv
  BY <1>2, <1>3 DEF FramesInv, WorkInv
<1>7. FlagsInv
  BY <1>3 DEF FlagsInv, At, OpenCode
<1>8. TurnInv /\ RoundInv
  BY <1>2 DEF TurnInv, RoundInv, Live
<1> QED BY <1>1, <1>4, <1>5, <1>6, <1>7, <1>8 DEF IInv

\* The two loops that change nothing, and stuttering.
LEMMA StutterPreserves == IInv /\ UNCHANGED vars => IInv'
<1> SUFFICES ASSUME IInv, UNCHANGED vars PROVE IInv'
  OBVIOUS
<1>1. /\ UNCHANGED <<quota, created, tcb, currentThread, nextThread, temp, esp, pc, ret, pushed,
                     savedIF, leaked, IF_, ZF, shadow, irr, isr, ticked, gates, times, cond,
                     slices, row>>
      /\ Jobs' = Jobs /\ Stacks' = Stacks /\ Live' = Live
  BY DEF vars, sched, frames, cpu, pic, work, Jobs, Stacks, Live, Runnable
<1>2. TypeOK'
  BY <1>1 DEF IInv, TypeOK
<1>3. SlotsInv' /\ BootInv' /\ ThreadInv' /\ ChoiceInv'
  BY <1>1 DEF IInv, SlotsInv, BootInv, ThreadInv, ChoiceInv, At, Halted
<1>4. FramesInv' /\ WorkInv' /\ FlagsInv'
  BY <1>1 DEF IInv, FramesInv, WorkInv, LoopInv, Position, FlagsInv, At
<1>5. TurnInv' /\ RoundInv'
  BY <1>1 DEF IInv, TurnInv, RoundInv, Turns, Printed, HasHadTurn
<1> QED BY <1>2, <1>3, <1>4, <1>5 DEF IInv

\* Every step of the processor, of the timer and of the interrupt controller keeps it.
LEMMA StepPreserves == IInv /\ [Next]_vars => IInv'
<1> SUFFICES ASSUME IInv, [Next]_vars PROVE IInv'
  OBVIOUS
<1>1. CASE CreateThread \/ InitIDT \/ InitPIC \/ InitPIT \/ StiBoot \/ Spin
  BY <1>1, CreateThreadPreserves, InitIDTPreserves, InitPICPreserves, InitPITPreserves,
     StiBootPreserves, SpinPreserves
<1>2. CASE Launch \/ Enter \/ Compare \/ Cli \/ Body \/ Sti
  BY <1>2, LaunchPreserves, EnterPreserves, ComparePreserves, CliPreserves, BodyPreserves,
     StiPreserves
<1>3. CASE Jump /\ ~InterruptDue
  BY <1>3, JumpPreserves
<1>4. CASE MarkFinished \/ MarkUnassigned \/ Select \/ Advance \/ SwitchTo
  BY <1>4, MarkFinishedPreserves, MarkUnassignedPreserves, SelectPreserves, AdvancePreserves,
     SwitchToPreserves
<1>5. CASE EndOfInterrupt \/ HandlerReturn \/ TimerInterrupt \/ Tick
  BY <1>5, EndOfInterruptPreserves, HandlerReturnPreserves, TimerInterruptPreserves,
     TickPreserves
<1>6. CASE Wild \/ SystemFinish \/ UNCHANGED vars
  BY <1>6, StutterPreserves DEF Wild, SystemFinish
<1> QED BY <1>1, <1>2, <1>3, <1>4, <1>5, <1>6 DEF Next, CpuStep

\* The inductive invariant holds of every program, wherever the timer ticks.
THEOREM Invariant == Spec => []IInv
  BY InitEstablishes, StepPreserves, PTL DEF Spec

\* The CPU and the TCB array hold what their code puts there: indices, stacks, positions.
THEOREM TypeCorrect == Spec => []TypeOK
  BY Invariant, PTL DEF IInv

-----------------------------------------------------------------------------
\* What FlagsInv says of IF, place by place.
LEMMA InvariantMasks == IInv => MaskedInKernel
  BY DEF IInv, FlagsInv, MaskedInKernel, OpenCode, ThreadCode, At

\* scheduler, switch_to and functionFinish run with interrupts off though nothing in them
\* switches them off: no tick comes into a half-changed TCB array (init.c).  Where they are
\* on, no timer interrupt is left unacknowledged (timerInterruptHandler).
THEOREM KernelIsMasked == Spec => []MaskedInKernel
  BY Invariant, InvariantMasks, PTL

\* The TCBs point where ThreadInv and FramesInv say the contexts are.
LEMMA InvariantSeparates == IInv => StacksKeptApart
<1> SUFFICES ASSUME IInv PROVE StacksKeptApart
  OBVIOUS
<1>1. \A t \in Live : /\ t \in Threads /\ t < created
                      /\ Owner(t) = t + 1 /\ tcb[t].stackPointer = t + 1
  BY LiveFacts DEF IInv, SlotsInv, Owner
<1>2. \A t \in Live : t + 1 # esp => pc[t + 1] \in {"fresh", "return"}
  BY <1>1, SlotFacts
<1>3. pc[esp] \in ThreadCode => currentThread \in Live /\ esp = currentThread + 1
  BY RunningFacts, ThreadCodeOffBoot
<1> QED BY <1>1, <1>2, <1>3 DEF StacksKeptApart

\* A preemption between any two instructions leaves every thread its own stack and a
\* context on it that will resume (switch.s, init.c).
THEOREM StacksStayApart == Spec => []StacksKeptApart
  BY Invariant, InvariantSeparates, PTL

\* A thread that has printed in this turn has not had its turn in this round yet.
LEMMA InvariantShares == IInv => FairShare
<1> SUFFICES ASSUME IInv, NEW t \in Live, NEW u \in Live
             PROVE  slices[Owner(t)] <= slices[Owner(u)] + 2
  BY DEF FairShare
<1>1. \A x \in {t, u} : /\ x \in Threads /\ x < created /\ Owner(x) = x + 1
                        /\ slices[x + 1] \in Nat /\ Turns(x + 1) \in Nat
  <2> SUFFICES ASSUME NEW x \in Live
               PROVE  /\ x \in Threads /\ x < created /\ Owner(x) = x + 1
                      /\ slices[x + 1] \in Nat /\ Turns(x + 1) \in Nat
    OBVIOUS
  <2>1. x \in Threads /\ x < created /\ x + 1 \in Jobs
    BY LiveFacts, SlotFacts
  <2> QED BY <2>1 DEF IInv, TypeOK, SlotsInv, Owner, Turns, Stacks
<1>2. /\ slices[t + 1] <= Turns(t + 1) + (IF Printed(t + 1) THEN 1 ELSE 0)
      /\ Turns(u + 1) <= slices[u + 1] + 1
  BY DEF IInv, TurnInv
<1>3. Turns(t + 1) <= Turns(u + 1) + 1
  BY <1>1 DEF IInv, RoundInv
<1>4. Printed(t + 1) => Turns(t + 1) <= Turns(u + 1)
  <2> SUFFICES ASSUME Printed(t + 1) PROVE Turns(t + 1) <= Turns(u + 1)
    OBVIOUS
  <2>1. t + 1 = esp /\ t + 1 # Boot /\ pc[esp] \in OpenCode \cup {"sti"}
    <3>1. t + 1 = esp /\ t + 1 # Boot
      BY <1>1, SlotFacts DEF Printed
    <3>2. pc[esp] \in ThreadCode \cup KernelCode \cup {"wild"}
      BY <3>1 DEF IInv, ThreadInv
    <3>3. IF_ => pc[esp] \in OpenCode
      BY <3>2 DEF IInv, FlagsInv, At, ThreadCode, KernelCode
    <3> QED BY <3>1, <3>3 DEF Printed
  <2>2. currentThread \in Threads /\ esp = currentThread + 1
    BY <2>1, RunningFacts DEF OpenCode, ThreadCode
  <2>3. t = currentThread
    BY <1>1, <2>1, <2>2 DEF Threads
  <2>4. ~HasHadTurn(t)
    BY <1>1, <2>1, <2>3 DEF HasHadTurn, OpenCode, Threads
  <2>5. /\ (HasHadTurn(u) <=> HasHadTurn(t)) => Turns(u + 1) = Turns(t + 1)
        /\ HasHadTurn(u) /\ ~HasHadTurn(t) => Turns(u + 1) = Turns(t + 1) + 1
    BY DEF IInv, RoundInv
  <2> QED BY <1>1, <2>4, <2>5
<1> QED BY <1>1, <1>2, <1>3, <1>4

\* Whatever instructions the timer divides, no live thread gets more than two lines ahead
\* of another (scheduler in init.c).
THEOREM SharesAreFair == Spec => []FairShare
  BY Invariant, InvariantShares, PTL

\* With the loop invariant of every function, slot by slot.
LEMMA InvariantAllOrNothing == IInv => AllOrNothing
<1> SUFFICES ASSUME IInv, NEW t \in Threads, Owner(t) # Boot
             PROVE  /\ slices[Owner(t)] <= quota[Owner(t)]
                    /\ tcb[t].finished = 1 => slices[Owner(t)] \in {0, quota[Owner(t)]}
  BY DEF AllOrNothing
<1>1. t < created /\ Owner(t) = t + 1
  BY DEF IInv, SlotsInv, Owner, Boot
<1>2. slices[t + 1] <= quota[t + 1]
  BY <1>1, SlotFacts DEF IInv, FramesInv
<1>3. tcb[t].finished = 1 => t \notin Live
  BY DEF Live, Runnable
<1>4. t \notin Live => slices[t + 1] \in {0, quota[t + 1]}
  BY <1>1 DEF IInv, WorkInv
<1> QED BY <1>1, <1>2, <1>3, <1>4

\* The flags a thread resumes with are not those it was interrupted with, and still a
\* thread that has finished has printed its whole quota or nothing (init.c).
THEOREM PrintsAllOrNothing == Spec => []AllOrNothing
  BY Invariant, InvariantAllOrNothing, PTL

\* A job without a slot never ran; a thread leaks once in each of its turns.
LEMMA InvariantBoundsLeaks == IInv => LeakBounded
<1> SUFFICES ASSUME IInv, NEW f \in Jobs PROVE leaked[f] <= slices[f] + 1
  BY DEF LeakBounded
<1>1. /\ N \in Nat /\ Jobs = 1 .. Len(quota) /\ Len(quota) \in Nat
      /\ created \in 0 .. Len(quota)
      /\ slices[f] \in Nat /\ leaked[f] \in Nat
  BY ProgramFacts DEF IInv, TypeOK, Stacks
<1>2. CASE f > created \/ f > N
  <2>1. leaked[f] = 0
    BY <1>2 DEF IInv, FramesInv
  <2> QED BY <1>1, <2>1
<1>3. CASE ~(f > created \/ f > N)
  <2> DEFINE t == f - 1
  <2>1. t \in Threads /\ t < created /\ t + 1 = f
    BY <1>1, <1>3 DEF Threads
  <2>2. CASE t \in Live
    <3>1. Turns(t + 1) <= slices[t + 1] + 1
      BY <2>2 DEF IInv, TurnInv
    <3> QED BY <1>1, <2>1, <3>1 DEF Turns
  <2>3. CASE t \notin Live
    <3>1. leaked[t + 1] <= slices[t + 1] + 1
      BY <2>1, <2>3 DEF IInv, WorkInv
    <3> QED BY <2>1, <3>1
  <2> QED BY <2>2, <2>3
<1> QED BY <1>2, <1>3

\* The words that ret in place of iret leaves on the stacks are bounded by what is printed,
\* so a stack never grows further than its thread's quota allows (init.c, switch.s).
THEOREM LeaksAreBounded == Spec => []LeakBounded
  BY Invariant, InvariantBoundsLeaks, PTL
=============================================================================
