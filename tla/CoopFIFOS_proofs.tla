-------------------------- MODULE CoopFIFOS_proofs --------------------------
(***************************************************************************)
(* Proofs about CoopFIFOS, for every number of TCBs and every program.     *)
(*                                                                         *)
(* None of the properties is inductive.  What makes them so is the relation*)
(* between the slots and the jobs (SlotsInv), the phase the system is in   *)
(* (PhaseInv), what every stack's code position says about the work its    *)
(* thread has done (WorkInv), and how far the round has got (RoundInv).    *)
(*                                                                         *)
(* With them FIFOS-1 implements the abstract round robin: the initial      *)
(* states are initial states of RoundRobin, and every step is one of its   *)
(* steps or leaves work and turn alone.  (That FIFOS-1 also keeps          *)
(* RoundRobin's fairness is checked by TLC.)                               *)
(***************************************************************************)
EXTENDS CoopFIFOS, ThreadTable_proofs

\* Jobs get the slots in the order of their creation, and a slot is either
\* still free, live, or finished.
SlotsInv ==
    \A t \in Threads :
        IF t < created
        THEN /\ tcb[t].function = t + 1
             /\ tcb[t].stackPointer = t + 1
             /\ tcb[t].assigned + tcb[t].finished = 1
        ELSE /\ tcb[t].function = 0
             /\ tcb[t].assigned = 0
             /\ tcb[t].finished = 1

\* The boot code runs until the first switch; from then on the CPU is on the
\* stack of the current thread, which is live until the system halts.
PhaseInv ==
    /\ IF esp = Boot
       THEN /\ currentThread = -1
            /\ pc[Boot] \in {"init", "system_finish"}
            /\ pc[Boot] = "system_finish" => created = Len(quota)
            /\ pc[Boot] = "init" =>
                  \A t \in Threads : t < created => t \in Live /\ pc[t + 1] = "fresh"
       ELSE /\ currentThread \in Threads
            /\ currentThread < created
            /\ created = Len(quota)
            /\ esp = currentThread + 1
            /\ ~Halted => currentThread \in Live
    /\ Halted => Live = {}

\* A thread's position tells how much of its quota it has printed.
WorkInv ==
    /\ \A t \in Threads : t < created =>
        IF t \in Live
        THEN \/ pc[t + 1] = "fresh" /\ slices[t + 1] = 0
             \/ pc[t + 1] = "loop" /\ slices[t + 1] + times[t + 1] = quota[t + 1]
        ELSE /\ pc[t + 1] \in {"gone", "system_finish"}
             /\ slices[t + 1] = quota[t + 1]
    /\ \A f \in Jobs : f > created \/ f > N => pc[f] = "unused" /\ slices[f] = 0

\* In the current round the slots before the current one have had their
\* turn, the current one and those after it have not.
RoundInv ==
    \A t, u \in Live :
        /\ (t < currentThread <=> u < currentThread)
              => slices[t + 1] = slices[u + 1]
        /\ t < currentThread /\ u >= currentThread
              => slices[t + 1] = slices[u + 1] + 1

IInv == TypeOK /\ SlotsInv /\ PhaseInv /\ WorkInv /\ RoundInv

-----------------------------------------------------------------------------
TCB == [assigned : {0, 1}, finished : {0, 1},
        function : Stacks, stackPointer : Stacks]

\* What the typing says of the constants and of the program.
LEMMA ProgramFacts ==
    ASSUME TypeOK
    PROVE  /\ N \in Nat /\ N > 0
           /\ quota \in Seq(Nat)
           /\ Len(quota) \in Nat
           /\ Jobs = 1..Len(quota)
           /\ Stacks = 0..Len(quota)
           /\ \A f \in Jobs : quota[f] \in Nat
<1>1. N \in Nat /\ N > 0
  BY NAssumption DEF infinit
<1>2. quota \in Seq(Nat)
  BY WorkloadsAssumption DEF TypeOK
<1> QED BY <1>1, <1>2 DEF Jobs, Stacks, Boot

\* What a call of scheduler does once the boot code has created all threads:
\* the context it saves goes where the TCB pointed anyway, so that only the
\* caller's change tab of the TCB array remains, and the CPU moves to the
\* stack of the next runnable thread.
LEMMA SchedulerLemma ==
    ASSUME TypeOK, created = Len(quota),
           NEW tab \in [Threads -> TCB], NEW at, NEW k \in Nat,
           \A t \in Threads : t < created => tab[t].stackPointer = t + 1,
           \A t \in Threads : t >= created => ~Runnable(tab, t),
           currentThread # -1 => currentThread < created /\ esp = currentThread + 1,
           Scheduler(tab, at, k)
    PROVE  /\ tcb' = tab
           /\ row' \in Nat
           /\ \/ /\ \A t \in Threads : ~Runnable(tab, t)
                 /\ pc' = [pc EXCEPT ![esp] = "system_finish"]
                 /\ UNCHANGED <<currentThread, esp>>
              \/ \E next \in Threads :
                 /\ next < created
                 /\ Runnable(tab, next)
                 /\ \A t \in Between(currentThread, next) : ~Runnable(tab, t)
                 /\ currentThread' = next
                 /\ esp' = next + 1
                 /\ pc' = [pc EXCEPT ![esp] = at]
<1> DEFINE next == NextThread(tab, currentThread)
<1>1. /\ currentThread \in Threads \cup {-1}
      /\ row \in Nat /\ created \in Nat
      /\ N \in Nat /\ Len(quota) \in Nat
  BY ProgramFacts DEF TypeOK
<1>2. CASE next = infinit
  <2>1. \A t \in Threads : ~Runnable(tab, t)
    BY <1>1, <1>2, NextThreadLemma
  <2> QED BY <1>1, <1>2, <2>1 DEF Scheduler, PrintLines
<1>3. CASE next # infinit
  <2>1. /\ next \in Threads
        /\ Runnable(tab, next)
        /\ \A t \in Between(currentThread, next) : ~Runnable(tab, t)
    BY <1>1, <1>3, NextThreadLemma
  <2>2. next < created
    BY <1>1, <2>1 DEF Threads
  <2>3. SaveContext(tab, currentThread, esp) = tab
    <3>1. CASE currentThread = -1
      BY <3>1 DEF SaveContext
    <3>2. CASE currentThread # -1
      <4>1. currentThread \in Threads /\ tab[currentThread].stackPointer = esp
        BY <1>1, <3>2
      <4> QED BY <4>1, <3>2 DEF SaveContext, TCB
    <3> QED BY <3>1, <3>2
  <2>4. /\ currentThread' = next
        /\ tcb' = tab
        /\ esp' = tcb'[next].stackPointer
        /\ pc' = [pc EXCEPT ![esp] = at]
        /\ row' = row + k
    BY <1>3, <2>3 DEF Scheduler, PrintLines
  <2> QED BY <1>1, <2>1, <2>2, <2>4
<1> QED BY <1>2, <1>3

-----------------------------------------------------------------------------
\* The invariant holds at boot, before any thread is created.
LEMMA InitEstablishes == Init => IInv
<1> SUFFICES ASSUME Init PROVE IInv
  OBVIOUS
<1>1. TypeOK
  BY WorkloadsAssumption, NAssumption
     DEF Init, TypeOK, InitTCBArray, Stacks, Jobs, Boot, Positions, Threads, infinit
<1>2. \A t \in Threads : t >= created /\ t \notin Live
  BY ProgramFacts, <1>1 DEF Init, Live, Runnable, InitTCBArray, Threads
<1>3. SlotsInv
  BY <1>2, ProgramFacts, <1>1 DEF Init, SlotsInv, InitTCBArray, Threads
<1>4. PhaseInv
  BY <1>2, ProgramFacts, <1>1 DEF Init, PhaseInv, Boot, Stacks, Halted, Live, Threads
<1>5. WorkInv
  BY <1>2, ProgramFacts, <1>1 DEF Init, WorkInv, Stacks, Boot, Jobs, Threads
<1>6. RoundInv
  BY <1>2 DEF RoundInv, Live
<1> QED BY <1>1, <1>3, <1>4, <1>5, <1>6 DEF IInv

\* While the boot code runs, no thread has.
LEMMA BootFacts ==
    ASSUME IInv, pc[esp] = "init"
    PROVE  /\ esp = Boot /\ currentThread = -1
           /\ \A t \in Threads : t < created => t \in Live /\ pc[t + 1] = "fresh"
           /\ \A f \in Jobs : slices[f] = 0
<1> USE DEF IInv
<1>1. /\ N \in Nat /\ N > 0 /\ Len(quota) \in Nat
      /\ Jobs = 1..Len(quota) /\ created \in Nat
  BY ProgramFacts DEF TypeOK
<1>2. esp = Boot
  <2> SUFFICES ASSUME esp # Boot PROVE FALSE
    OBVIOUS
  <2>1. /\ currentThread \in Live /\ esp = currentThread + 1
        /\ currentThread \in Threads /\ currentThread < created
    BY DEF PhaseInv, Halted
  <2>2. pc[currentThread + 1] \in {"fresh", "loop"}
    BY <2>1 DEF WorkInv
  <2> QED BY <2>1, <2>2
<1>3. /\ currentThread = -1
      /\ \A t \in Threads : t < created => t \in Live /\ pc[t + 1] = "fresh"
  BY <1>2 DEF PhaseInv
<1>4. ASSUME NEW f \in Jobs PROVE slices[f] = 0
  <2>1. CASE f > created \/ f > N
    BY <2>1 DEF WorkInv
  <2>2. CASE f <= created /\ f <= N
    <3>1. f - 1 \in Threads /\ f - 1 < created /\ (f - 1) + 1 = f
      BY <2>2, <1>1 DEF Threads
    <3>2. f - 1 \in Live /\ pc[(f - 1) + 1] = "fresh"
      BY <3>1, <1>3
    <3> QED BY <3>1, <3>2 DEF WorkInv
  <2> QED BY <2>1, <2>2, <1>1
<1> QED BY <1>2, <1>3, <1>4

\* While a thread's function runs, it is the current thread's.
LEMMA RunningFacts ==
    ASSUME IInv, pc[esp] \in {"fresh", "loop"}
    PROVE  /\ currentThread \in Threads /\ currentThread \in Live
           /\ currentThread < created /\ created = Len(quota)
           /\ esp = currentThread + 1 /\ esp \in Jobs /\ esp # Boot
<1> USE DEF IInv
<1>1. esp # Boot
  BY DEF PhaseInv
<1>2. /\ currentThread \in Threads /\ currentThread \in Live
      /\ currentThread < created /\ created = Len(quota) /\ esp = currentThread + 1
  BY <1>1 DEF PhaseInv, Halted
<1> QED BY <1>1, <1>2, ProgramFacts DEF Threads

\* threadCreate gives the job the next slot, or finds none and changes no slot.
LEMMA CreateThreadPreserves == IInv /\ CreateThread => IInv'
<1> SUFFICES ASSUME IInv, CreateThread PROVE IInv'
  OBVIOUS
<1> USE DEF IInv
<1>1. /\ N \in Nat /\ N > 0 /\ quota \in Seq(Nat) /\ Len(quota) \in Nat
      /\ Jobs = 1..Len(quota) /\ Stacks = 0..Len(quota)
  BY ProgramFacts
<1>2. esp = Boot /\ pc[Boot] = "init" /\ currentThread = -1
  BY BootFacts DEF CreateThread
<1>3. /\ created \in Nat /\ created < Len(quota) /\ created' = created + 1
      /\ UNCHANGED <<quota, currentThread, esp, times, slices>>
      /\ Jobs' = Jobs /\ Stacks' = Stacks
      /\ row \in Nat /\ row' \in Nat
  BY DEF CreateThread, TypeOK, Jobs, Stacks, PrintLines
<1>4. \A t \in Threads : t < created => t \in Live /\ pc[t + 1] = "fresh"
  BY <1>2 DEF PhaseInv
<1>5. \A t \in Threads : tcb[t].assigned = IF t < created THEN 1 ELSE 0
  BY <1>4 DEF SlotsInv, Live, Runnable
<1>6. tcb \in [Threads -> TCB]
  BY DEF TypeOK, TCB
<1>8. pc \in [Stacks -> Positions]
  BY DEF TypeOK
<1>9. \A f \in Jobs : slices[f] = 0
  BY BootFacts DEF CreateThread
<1>7. CASE created < N
  <2> DEFINE new == [assigned |-> 1, finished |-> 0,
                     function |-> created + 1, stackPointer |-> created + 1]
  <2>1. tcb' = [tcb EXCEPT ![created] = new]
    <3>1. created \in 0..N
      BY <1>1, <1>3, <1>7
    <3> QED BY <3>1, <1>5, <1>7, ThreadCreateLemma DEF CreateThread
  <2>2. created \in Threads /\ new \in TCB
    BY <1>1, <1>3, <1>7 DEF Threads, TCB
  <2>3. tcb' # tcb
    <3>1. tcb[created].assigned = 0
      BY <2>2, <1>5, <1>3
    <3> QED BY <2>1, <2>2, <3>1, <1>6
  <2>4. pc' = [pc EXCEPT ![created + 1] = "fresh"] /\ created + 1 \in Jobs
    BY <1>1, <1>3, <2>3 DEF CreateThread
  <2>5. TypeOK'
    BY <1>1, <1>3, <2>1, <2>2, <2>4, <1>6 DEF TypeOK, TCB, Positions
  <2>6. SlotsInv'
    <3>1. /\ tcb'[created] = new
          /\ \A t \in Threads : t # created => tcb'[t] = tcb[t]
      BY <1>6, <2>1, <2>2
    <3>2. \A t \in Threads : t < created' <=> t < created \/ t = created
      BY <1>3 DEF Threads
    <3> QED BY <1>3, <3>1, <3>2 DEF SlotsInv
  <2>7. Live' = Live \cup {created}
    BY <1>6, <2>1, <2>2 DEF Live, Runnable
  <2>8. /\ \A t \in Threads : t < created' => t \in Live' /\ pc'[t + 1] = "fresh"
        /\ pc'[Boot] = "init"
    BY <1>1, <1>2, <1>3, <1>4, <1>8, <2>4, <2>7 DEF Threads, Boot
  <2>9. PhaseInv'
    BY <1>2, <1>3, <2>8 DEF PhaseInv, Halted
  <2>10. WorkInv'
    <3>1. \A f \in Jobs : f > created' \/ f > N => pc'[f] = "unused"
      BY <1>1, <1>3, <1>7, <1>8, <2>4 DEF WorkInv
    <3> QED BY <1>1, <1>3, <1>9, <2>8, <3>1 DEF WorkInv, Threads
  <2>11. RoundInv'
    <3>1. \A t \in Live' : t \in Threads /\ t + 1 \in Jobs
      <4>1. \A t \in Live : t \in Threads /\ t < created
        BY <1>5 DEF Live, Runnable
      <4> QED BY <1>1, <1>3, <1>7, <2>7, <4>1 DEF Threads
    <3> QED BY <3>1, <1>2, <1>3, <1>9 DEF RoundInv, Threads
  <2> QED BY <2>5, <2>6, <2>9, <2>10, <2>11
<1>10. CASE created >= N
  <2>1. tcb' = tcb /\ pc' = pc
    <3>1. \A t \in Threads : tcb[t].assigned = IF t < N THEN 1 ELSE 0
      BY <1>1, <1>3, <1>5, <1>10 DEF Threads
    <3>2. ThreadCreate(tcb, created + 1) = tcb
      <4>1. N \in 0..N
        BY <1>1
      <4> QED BY <3>1, <4>1, ThreadCreateLemma
    <3> QED BY <3>2 DEF CreateThread
  <2>2. TypeOK'
    BY <1>1, <1>3, <2>1 DEF TypeOK
  <2>3. SlotsInv'
    BY <1>1, <1>3, <1>10, <2>1 DEF SlotsInv, Threads
  <2>4. Live' = Live
    BY <2>1 DEF Live, Runnable
  <2>5. PhaseInv'
    <3>1. \A t \in Threads : t < created
      BY <1>1, <1>3, <1>10 DEF Threads
    <3> QED BY <1>2, <1>3, <1>4, <2>1, <2>4, <3>1 DEF PhaseInv, Halted
  <2>6. WorkInv'
    BY <1>1, <1>3, <1>10, <2>1, <2>4 DEF WorkInv, Threads
  <2>7. RoundInv'
    BY <1>3, <2>4 DEF RoundInv
  <2> QED BY <2>2, <2>3, <2>5, <2>6, <2>7
<1> QED BY <1>1, <1>3, <1>7, <1>10

\* The first scheduling, from the boot code: the choice is the first live slot, or none.
LEMMA StartSchedulerPreserves == IInv /\ StartScheduler => IInv'
<1> SUFFICES ASSUME IInv, StartScheduler PROVE IInv'
  OBVIOUS
<1> USE DEF IInv
<1>1. /\ N \in Nat /\ N > 0 /\ quota \in Seq(Nat) /\ Len(quota) \in Nat
      /\ Jobs = 1..Len(quota) /\ Stacks = 0..Len(quota)
  BY ProgramFacts
<1>2. /\ esp = Boot /\ currentThread = -1 /\ created = Len(quota)
      /\ \A t \in Threads : t < created => t \in Live /\ pc[t + 1] = "fresh"
      /\ \A f \in Jobs : slices[f] = 0
  BY BootFacts DEF StartScheduler
<1>3. /\ UNCHANGED <<quota, created, times, slices>>
      /\ Jobs' = Jobs /\ Stacks' = Stacks
  BY DEF StartScheduler, Jobs, Stacks
<1>4. tcb \in [Threads -> TCB] /\ pc \in [Stacks -> Positions]
  BY DEF TypeOK, TCB
<1>5. /\ tcb' = tcb
      /\ row' \in Nat
      /\ \/ /\ \A t \in Threads : ~Runnable(tcb, t)
            /\ pc' = [pc EXCEPT ![esp] = "system_finish"]
            /\ UNCHANGED <<currentThread, esp>>
         \/ \E next \in Threads :
            /\ next < created
            /\ Runnable(tcb, next)
            /\ \A t \in Between(currentThread, next) : ~Runnable(tcb, t)
            /\ currentThread' = next
            /\ esp' = next + 1
            /\ pc' = [pc EXCEPT ![esp] = "abandoned"]
  <2>1. \A t \in Threads : /\ t < created => tcb[t].stackPointer = t + 1
                           /\ t >= created => ~Runnable(tcb, t)
    BY <1>1, <1>2 DEF SlotsInv, Runnable, Threads
  <2>2. Scheduler(tcb, "abandoned", 0)
    BY DEF StartScheduler
  <2> QED BY <1>2, <1>4, <2>1, <2>2, SchedulerLemma
<1>6. SlotsInv' /\ Live' = Live
  BY <1>3, <1>5 DEF SlotsInv, Live, Runnable
<1>7. pc' \in [Stacks -> Positions] /\ \A f \in Jobs : pc'[f] = pc[f]
  BY <1>1, <1>2, <1>4, <1>5 DEF Positions, Boot
<1>8. WorkInv'
  BY <1>1, <1>2, <1>3, <1>6, <1>7 DEF WorkInv, Threads
<1>9. CASE UNCHANGED <<currentThread, esp>>
  <2>1. \A t \in Threads : ~Runnable(tcb, t)
    BY <1>2, <1>5, <1>9 DEF Threads
  <2>2. pc'[Boot] = "system_finish" /\ Live = {}
    BY <1>1, <1>2, <1>4, <1>5, <1>9, <2>1 DEF Boot, Live, Threads
  <2>3. TypeOK'
    BY <1>3, <1>5, <1>7, <1>9 DEF TypeOK
  <2>4. PhaseInv'
    BY <1>2, <1>3, <1>6, <1>9, <2>2 DEF PhaseInv, Halted
  <2>5. RoundInv'
    BY <1>6, <2>2 DEF RoundInv
  <2> QED BY <1>6, <1>8, <2>3, <2>4, <2>5
<1>10. CASE ~UNCHANGED <<currentThread, esp>>
  <2>1. PICK next \in Threads :
           /\ next < created /\ Runnable(tcb, next)
           /\ \A t \in Between(currentThread, next) : ~Runnable(tcb, t)
           /\ currentThread' = next /\ esp' = next + 1
    BY <1>5, <1>10
  <2>2. next + 1 \in Jobs /\ next \in Live
    <3>1. next + 1 \in Jobs
      BY <1>1, <1>2, <2>1 DEF Threads
    <3>2. next \in Live
      BY <2>1 DEF Live
    <3> QED BY <3>1, <3>2
  <2>3. pc'[next + 1] = "fresh"
    BY <1>2, <1>7, <2>1, <2>2
  <2>4. TypeOK'
    BY <1>1, <1>3, <1>5, <1>7, <2>1, <2>2 DEF TypeOK
  <2>5. PhaseInv'
    <3>1. next # -1 /\ next + 1 # Boot
      BY <1>1, <2>1 DEF Boot, Threads
    <3>2. esp' # Boot /\ ~Halted'
      BY <2>1, <2>3, <3>1 DEF Halted
    <3>3. created' = Len(quota') /\ currentThread' \in Live'
      BY <1>2, <1>3, <1>6, <2>1, <2>2
    <3> QED BY <1>3, <2>1, <3>2, <3>3 DEF PhaseInv
  <2>6. RoundInv'
    <3>1. \A t \in Live' : t \in Threads /\ t + 1 \in Jobs /\ ~(t < next)
      <4>1. \A t \in Live : t \in Threads /\ t < created
        BY <1>1, <1>2 DEF Live, Runnable, SlotsInv, Threads
      <4>2. \A t \in Between(currentThread, next) : t \notin Live
        BY <2>1 DEF Live
      <4>3. \A t \in Threads : t < next => t \in Between(currentThread, next)
        BY <1>1, <1>2, <2>1 DEF Between, Threads
      <4> QED BY <1>1, <1>2, <1>6, <4>1, <4>2, <4>3 DEF Threads
    <3> QED BY <1>2, <1>3, <2>1, <3>1 DEF RoundInv, Threads
  <2> QED BY <1>6, <1>8, <2>4, <2>5, <2>6
<1> QED BY <1>9, <1>10

\* A thread's function sets its local count; its round is as it was.
LEMMA EnterPreserves == IInv /\ Enter => IInv'
<1> SUFFICES ASSUME IInv, Enter PROVE IInv'
  OBVIOUS
<1> USE DEF IInv
<1>1. /\ N \in Nat /\ Len(quota) \in Nat /\ Jobs = 1..Len(quota)
      /\ Stacks = 0..Len(quota) /\ \A f \in Jobs : quota[f] \in Nat
  BY ProgramFacts
<1>2. /\ currentThread \in Threads /\ currentThread \in Live
      /\ currentThread < created /\ created = Len(quota)
      /\ esp = currentThread + 1 /\ esp \in Jobs /\ esp # Boot
  BY RunningFacts DEF Enter
<1>3. /\ UNCHANGED <<quota, created, tcb, currentThread, esp, slices, row>>
      /\ Jobs' = Jobs /\ Stacks' = Stacks /\ Live' = Live
      /\ pc[esp] = "fresh"
      /\ pc' = [pc EXCEPT ![esp] = "loop"]
      /\ times' = [times EXCEPT ![esp] = quota[esp]]
  BY DEF Enter, Jobs, Stacks, Live, Runnable
<1>4. pc \in [Stacks -> Positions] /\ times \in [Jobs -> Nat] /\ slices \in [Jobs -> Nat]
  BY DEF TypeOK
<1>5. TypeOK'
  BY <1>1, <1>2, <1>3 DEF TypeOK, Positions
<1>6. SlotsInv' /\ RoundInv'
  BY <1>3 DEF SlotsInv, RoundInv
<1>7. PhaseInv'
  BY <1>1, <1>2, <1>3, <1>4 DEF PhaseInv, Halted
<1>8. WorkInv'
  <2>1. \A f \in Jobs : f # esp => pc'[f] = pc[f] /\ times'[f] = times[f]
    BY <1>1, <1>3, <1>4
  <2>2. pc'[esp] = "loop" /\ times'[esp] = quota[esp] /\ slices[esp] = 0
    BY <1>1, <1>2, <1>3, <1>4 DEF WorkInv
  <2>3. \A t \in Threads : t < created => t + 1 \in Jobs
    BY <1>1, <1>2 DEF Threads
  <2> QED BY <1>1, <1>2, <1>3, <2>1, <2>2, <2>3 DEF WorkInv, Threads
<1> QED BY <1>5, <1>6, <1>7, <1>8

\* A line printed and a yield: the thread has had its turn, the next live one is due.
LEMMA SlicePreserves == IInv /\ Slice => IInv'
<1> SUFFICES ASSUME IInv, Slice PROVE IInv'
  OBVIOUS
<1> USE DEF IInv
<1>1. /\ N \in Nat /\ N > 0 /\ Len(quota) \in Nat /\ Jobs = 1..Len(quota)
      /\ Stacks = 0..Len(quota) /\ \A f \in Jobs : quota[f] \in Nat
  BY ProgramFacts
<1>2. /\ currentThread \in Threads /\ currentThread \in Live
      /\ currentThread < created /\ created = Len(quota)
      /\ esp = currentThread + 1 /\ esp \in Jobs /\ esp # Boot
  BY RunningFacts DEF Slice
<1>3. /\ UNCHANGED <<quota, created>> /\ Jobs' = Jobs /\ Stacks' = Stacks
      /\ pc[esp] = "loop" /\ times[esp] # 0
      /\ times' = [times EXCEPT ![esp] = @ - 1]
      /\ slices' = [slices EXCEPT ![esp] = @ + 1]
  BY DEF Slice, Jobs, Stacks
<1>4. /\ tcb \in [Threads -> TCB] /\ pc \in [Stacks -> Positions]
      /\ times \in [Jobs -> Nat] /\ slices \in [Jobs -> Nat]
  BY DEF TypeOK, TCB
<1>5. /\ tcb' = tcb
      /\ row' \in Nat
      /\ \E next \in Threads :
            /\ next < created
            /\ Runnable(tcb, next)
            /\ \A t \in Between(currentThread, next) : ~Runnable(tcb, t)
            /\ currentThread' = next
            /\ esp' = next + 1
            /\ pc' = [pc EXCEPT ![esp] = "loop"]
  <2>1. \A t \in Threads : /\ t < created => tcb[t].stackPointer = t + 1
                           /\ t >= created => ~Runnable(tcb, t)
    BY <1>1, <1>2 DEF SlotsInv, Runnable, Threads
  <2>2. Scheduler(tcb, "loop", 1)
    BY DEF Slice
  <2>3. Runnable(tcb, currentThread)
    BY <1>2 DEF Live
  <2> QED BY <1>2, <1>4, <2>1, <2>2, <2>3, SchedulerLemma
<1>6. PICK next \in Threads :
        /\ next < created /\ Runnable(tcb, next)
        /\ \A t \in Between(currentThread, next) : ~Runnable(tcb, t)
        /\ currentThread' = next /\ esp' = next + 1
        /\ pc' = [pc EXCEPT ![esp] = "loop"]
  BY <1>5
<1>7. next + 1 \in Jobs /\ next \in Live
  <2>1. next + 1 \in Jobs
    BY <1>1, <1>2, <1>6 DEF Threads
  <2>2. next \in Live
    BY <1>6 DEF Live
  <2> QED BY <2>1, <2>2
<1>8. pc' = pc /\ SlotsInv' /\ Live' = Live
  BY <1>3, <1>4, <1>5, <1>6 DEF SlotsInv, Live, Runnable
<1>9. TypeOK'
  <2>1. times[esp] - 1 \in Nat /\ slices[esp] + 1 \in Nat
    BY <1>2, <1>3, <1>4
  <2>2. times' \in [Jobs -> Nat] /\ slices' \in [Jobs -> Nat]
    BY <1>2, <1>3, <1>4, <2>1
  <2>3. currentThread' \in Threads \cup {-1} /\ esp' \in Stacks'
    BY <1>1, <1>3, <1>6, <1>7
  <2> QED BY <1>3, <1>5, <1>8, <2>2, <2>3 DEF TypeOK
<1>10. PhaseInv'
  <2>1. pc[next + 1] \in {"fresh", "loop"}
    BY <1>6, <1>7 DEF WorkInv
  <2> QED BY <1>1, <1>2, <1>3, <1>6, <1>7, <1>8, <2>1 DEF PhaseInv, Halted, Boot, Threads
<1>11. WorkInv'
  <2>1. \A f \in Jobs : f # esp => times'[f] = times[f] /\ slices'[f] = slices[f]
    BY <1>3, <1>4
  <2>2. slices'[esp] + times'[esp] = quota[esp]
    <3>1. slices[esp] + times[esp] = quota[esp]
      BY <1>2, <1>3 DEF WorkInv
    <3> QED BY <1>1, <1>2, <1>3, <1>4, <3>1
  <2>3. \A t \in Threads : t < created => t + 1 \in Jobs
    BY <1>1, <1>2 DEF Threads
  <2>4. \A f \in Jobs : f > created \/ f > N => f # esp
    BY <1>1, <1>2 DEF Threads
  <2> QED BY <1>1, <1>2, <1>3, <1>8, <2>1, <2>2, <2>3, <2>4 DEF WorkInv, Threads
<1>12. RoundInv'
  <2>1. \A t \in Live : t \in Threads /\ t + 1 \in Jobs
    BY <1>1, <1>2 DEF Live, Runnable, SlotsInv, Threads
  <2>2. \A t \in Live : slices'[t + 1] =
            IF t = currentThread THEN slices[t + 1] + 1 ELSE slices[t + 1]
    BY <1>2, <1>3, <1>4, <2>1 DEF Threads
  <2>3. \A t \in Live : t \notin Between(currentThread, next)
    BY <1>6 DEF Live
  <2>4. \A t \in Live : slices[t + 1] \in Nat
    BY <1>4, <2>1
  <2>5. \A t \in Live : IF next > currentThread
                        THEN t < next <=> t < currentThread \/ t = currentThread
                        ELSE next <= t /\ t <= currentThread
    BY <1>1, <1>2, <2>1, <2>3 DEF Between, Threads
  <2> QED BY <1>2, <1>6, <1>8, <2>1, <2>2, <2>4, <2>5 DEF RoundInv, Threads
<1> QED BY <1>8, <1>9, <1>10, <1>11, <1>12

\* functionFinish frees the slot, and the rounds of the other threads are not disturbed.
LEMMA FinishPreserves == IInv /\ Finish => IInv'
<1> SUFFICES ASSUME IInv, Finish PROVE IInv'
  OBVIOUS
<1> USE DEF IInv
<1> DEFINE tab == MarkFinished(tcb)
           StillLive == Live \ {currentThread}
<1>1. /\ N \in Nat /\ N > 0 /\ Len(quota) \in Nat /\ Jobs = 1..Len(quota)
      /\ Stacks = 0..Len(quota) /\ \A f \in Jobs : quota[f] \in Nat
  BY ProgramFacts
<1>2. /\ currentThread \in Threads /\ currentThread \in Live
      /\ currentThread < created /\ created = Len(quota)
      /\ esp = currentThread + 1 /\ esp \in Jobs /\ esp # Boot
  BY RunningFacts DEF Finish
<1>3. /\ UNCHANGED <<quota, created, times, slices>>
      /\ Jobs' = Jobs /\ Stacks' = Stacks
      /\ pc[esp] = "loop" /\ times[esp] = 0
  BY DEF Finish, Jobs, Stacks
<1>4. /\ tcb \in [Threads -> TCB] /\ pc \in [Stacks -> Positions]
      /\ times \in [Jobs -> Nat] /\ slices \in [Jobs -> Nat]
  BY DEF TypeOK, TCB
<1>5. /\ tab \in [Threads -> TCB]
      /\ \A t \in Threads : /\ tab[t].function = tcb[t].function
                            /\ tab[t].stackPointer = tcb[t].stackPointer
                            /\ t # currentThread => tab[t] = tcb[t]
      /\ tab[currentThread].assigned = 0 /\ tab[currentThread].finished = 1
  BY <1>2, <1>4 DEF MarkFinished, TCB
<1>6. \A t \in Threads : Runnable(tab, t) <=> t \in StillLive
  BY <1>5 DEF Runnable, Live
<1>7. /\ tcb' = tab
      /\ row' \in Nat
      /\ \/ /\ \A t \in Threads : ~Runnable(tab, t)
            /\ pc' = [pc EXCEPT ![esp] = "system_finish"]
            /\ UNCHANGED <<currentThread, esp>>
         \/ \E next \in Threads :
            /\ next < created
            /\ Runnable(tab, next)
            /\ \A t \in Between(currentThread, next) : ~Runnable(tab, t)
            /\ currentThread' = next
            /\ esp' = next + 1
            /\ pc' = [pc EXCEPT ![esp] = "gone"]
  <2>1. \A t \in Threads : /\ t < created => tab[t].stackPointer = t + 1
                           /\ t >= created => ~Runnable(tab, t)
    BY <1>1, <1>2, <1>5, <1>6 DEF SlotsInv, Live, Runnable, Threads
  <2>2. Scheduler(tab, "gone", 1)
    BY DEF Finish
  <2> QED BY <1>2, <1>5, <2>1, <2>2, SchedulerLemma
<1>8. Live' = StillLive
  BY <1>6, <1>7 DEF Live
<1>9. SlotsInv'
  BY <1>2, <1>3, <1>5, <1>7 DEF SlotsInv
<1>10. /\ pc' \in [Stacks -> Positions]
       /\ pc'[esp] \in {"gone", "system_finish"}
       /\ \A f \in Stacks : f # esp => pc'[f] = pc[f]
  BY <1>1, <1>2, <1>4, <1>7 DEF Positions
<1>11. WorkInv'
  <2>1. slices[esp] = quota[esp]
    <3>1. slices[esp] + times[esp] = quota[esp]
      BY <1>2, <1>3 DEF WorkInv
    <3> QED BY <1>1, <1>2, <1>3, <1>4, <3>1
  <2>2. \A t \in Threads : t < created => t + 1 \in Jobs /\ t + 1 \in Stacks
    BY <1>1, <1>2 DEF Threads
  <2>3. \A f \in Jobs : f \in Stacks /\ (f > created \/ f > N => f # esp)
    BY <1>1, <1>2 DEF Threads
  <2>4. \A t \in Threads : t + 1 = esp <=> t = currentThread
    BY <1>1, <1>2 DEF Threads
  <2> QED BY <1>1, <1>2, <1>3, <1>8, <1>10, <2>1, <2>2, <2>3, <2>4 DEF WorkInv
<1>12. CASE UNCHANGED <<currentThread, esp>>
  <2>1. StillLive = {}
    BY <1>2, <1>6, <1>7, <1>12 DEF Live
  <2>2. TypeOK'
    BY <1>3, <1>5, <1>7, <1>10, <1>12 DEF TypeOK, TCB
  <2>3. pc'[esp] = "system_finish"
    <3>1. pc' = [pc EXCEPT ![esp] = "system_finish"]
      BY <1>6, <1>7, <2>1
    <3>2. esp \in Stacks
      BY <1>1, <1>2
    <3> QED BY <1>4, <3>1, <3>2
  <2>4. PhaseInv'
    BY <1>2, <1>3, <1>8, <1>12, <2>1, <2>3 DEF PhaseInv, Halted
  <2>5. RoundInv'
    BY <1>8, <2>1 DEF RoundInv
  <2> QED BY <1>9, <1>11, <2>2, <2>4, <2>5
<1>13. CASE ~UNCHANGED <<currentThread, esp>>
  <2>1. PICK next \in Threads :
           /\ next < created /\ next \in StillLive
           /\ \A t \in Between(currentThread, next) : t \notin StillLive
           /\ currentThread' = next /\ esp' = next + 1
    BY <1>6, <1>7, <1>13 DEF Between
  <2>2. next + 1 \in Jobs /\ next + 1 \in Stacks /\ next + 1 # esp
    BY <1>1, <1>2, <2>1 DEF Threads
  <2>3. TypeOK'
    BY <1>1, <1>3, <1>5, <1>7, <1>10, <2>1, <2>2 DEF TypeOK, TCB
  <2>4. PhaseInv'
    <3>1. pc'[next + 1] \in {"fresh", "loop"}
      BY <1>10, <2>1, <2>2 DEF WorkInv
    <3> QED BY <1>1, <1>2, <1>3, <1>8, <2>1, <2>2, <3>1 DEF PhaseInv, Halted, Boot, Threads
  <2>5. RoundInv'
    <3>1. \A t \in StillLive : t \in Live /\ t \in Threads /\ t # currentThread
      BY DEF Live
    <3>2. \A t \in StillLive : IF next > currentThread
                               THEN t < next <=> t < currentThread
                               ELSE next <= t /\ t < currentThread
      BY <1>1, <1>2, <2>1, <3>1 DEF Between, Threads
    <3> QED BY <1>2, <1>3, <1>8, <2>1, <3>1, <3>2 DEF RoundInv, Threads
  <2> QED BY <1>9, <1>11, <2>3, <2>4, <2>5
<1> QED BY <1>12, <1>13

\* Every action keeps the invariant.
LEMMA NextPreserves == IInv /\ [Next]_vars => IInv'
<1> SUFFICES ASSUME IInv, [Next]_vars PROVE IInv'
  OBVIOUS
<1>1. CASE CreateThread
  BY <1>1, CreateThreadPreserves
<1>2. CASE StartScheduler
  BY <1>2, StartSchedulerPreserves
<1>3. CASE Enter
  BY <1>3, EnterPreserves
<1>4. CASE Slice
  BY <1>4, SlicePreserves
<1>5. CASE Finish
  BY <1>5, FinishPreserves
<1>6. CASE UNCHANGED vars
  <2>1. UNCHANGED <<quota, created, tcb, currentThread, esp, pc, times, slices, row>>
    BY <1>6 DEF vars
  <2>2. Jobs' = Jobs /\ Stacks' = Stacks /\ Live' = Live /\ Halted' = Halted
    BY <2>1 DEF Jobs, Stacks, Live, Runnable, Halted
  <2>3. TypeOK'
    BY <2>1, <2>2 DEF IInv, TypeOK
  <2>4. SlotsInv' /\ PhaseInv' /\ WorkInv' /\ RoundInv'
    BY <2>1, <2>2 DEF IInv, SlotsInv, PhaseInv, WorkInv, RoundInv
  <2> QED BY <2>3, <2>4 DEF IInv
<1> QED BY <1>1, <1>2, <1>3, <1>4, <1>5, <1>6 DEF Next, SystemFinish

\* The five parts together are an invariant of every program on every number
\* of TCBs: no call of threadCreate, scheduler, functionYield or
\* functionFinish leaves them.
THEOREM Invariance == Spec => []IInv
<1>1. Init => IInv
  BY InitEstablishes
<1>2. IInv /\ [Next]_vars => IInv'
  BY NextPreserves
<1> QED BY <1>1, <1>2, PTL DEF Spec

\* The variables of FIFOS-1 always have their types; in particular esp is
\* one of the stacks and no loop counter runs below zero.
THEOREM TypeCorrect == Spec => []TypeOK
<1>1. IInv => TypeOK
  BY DEF IInv
<1> QED BY <1>1, Invariance, PTL

\* A context switch never mixes up two threads.
THEOREM StacksApart == Spec => []StacksKeptApart
<1>1. IInv => StacksKeptApart
  <2> SUFFICES ASSUME IInv PROVE StacksKeptApart
    OBVIOUS
  <2> USE DEF IInv
  <2>1. N \in Nat /\ created \in Nat /\ Stacks = 0..Len(quota) /\ Len(quota) \in Nat
    BY ProgramFacts DEF TypeOK
  <2>2. \A t \in Live : /\ t \in Threads /\ t < created
                        /\ tcb[t].stackPointer = t + 1 /\ Owner(t) = t + 1
    BY <2>1 DEF SlotsInv, Live, Runnable, Owner, Threads
  <2>3. \A t, u \in Live : t # u => Owner(t) # Owner(u)
    BY <2>1, <2>2 DEF Threads
  <2>4. esp # Boot /\ ~Halted => currentThread \in Live /\ esp = Owner(currentThread)
    BY <2>2 DEF PhaseInv
  <2> QED BY <2>2, <2>3, <2>4 DEF StacksKeptApart
<1> QED BY <1>1, Invariance, PTL

\* Of two live threads neither gets more than one turn ahead of the other.
THEOREM Fairness == Spec => []FairShare
<1>1. IInv => FairShare
  <2> SUFFICES ASSUME IInv, NEW t \in Live, NEW u \in Live
               PROVE  slices[Owner(t)] <= slices[Owner(u)] + 1
    BY DEF FairShare
  <2> USE DEF IInv
  <2>1. /\ N \in Nat /\ created \in Nat /\ Len(quota) \in Nat
        /\ created <= Len(quota) /\ Jobs = 1..Len(quota)
        /\ slices \in [Jobs -> Nat] /\ currentThread \in Threads \cup {-1}
    BY ProgramFacts DEF TypeOK
  <2>2. \A v \in Live : /\ v \in Threads /\ v < created /\ Owner(v) = v + 1
    BY <2>1 DEF SlotsInv, Live, Runnable, Owner, Threads
  <2>3. /\ t \in Int /\ u \in Int /\ currentThread \in Int
        /\ slices[t + 1] \in Nat /\ slices[u + 1] \in Nat
    BY <2>1, <2>2 DEF Threads
  <2>4. \/ slices[t + 1] = slices[u + 1]
        \/ slices[t + 1] = slices[u + 1] + 1
        \/ slices[u + 1] = slices[t + 1] + 1
    BY <2>3 DEF RoundInv
  <2> QED BY <2>2, <2>3, <2>4
<1> QED BY <1>1, Invariance, PTL

\* When "All threads done" is printed, every job with a TCB has printed its
\* whole quota and not a line more.
THEOREM Exactness == Spec => []ExactQuota
<1>1. IInv => ExactQuota
  <2> SUFFICES ASSUME IInv, Halted, NEW f \in Jobs
               PROVE  slices[f] = IF f <= N THEN quota[f] ELSE 0
    BY DEF ExactQuota
  <2> USE DEF IInv
  <2>1. /\ N \in Nat /\ Len(quota) \in Nat /\ Jobs = 1..Len(quota)
    BY ProgramFacts
  <2>2. created = Len(quota) /\ Live = {}
    BY DEF PhaseInv, Halted
  <2>3. CASE f <= N
    <3>1. f - 1 \in Threads /\ f - 1 < created /\ (f - 1) + 1 = f
      BY <2>1, <2>2, <2>3 DEF Threads
    <3>2. slices[(f - 1) + 1] = quota[(f - 1) + 1]
      BY <2>2, <3>1 DEF WorkInv
    <3> QED BY <2>3, <3>1, <3>2
  <2>4. CASE ~(f <= N)
    BY <2>1, <2>4 DEF WorkInv
  <2> QED BY <2>3, <2>4
<1> QED BY <1>1, Invariance, PTL

-----------------------------------------------------------------------------
(* The screen.                                                             *)

\* s[k] is the sum of the first k of the n numbers w.
Adds(s, w, n) ==
    /\ s \in [0..n -> Nat] /\ s[0] = 0
    /\ \A k \in 1..n : s[k] = s[k - 1] + w[k]

\* The lines a job has printed: its name, and that it is finished.
Printed(f) == slices[f] + IF pc[f] \in {"gone", "system_finish"} THEN 1 ELSE 0

\* The row is what was printed: the welcome text, a line for each call of
\* threadCreate, the lines of the jobs, and "All threads done".
RowInv == \E s :
    /\ Adds(s, [f \in Jobs |-> Printed(f)], Len(quota))
    /\ row = 2 + created + s[Len(quota)] + IF Halted THEN 1 ELSE 0

\* The most that program q prints, in a row: every job that gets a TCB prints
\* its quota and a line more.
Lines(q, s) == Adds(s, [f \in DOMAIN q |-> IF f <= N THEN q[f] + 1 ELSE 0], Len(q))

\* q fits on the screen, with the welcome text, a line for each job, the last line.
Fits(q) == \E s : Lines(q, s) /\ 3 + Len(q) + s[Len(q)] <= VGA_HEIGHT

\* With one of the numbers greater by one, so is the sum.
LEMMA AddsOne ==
    ASSUME NEW n \in Nat, NEW w, NEW v, NEW s, Adds(s, w, n), NEW f \in 1..n,
           \A k \in 1..n : w[k] \in Nat,
           v[f] = w[f] + 1, \A k \in 1..n : k # f => v[k] = w[k]
    PROVE  \E r : Adds(r, v, n) /\ r[n] = s[n] + 1
<1> DEFINE r == [k \in 0..n |-> IF k >= f THEN s[k] + 1 ELSE s[k]]
<1>1. s \in [0..n -> Nat] /\ s[0] = 0 /\ \A k \in 1..n : s[k] = s[k - 1] + w[k]
  BY DEF Adds
<1>2. r \in [0..n -> Nat] /\ r[0] = 0 /\ r[n] = s[n] + 1
  BY <1>1
<1>3. ASSUME NEW k \in 1..n PROVE r[k] = r[k - 1] + v[k]
  <2>1. /\ k - 1 \in 0..n /\ k \in 0..n /\ s[k] = s[k - 1] + w[k]
        /\ s[k - 1] \in Nat /\ w[k] \in Nat
    BY <1>1
  <2>2. CASE k < f
    BY <2>1, <2>2
  <2>3. CASE k = f
    BY <2>1, <2>3
  <2>4. CASE k > f
    BY <2>1, <2>4
  <2> QED BY <2>2, <2>3, <2>4
<1> HIDE DEF r
<1> QED BY <1>2, <1>3 DEF Adds

\* The sum of numbers that are no greater is no greater.
LEMMA AddsUpTo ==
    ASSUME NEW n \in Nat, NEW w, NEW v, NEW s, NEW r, Adds(s, w, n), Adds(r, v, n),
           \A k \in 1..n : w[k] \in Nat /\ v[k] \in Nat /\ w[k] <= v[k]
    PROVE  s[n] <= r[n]
<1> DEFINE Bad == {k \in 0..n : ~(s[k] <= r[k])}
<1>1. /\ \A k \in 0..n : s[k] \in Nat /\ r[k] \in Nat
      /\ s[0] = 0 /\ r[0] = 0
      /\ \A k \in 1..n : s[k] = s[k - 1] + w[k] /\ r[k] = r[k - 1] + v[k]
  BY DEF Adds
<1>2. Bad = {}
  <2> SUFFICES ASSUME Bad # {} PROVE FALSE
    OBVIOUS
  <2> DEFINE k == Min(Bad)
  <2>1. k \in Bad /\ \A j \in Bad : k <= j
    <3>1. Bad \in SUBSET Nat
      OBVIOUS
    <3> HIDE DEF Bad
    <3> QED BY <3>1, MinLemma
  <2> HIDE DEF k
  <2>2. k \in 1..n
    <3>1. k \in 0..n /\ ~(s[k] <= r[k])
      BY <2>1
    <3>2. k # 0
      BY <1>1, <3>1
    <3> QED BY <3>1, <3>2
  <2>3. k - 1 \in 0..n /\ ~(k <= k - 1)
    BY <2>2
  <2>4. k - 1 \notin Bad
    <3> HIDE DEF Bad
    <3> QED BY <2>1, <2>3
  <2>5. s[k - 1] <= r[k - 1]
    BY <2>3, <2>4
  <2>6. s[k] <= r[k]
    BY <1>1, <2>2, <2>3, <2>5
  <2> QED BY <2>1, <2>6
<1> QED BY <1>2

\* What RowInv needs to know of types.
LEMMA PrintedTypes ==
    ASSUME TypeOK
    PROVE  /\ Len(quota) \in Nat /\ Jobs = 1..Len(quota) /\ created \in Nat /\ row \in Nat
           /\ Boot \notin Jobs
           /\ \A f \in Jobs : Printed(f) \in Nat /\ slices[f] \in Nat
<1>1. /\ Len(quota) \in Nat /\ Jobs = 1..Len(quota) /\ created \in Nat /\ row \in Nat
      /\ \A f \in Jobs : slices[f] \in Nat
  BY ProgramFacts DEF TypeOK
<1> QED BY <1>1 DEF Printed, Boot

\* At boot only the welcome text is there.
LEMMA InitRow == Init => RowInv
<1> SUFFICES ASSUME Init PROVE RowInv
  OBVIOUS
<1>1. TypeOK
  BY InitEstablishes DEF IInv
<1>2. Len(quota) \in Nat /\ Jobs = 1..Len(quota) /\ Stacks = 0..Len(quota)
  BY <1>1, ProgramFacts
<1>3. \A f \in Jobs : Printed(f) = 0
  BY <1>2 DEF Init, Printed, Boot
<1>4. ~Halted /\ created = 0 /\ row = 2
  BY <1>2 DEF Init, Halted, Boot
<1> DEFINE s == [k \in 0..Len(quota) |-> 0]
<1>5. Adds(s, [f \in Jobs |-> Printed(f)], Len(quota)) /\ s[Len(quota)] = 0
  BY <1>2, <1>3 DEF Adds
<1> QED BY <1>4, <1>5 DEF RowInv

\* A step in which no job prints: at most a line of threadCreate, or the last one.
LEMMA RowSame ==
    ASSUME TypeOK, RowInv, quota' = quota, \A f \in Jobs : Printed(f)' = Printed(f),
           NEW n \in {0, 1},
           \/ (Halted' <=> Halted) /\ row' = row + n /\ created' = created + n
           \/ ~Halted /\ Halted' /\ row' = row + 1 /\ created' = created
    PROVE  RowInv'
<1>1. PICK s : /\ Adds(s, [f \in Jobs |-> Printed(f)], Len(quota))
               /\ row = 2 + created + s[Len(quota)] + IF Halted THEN 1 ELSE 0
  BY DEF RowInv
<1>2. Jobs' = Jobs /\ Len(quota) \in Nat /\ created \in Nat
  <2>1. Jobs' = Jobs
    BY DEF Jobs
  <2> QED BY <2>1, PrintedTypes
<1>3. Adds(s, [f \in Jobs' |-> Printed(f)'], Len(quota'))
  <2>1. [f \in Jobs' |-> Printed(f)'] = [f \in Jobs |-> Printed(f)]
    BY <1>2
  <2> QED BY <1>1, <2>1
<1> DEFINE sum == s[Len(quota)]
<1>4. sum \in Nat /\ s[Len(quota')] = sum
  BY <1>1, <1>2 DEF Adds
<1>5. row' = 2 + created' + s[Len(quota')] + IF Halted' THEN 1 ELSE 0
  <2>1. row = 2 + created + sum + IF Halted THEN 1 ELSE 0
    BY <1>1
  <2> HIDE DEF sum
  <2>2. CASE Halted
    <3>1. row = 2 + created + sum + 1 /\ Halted' /\ row' = row + n /\ created' = created + n
      BY <2>1, <2>2
    <3>2. row' = 2 + created' + sum + 1
      BY <1>2, <1>4, <3>1
    <3> QED BY <1>4, <3>1, <3>2
  <2>3. CASE ~Halted /\ ~Halted'
    <3>1. row = 2 + created + sum + 0 /\ row' = row + n /\ created' = created + n
      BY <2>1, <2>3
    <3>2. row' = 2 + created' + sum + 0
      BY <1>2, <1>4, <3>1
    <3> QED BY <1>4, <2>3, <3>2
  <2>4. CASE ~Halted /\ Halted'
    <3>1. row = 2 + created + sum + 0 /\ row' = row + 1 /\ created' = created
      BY <2>1, <2>4
    <3>2. row' = 2 + created' + sum + 1
      BY <1>2, <1>4, <3>1
    <3> QED BY <1>4, <2>4, <3>2
  <2> QED BY <2>2, <2>3, <2>4
<1> QED BY <1>3, <1>5, Zenon DEF RowInv

\* A step in which one job prints a line.
LEMMA RowOne ==
    ASSUME TypeOK, RowInv, quota' = quota, created' = created, ~Halted, NEW g \in Jobs,
           Printed(g)' = Printed(g) + 1, \A f \in Jobs : f # g => Printed(f)' = Printed(f),
           row' = row + 1 + IF Halted' THEN 1 ELSE 0
    PROVE  RowInv'
<1> DEFINE n == Len(quota)
           w == [f \in Jobs |-> Printed(f)]
           v == [f \in Jobs |-> Printed(f)']
<1>1. PICK s : Adds(s, w, n) /\ row = 2 + created + s[n] + 0
  BY DEF RowInv
<1>2. Jobs' = Jobs /\ Jobs = 1..n /\ n \in Nat /\ created \in Nat /\ \A f \in Jobs : w[f] \in Nat
  <2>1. Jobs' = Jobs
    BY DEF Jobs
  <2> QED BY <2>1, PrintedTypes
<1>3. v[g] = w[g] + 1 /\ \A f \in Jobs : f # g => v[f] = w[f]
  OBVIOUS
<1> HIDE DEF w, n
<1>4. PICK r : Adds(r, v, n) /\ r[n] = s[n] + 1
  <2> HIDE DEF v
  <2> QED BY <1>1, <1>2, <1>3, AddsOne
<1>5. s[n] \in Nat
  BY <1>1, <1>2 DEF Adds
<1>6. Adds(r, [f \in Jobs' |-> Printed(f)'], Len(quota'))
  BY <1>2, <1>4 DEF n
<1>7. row' = 2 + created' + r[Len(quota')] + IF Halted' THEN 1 ELSE 0
  BY <1>1, <1>2, <1>4, <1>5 DEF n
<1> QED BY <1>6, <1>7 DEF RowInv

\* The rows that a call of scheduler adds, and whether the system halts in it.
LEMMA SchedulerRow ==
    ASSUME TypeOK, TypeOK', PhaseInv', NEW tab \in [Threads -> TCB], NEW at, NEW k,
           Scheduler(tab, at, k)
    PROVE  \/ /\ pc' = [pc EXCEPT ![esp] = "system_finish"] /\ Halted'
              /\ row' = row + (k + 1) /\ \A t \in Threads : ~Runnable(tab, t)
           \/ /\ pc' = [pc EXCEPT ![esp] = at] /\ ~Halted'
              /\ row' = row + k
<1> DEFINE next == NextThread(tab, currentThread)
<1>1. currentThread \in Threads \cup {-1} /\ pc \in [Stacks -> Positions] /\ esp \in Stacks
  BY DEF TypeOK
<1>2. CASE next = infinit
  <2>1. /\ pc' = [pc EXCEPT ![esp] = "system_finish"] /\ row' = row + (k + 1) /\ esp' = esp
    BY <1>2 DEF Scheduler, PrintLines
  <2>2. Halted'
    BY <1>1, <2>1 DEF Halted
  <2>3. \A t \in Threads : ~Runnable(tab, t)
    BY <1>1, <1>2, NextThreadLemma
  <2> QED BY <2>1, <2>2, <2>3
<1>3. CASE next # infinit
  <2>1. /\ pc' = [pc EXCEPT ![esp] = at] /\ row' = row + k
        /\ tcb' = SaveContext(tab, currentThread, esp)
    BY <1>3 DEF Scheduler, PrintLines
  <2>2. next \in Threads /\ Runnable(tab, next)
    BY <1>1, <1>3, NextThreadLemma
  <2>3. Runnable(tcb', next)
    <3>1. tcb'[next].assigned = tab[next].assigned /\ tcb'[next].finished = tab[next].finished
      <4>1. CASE currentThread = -1
        BY <2>1, <4>1 DEF SaveContext
      <4>2. CASE currentThread # -1
        <5>1. tcb' = [tab EXCEPT ![currentThread].stackPointer = esp] /\ currentThread \in Threads
          BY <1>1, <2>1, <4>2 DEF SaveContext
        <5> QED BY <2>2, <5>1 DEF TCB
      <4> QED BY <4>1, <4>2
    <3> QED BY <2>2, <3>1 DEF Runnable
  <2>4. next \in Live'
    BY <2>2, <2>3 DEF Live
  <2>5. ~Halted'
    BY <2>4 DEF PhaseInv
  <2> QED BY <2>1, <2>5
<1> QED BY <1>2, <1>3

\* Every step keeps the count of the rows.
LEMMA NextRow == IInv /\ IInv' /\ RowInv /\ [Next]_vars => RowInv'
<1> SUFFICES ASSUME IInv, IInv', RowInv, [Next]_vars PROVE RowInv'
  OBVIOUS
<1>1. /\ TypeOK /\ TypeOK' /\ PhaseInv /\ PhaseInv' /\ WorkInv /\ tcb \in [Threads -> TCB]
      /\ pc \in [Stacks -> Positions] /\ esp \in Stacks
  BY DEF IInv, TypeOK, TCB
<1>2. /\ Len(quota) \in Nat /\ Jobs = 1..Len(quota) /\ created \in Nat /\ row \in Nat
      /\ Boot \notin Jobs /\ Stacks = {Boot} \cup Jobs
      /\ \A f \in Jobs : Printed(f) \in Nat /\ slices[f] \in Nat
  BY <1>1, PrintedTypes DEF Stacks
<1>3. CASE CreateThread
  <2>1. /\ pc[esp] = "init" /\ created < Len(quota) /\ created' = created + 1
        /\ quota' = quota /\ slices' = slices /\ row' = row + 1 /\ esp' = esp
        /\ (pc' = pc \/ pc' = [pc EXCEPT ![created + 1] = "fresh"])
    BY <1>3 DEF CreateThread, PrintLines
  <2>2. esp = Boot
    BY <2>1, BootFacts
  <2>3. created + 1 \in Jobs /\ pc[created + 1] = "unused"
    BY <1>1, <1>2, <2>1 DEF WorkInv
  <2>4. \A f \in Jobs : Printed(f)' = Printed(f)
    BY <1>1, <1>2, <2>1, <2>3 DEF Printed
  <2>5. ~Halted /\ ~Halted'
    BY <1>1, <1>2, <2>1, <2>2, <2>3 DEF Halted
  <2> QED BY <1>1, <1>2, <2>1, <2>4, <2>5, RowSame
<1>4. CASE StartScheduler
  <2>1. /\ pc[esp] = "init" /\ created' = created /\ quota' = quota /\ slices' = slices
        /\ Scheduler(tcb, "abandoned", 0)
    BY <1>4 DEF StartScheduler
  <2>2. esp = Boot /\ ~Halted
    BY <2>1, BootFacts DEF Halted
  <2>3. /\ \A f \in Jobs : pc'[f] = pc[f]
        /\ row' = row + IF Halted' THEN 1 ELSE 0
    BY <1>1, <1>2, <2>1, <2>2, SchedulerRow
  <2>4. \A f \in Jobs : Printed(f)' = Printed(f)
    BY <2>1, <2>3 DEF Printed
  <2> QED BY <1>1, <1>2, <2>1, <2>2, <2>3, <2>4, RowSame
<1>5. CASE Enter
  <2>1. /\ pc[esp] = "fresh" /\ pc' = [pc EXCEPT ![esp] = "loop"] /\ esp' = esp
        /\ created' = created /\ quota' = quota /\ slices' = slices /\ row' = row
    BY <1>5 DEF Enter
  <2>2. \A f \in Jobs : Printed(f)' = Printed(f)
    BY <1>1, <1>2, <2>1 DEF Printed
  <2>3. ~Halted /\ ~Halted'
    BY <1>1, <2>1 DEF Halted
  <2> QED BY <1>1, <1>2, <2>1, <2>2, <2>3, RowSame
<1>6. CASE Slice
  <2>1. /\ pc[esp] = "loop" /\ slices' = [slices EXCEPT ![esp] = @ + 1]
        /\ created' = created /\ quota' = quota /\ Scheduler(tcb, "loop", 1)
    BY <1>6 DEF Slice
  <2>2. esp \in Jobs /\ currentThread \in Live /\ ~Halted
    BY <2>1, RunningFacts DEF Halted
  <2>3. pc' = [pc EXCEPT ![esp] = "loop"] /\ ~Halted' /\ row' = row + 1
    BY <1>1, <2>1, <2>2, SchedulerRow DEF Live
  <2>4. slices \in [Jobs -> Nat]
    BY <1>1 DEF TypeOK
  <2>5. PICK g \in Jobs : g = esp
    BY <2>2
  <2>6. Printed(g)' = Printed(g) + 1 /\ \A f \in Jobs : f # g => Printed(f)' = Printed(f)
    <3>1. /\ slices'[g] = slices[g] + 1 /\ pc'[g] = "loop" /\ pc[g] = "loop"
          /\ \A f \in Jobs : f # g => slices'[f] = slices[f] /\ pc'[f] = pc[f]
      BY <1>1, <1>2, <2>1, <2>3, <2>4, <2>5
    <3>2. slices'[g] + 0 = slices[g] + 0 + 1
      BY <1>2, <3>1
    <3> QED BY <3>1, <3>2 DEF Printed
  <2> QED BY <1>1, <1>2, <2>1, <2>2, <2>3, <2>6, RowOne
<1>7. CASE Finish
  <2> DEFINE tab == MarkFinished(tcb)
  <2>1. /\ pc[esp] = "loop" /\ slices' = slices
        /\ created' = created /\ quota' = quota /\ Scheduler(tab, "gone", 1)
    BY <1>7 DEF Finish
  <2>2. esp \in Jobs /\ currentThread \in Threads /\ ~Halted
    BY <2>1, RunningFacts DEF Halted
  <2>3. tab \in [Threads -> TCB]
    BY <1>1, <2>2 DEF MarkFinished, TCB
  <2> HIDE DEF tab
  <2>4. /\ \/ pc' = [pc EXCEPT ![esp] = "gone"]
           \/ pc' = [pc EXCEPT ![esp] = "system_finish"]
        /\ row' = row + 1 + IF Halted' THEN 1 ELSE 0
    <3>1. \/ pc' = [pc EXCEPT ![esp] = "system_finish"] /\ Halted' /\ row' = row + (1 + 1)
          \/ pc' = [pc EXCEPT ![esp] = "gone"] /\ ~Halted' /\ row' = row + 1
      BY <1>1, <2>1, <2>3, SchedulerRow
    <3> QED BY <1>2, <3>1
  <2>5. PICK g \in Jobs : g = esp
    BY <2>2
  <2>6. Printed(g)' = Printed(g) + 1 /\ \A f \in Jobs : f # g => Printed(f)' = Printed(f)
    <3>1. /\ pc'[g] \in {"gone", "system_finish"} /\ pc[g] = "loop"
          /\ \A f \in Jobs : f # g => pc'[f] = pc[f]
      BY <1>1, <1>2, <2>1, <2>4, <2>5
    <3>2. slices[g] + 1 = slices[g] + 0 + 1
      BY <1>2
    <3> QED BY <2>1, <3>1, <3>2 DEF Printed
  <2> QED BY <1>1, <1>2, <2>1, <2>2, <2>4, <2>6, RowOne
<1>8. CASE UNCHANGED vars
  <2>1. /\ created' = created /\ quota' = quota /\ slices' = slices /\ row' = row
        /\ pc' = pc /\ esp' = esp
    BY <1>8 DEF vars
  <2>2. (\A f \in Jobs : Printed(f)' = Printed(f)) /\ Halted' = Halted
    BY <2>1 DEF Printed, Halted
  <2> QED BY <1>1, <1>2, <2>1, <2>2, RowSame
<1> QED BY <1>3, <1>4, <1>5, <1>6, <1>7, <1>8 DEF Next, SystemFinish

\* A job prints no more lines than its quota and one.
LEMMA PrintedUpTo ==
    ASSUME IInv, NEW f \in Jobs
    PROVE  /\ Printed(f) \in Nat /\ quota[f] \in Nat
           /\ Printed(f) <= IF f <= N THEN quota[f] + 1 ELSE 0
<1>1. /\ TypeOK /\ WorkInv /\ N \in Nat /\ Len(quota) \in Nat /\ Jobs = 1..Len(quota)
      /\ quota[f] \in Nat /\ Printed(f) \in Nat /\ created \in Nat
      /\ slices[f] \in Nat /\ times[f] \in Nat
  BY ProgramFacts, PrintedTypes DEF IInv, TypeOK
<1>2. CASE f > created \/ f > N
  <2>1. pc[f] = "unused" /\ slices[f] = 0
    BY <1>1, <1>2 DEF WorkInv
  <2>2. Printed(f) = 0
    BY <2>1 DEF Printed
  <2> QED BY <1>1, <2>2
<1>3. CASE f <= created /\ f <= N
  <2> DEFINE t == f - 1
  <2>1. t \in Threads /\ t < created /\ t + 1 = f
    BY <1>1, <1>3 DEF Threads
  <2> HIDE DEF t
  <2>2. \/ pc[f] \in {"fresh", "loop"} /\ slices[f] <= quota[f]
        \/ slices[f] = quota[f]
    BY <1>1, <2>1 DEF WorkInv
  <2>3. Printed(f) <= quota[f] + 1
    BY <1>1, <2>2 DEF Printed
  <2> QED BY <1>1, <1>3, <2>3
<1> QED BY <1>1, <1>2, <1>3

\* A program whose lines fit on the screen stays there, whatever the order in
\* which its threads print.
LEMMA FittingFits ==
    ASSUME IInv, RowInv, Fits(quota)
    PROVE  ScreenFits
<1> DEFINE n == Len(quota)
           w == [f \in Jobs |-> Printed(f)]
           v == [f \in Jobs |-> IF f <= N THEN quota[f] + 1 ELSE 0]
<1>1. /\ TypeOK /\ n \in Nat /\ Jobs = 1..n /\ created \in Nat /\ created <= n /\ N \in Nat
  BY ProgramFacts DEF IInv, TypeOK
<1>2. PICK s : Adds(s, w, n) /\ row = 2 + created + s[n] + IF Halted THEN 1 ELSE 0
  BY DEF RowInv
<1>3. PICK r : Adds(r, v, n) /\ 3 + n + r[n] <= VGA_HEIGHT
  BY DEF Fits, Lines, Jobs
<1>4. \A f \in 1..n : w[f] \in Nat /\ v[f] \in Nat /\ w[f] <= v[f]
  BY <1>1, PrintedUpTo
<1> HIDE DEF w, v, n
<1>5. s[n] <= r[n]
  BY <1>1, <1>2, <1>3, <1>4, AddsUpTo
<1>6. s[n] \in Nat /\ r[n] \in Nat
  BY <1>1, <1>2, <1>3 DEF Adds
<1>7. row <= VGA_HEIGHT
  BY <1>1, <1>2, <1>3, <1>5, <1>6 DEF VGA_HEIGHT
<1> QED BY <1>7 DEF ScreenFits

\* terminal_row stays on the screen, which terminal_writestring does not see to, if
\* the lines of every program fit there.
THEOREM StaysOnScreen ==
    ASSUME \A q \in Workloads : Fits(q)
    PROVE  Spec => []ScreenFits
<1>1. Init => IInv /\ RowInv
  BY InitEstablishes, InitRow
<1>2. IInv /\ RowInv /\ [Next]_vars => IInv' /\ RowInv'
  BY NextPreserves, NextRow
<1>3. IInv /\ RowInv => ScreenFits
  BY FittingFits DEF IInv, TypeOK
<1> QED BY <1>1, <1>2, <1>3, PTL DEF Spec

\* The program of init.c fits: three threads that print 3, 4 and 5 lines.
LEMMA ShippedFits ==
    ASSUME N = 3
    PROVE  Fits(<<3, 4, 5>>)
<1> DEFINE q == <<3, 4, 5>>
           s == [k \in 0..3 |-> IF k = 0 THEN 0 ELSE IF k = 1 THEN 4 ELSE IF k = 2 THEN 9 ELSE 15]
<1>1. Len(q) = 3 /\ DOMAIN q = 1..3 /\ q[1] = 3 /\ q[2] = 4 /\ q[3] = 5
  OBVIOUS
<1>2. s \in [0..3 -> Nat] /\ s[0] = 0 /\ s[1] = 4 /\ s[2] = 9 /\ s[3] = 15
  OBVIOUS
<1> HIDE DEF q, s
<1> DEFINE w == [f \in DOMAIN q |-> IF f <= N THEN q[f] + 1 ELSE 0]
<1>3. w[1] = 4 /\ w[2] = 5 /\ w[3] = 6
  BY <1>1
<1> HIDE DEF w
<1>4. Adds(s, w, 3)
  <2>1. ASSUME NEW k \in 1..3 PROVE s[k] = s[k - 1] + w[k]
    <3>1. k = 1 \/ k = 2 \/ k = 3
      OBVIOUS
    <3> QED BY <1>2, <1>3, <3>1
  <2> QED BY <1>2, <2>1 DEF Adds
<1>5. Lines(q, s)
  BY <1>1, <1>4 DEF Lines, w
<1>6. 3 + Len(q) + s[Len(q)] <= VGA_HEIGHT
  BY <1>1, <1>2 DEF VGA_HEIGHT
<1> QED BY <1>5, <1>6 DEF Fits, q

\* So it stays on the screen.
THEOREM ShippedStays ==
    ASSUME N = 3, Workloads = {<<3, 4, 5>>}
    PROVE  Spec => []ScreenFits
BY ShippedFits, StaysOnScreen

-----------------------------------------------------------------------------
(* The refinement.                                                         *)

\* The place nearest ahead of cur is the first present one that the search
\* loop of scheduler meets.
LEMMA PassTurnLemma ==
    ASSUME NEW w, NEW cur \in Threads \cup {-1}, NEW next \in Threads,
           w[next] # -1,
           \A t \in Between(cur, next) : w[t] = -1
    PROVE  RR!PassTurn(w, cur) = next
<1>1. N \in Nat /\ N > 0
  BY NAssumption DEF infinit
<1>2. RR!Places = Threads /\ RR!Absent = -1
  BY DEF RR!Places, RR!Absent, Threads
<1>3. ASSUME NEW b \in Threads
      PROVE  RR!Distance(cur, b) = IF b > cur THEN b - cur - 1 ELSE b - cur - 1 + N
  <2>1. CASE b > cur
    <3>1. b - cur - 1 \in 0..N-1
      BY <1>1, <2>1 DEF Threads
    <3>2. (b - cur - 1) % N = b - cur - 1
      BY <1>1, <3>1
    <3> QED BY <2>1, <3>2 DEF RR!Distance
  <2>2. CASE ~(b > cur)
    <3>1. b - cur - 1 + N \in 0..N-1 /\ b - cur - 1 \in Int
      BY <1>1, <2>2 DEF Threads
    <3>2. (b - cur - 1) % N = b - cur - 1 + N
      BY <1>1, <3>1
    <3> QED BY <2>2, <3>2 DEF RR!Distance
  <2> QED BY <2>1, <2>2
<1>4. next \in RR!Present(w)
  BY <1>2 DEF RR!Present
<1>5. \A c \in RR!Present(w) : c \in Threads /\ c \notin Between(cur, next)
  BY <1>2 DEF RR!Present
<1>6. \A c \in RR!Present(w) : RR!Distance(cur, next) <= RR!Distance(cur, c)
  BY <1>1, <1>3, <1>5 DEF Between, Threads
<1>7. \A b \in RR!Present(w) : RR!Distance(cur, b) = RR!Distance(cur, next) => b = next
  BY <1>1, <1>3, <1>5 DEF Threads
<1>8. \A b \in RR!Present(w) : RR!Distance(cur, b) \in Int
  BY <1>1, <1>3, <1>5 DEF Threads
<1>9. RR!Nearest(w, cur) = next
  <2>1. \A b \in RR!Present(w) :
           (\A c \in RR!Present(w) : RR!Distance(cur, b) <= RR!Distance(cur, c)) <=> b = next
    BY <1>4, <1>6, <1>7, <1>8
  <2> QED BY <1>4, <2>1 DEF RR!Nearest
<1> QED BY <1>4, <1>9 DEF RR!PassTurn

\* With no thread left the turn passes to the end.
LEMMA PassTurnEmpty ==
    ASSUME NEW w, NEW cur, \A t \in Threads : w[t] = -1
    PROVE  RR!PassTurn(w, cur) = N
BY DEF RR!PassTurn, RR!Present, RR!Places, RR!Absent, RR!Halt, Threads

\* The refinement mapping, with the slots in place of the jobs.
LEMMA MappingFacts ==
    ASSUME IInv
    PROVE  /\ \A t \in Live : t \in Threads /\ t < created /\ t + 1 \in Jobs
           /\ WorkLeft = [t \in Threads |->
                            IF t \notin Live THEN -1
                            ELSE IF pc[t + 1] = "fresh" THEN quota[t + 1]
                            ELSE times[t + 1]]
           /\ \A t \in Live : WorkLeft[t] \in Nat
<1> USE DEF IInv
<1>1. /\ N \in Nat /\ created \in Nat /\ Len(quota) \in Nat /\ created <= Len(quota)
      /\ Jobs = 1..Len(quota) /\ \A f \in Jobs : quota[f] \in Nat
      /\ times \in [Jobs -> Nat]
  BY ProgramFacts DEF TypeOK
<1>2. \A t \in Live : t \in Threads /\ t < created /\ Owner(t) = t + 1
  BY <1>1 DEF SlotsInv, Live, Runnable, Owner, Threads
<1>3. \A t \in Live : t + 1 \in Jobs
  BY <1>1, <1>2 DEF Threads
<1>4. WorkLeft = [t \in Threads |->
                    IF t \notin Live THEN -1
                    ELSE IF pc[t + 1] = "fresh" THEN quota[t + 1]
                    ELSE times[t + 1]]
  BY <1>2 DEF WorkLeft
<1> QED BY <1>1, <1>2, <1>3, <1>4

\* Before the first thread nothing is to be done.
LEMMA InitRefines == Init => RR!Init
<1> SUFFICES ASSUME Init PROVE RR!Init
  OBVIOUS
<1>1. Live = {}
  BY DEF Init, Live, Runnable, InitTCBArray
<1>2. ~Halted /\ currentThread = -1
  BY DEF Init, Halted, Stacks
<1> QED BY <1>1, <1>2
        DEF RR!Init, WorkLeft, Turn, RR!Places, RR!Absent, RR!Boot, Threads

\* threadCreate adds work, or changes nothing.
LEMMA CreateThreadRefines == IInv /\ CreateThread => [RR!Next]_RR!vars
<1> SUFFICES ASSUME IInv, CreateThread PROVE [RR!Next]_RR!vars
  OBVIOUS
<1>1. /\ N \in Nat /\ N > 0 /\ created \in Nat /\ Len(quota) \in Nat
      /\ Jobs = 1..Len(quota) /\ Stacks = 0..Len(quota)
      /\ tcb \in [Threads -> TCB] /\ pc \in [Stacks -> Positions]
      /\ \A f \in Jobs : quota[f] \in Nat
  BY ProgramFacts DEF IInv, TypeOK, TCB
<1>2. /\ esp = Boot /\ pc[esp] = "init" /\ currentThread = -1
      /\ created < Len(quota) /\ created' = created + 1
      /\ UNCHANGED <<quota, currentThread, esp, times>>
      /\ \A t \in Threads : t < created => t \in Live /\ pc[t + 1] = "fresh"
  BY BootFacts DEF CreateThread
<1>3. IInv'
  BY CreateThreadPreserves
<1>4. /\ \A t \in Live : t \in Threads /\ t < created
      /\ \A t \in Live' : t \in Threads /\ t < created'
  <2>1. \A t \in Live : t \in Threads /\ t < created
    BY MappingFacts
  <2>2. ASSUME NEW t \in Live' PROVE t \in Threads /\ t < created'
    <3>1. t \in Threads /\ tcb'[t].assigned = 1
      BY DEF Live, Runnable
    <3>2. ~(t < created') => tcb'[t].assigned = 0
      BY <1>3, <3>1 DEF IInv, SlotsInv
    <3> QED BY <3>1, <3>2
  <2> QED BY <2>1, <2>2
<1>5. Turn = -1 /\ Turn' = -1
  <2>1. ~Halted
    BY <1>2 DEF Halted
  <2>2. ~Halted'
    BY <1>1, <1>2 DEF CreateThread, Halted, Boot, Positions
  <2> QED BY <1>2, <2>1, <2>2 DEF Turn
<1>6. \A t \in Threads : t < created => t \in Live' /\ pc'[t + 1] = "fresh"
  BY <1>1, <1>2, <1>3 DEF IInv, PhaseInv, CreateThread, Boot, Positions, Threads
<1>7. \A t \in Threads : t # created => WorkLeft'[t] = WorkLeft[t]
  <2> SUFFICES ASSUME NEW t \in Threads, t # created PROVE WorkLeft'[t] = WorkLeft[t]
    OBVIOUS
  <2>1. CASE t < created
    <3>1. t \in Live /\ pc[t + 1] = "fresh" /\ t \in Live' /\ pc'[t + 1] = "fresh"
      BY <1>2, <1>6, <2>1
    <3>2. Owner(t) = t + 1 /\ Owner(t)' = t + 1
      BY <1>1, <1>2, <1>3, <2>1 DEF IInv, SlotsInv, Owner, Threads
    <3> QED BY <1>2, <3>1, <3>2 DEF WorkLeft
  <2>2. CASE t > created
    <3>1. t \notin Live /\ t \notin Live'
      BY <1>1, <1>2, <1>4, <2>2 DEF Threads
    <3> QED BY <3>1 DEF WorkLeft
  <2> QED BY <1>1, <2>1, <2>2 DEF Threads
<1>8. CASE created < N
  <2>1. PICK k \in Threads : k = created
    BY <1>1, <1>8 DEF Threads
  <2>2. k \in RR!Places
    BY DEF RR!Places, Threads
  <2>3. WorkLeft[k] = RR!Absent
    <3>1. k \notin Live
      BY <1>1, <1>4, <2>1
    <3> QED BY <3>1 DEF WorkLeft, RR!Absent
  <2>4. WorkLeft'[k] \in Nat
    <3>1. k \in Live' /\ pc'[k + 1] = "fresh"
      BY <1>1, <1>2, <1>3, <2>1 DEF IInv, PhaseInv, CreateThread, Boot, Positions, Threads
    <3>2. Owner(k)' = k + 1
      BY <1>1, <1>2, <1>3, <2>1 DEF IInv, SlotsInv, Owner, Threads
    <3>3. quota'[k + 1] \in Nat
      BY <1>1, <1>2, <2>1
    <3> QED BY <3>1, <3>2, <3>3 DEF WorkLeft
  <2>5. WorkLeft' = [WorkLeft EXCEPT ![k] = WorkLeft'[k]]
    BY <1>7, <2>1 DEF WorkLeft
  <2>6. RR!Admit
    BY <1>5, <2>2, <2>3, <2>4, <2>5 DEF RR!Admit, RR!Boot
  <2> QED BY <2>6 DEF RR!Next
<1>9. CASE ~(created < N)
  <2>1. \A t \in Threads : t # created
    BY <1>1, <1>9 DEF Threads
  <2>2. WorkLeft' = WorkLeft
    BY <1>7, <2>1 DEF WorkLeft
  <2> QED BY <1>5, <2>2 DEF RR!vars
<1> QED BY <1>8, <1>9

\* A call of scheduler passes the turn: work after the call is w, and the
\* slots runnable in it are the present ones.
LEMMA SchedulerPassesTurn ==
    ASSUME IInv, created = Len(quota), NEW tab \in [Threads -> TCB], NEW at, NEW k \in Nat,
           \A t \in Threads : /\ tab[t].stackPointer = tcb[t].stackPointer
                              /\ Runnable(tab, t) => t \in Live,
           at # "system_finish",
           Scheduler(tab, at, k),
           NEW w, \A t \in Threads : w[t] # -1 <=> Runnable(tab, t)
    PROVE  /\ tcb' = tab
           /\ \A s \in Stacks : s # esp => pc'[s] = pc[s]
           /\ pc'[esp] \in {at, "system_finish"}
           /\ (\E t \in Threads : Runnable(tab, t)) => pc'[esp] = at
           /\ Turn' = RR!PassTurn(w, currentThread)
<1> USE DEF IInv
<1>1. /\ N \in Nat /\ N > 0 /\ created \in Nat /\ Len(quota) \in Nat
      /\ Jobs = 1..Len(quota) /\ Stacks = 0..Len(quota)
      /\ pc \in [Stacks -> Positions] /\ esp \in Stacks
      /\ currentThread \in Threads \cup {-1}
  BY ProgramFacts DEF TypeOK
<1>2. \A t \in Live : t \in Threads /\ t < created
  BY MappingFacts
<1>3. \A t \in Threads : /\ t < created => tab[t].stackPointer = t + 1
                         /\ t >= created => ~Runnable(tab, t)
  <2>1. \A t \in Threads : t < created => tcb[t].stackPointer = t + 1
    BY DEF SlotsInv
  <2>2. \A t \in Threads : Runnable(tab, t) => t < created
    BY <1>2
  <2>3. \A t \in Threads : t >= created => ~(t < created)
    BY <1>1 DEF Threads
  <2> QED BY <2>1, <2>2, <2>3
<1>4. currentThread # -1 => currentThread < created /\ esp = currentThread + 1
  BY DEF PhaseInv
<1>5. /\ tcb' = tab
      /\ \/ /\ \A t \in Threads : ~Runnable(tab, t)
            /\ pc' = [pc EXCEPT ![esp] = "system_finish"]
            /\ UNCHANGED <<currentThread, esp>>
         \/ \E next \in Threads :
            /\ next < created
            /\ Runnable(tab, next)
            /\ \A t \in Between(currentThread, next) : ~Runnable(tab, t)
            /\ currentThread' = next
            /\ esp' = next + 1
            /\ pc' = [pc EXCEPT ![esp] = at]
  BY <1>3, <1>4, SchedulerLemma
<1>6. CASE \A t \in Threads : ~Runnable(tab, t)
  <2>1. pc' = [pc EXCEPT ![esp] = "system_finish"] /\ esp' = esp
    BY <1>5, <1>6
  <2>2. pc'[esp] = "system_finish" /\ \A s \in Stacks : s # esp => pc'[s] = pc[s]
    BY <1>1, <2>1
  <2>3. Turn' = N
    BY <2>1, <2>2 DEF Turn, Halted
  <2>4. RR!PassTurn(w, currentThread) = N
    BY <1>6, PassTurnEmpty
  <2> QED BY <1>5, <1>6, <2>2, <2>3, <2>4
<1>7. CASE \E t \in Threads : Runnable(tab, t)
  <2>1. PICK next \in Threads :
            /\ next < created
            /\ Runnable(tab, next)
            /\ \A t \in Between(currentThread, next) : ~Runnable(tab, t)
            /\ currentThread' = next
            /\ esp' = next + 1
            /\ pc' = [pc EXCEPT ![esp] = at]
    BY <1>5, <1>7
  <2>2. pc'[esp] = at /\ \A s \in Stacks : s # esp => pc'[s] = pc[s]
    BY <1>1, <2>1
  <2>3. next \in Live /\ next + 1 \in Stacks
    <3>1. next \in Live
      BY <2>1
    <3> QED BY <1>1, <2>1, <3>1, MappingFacts
  <2>4. pc[next + 1] # "system_finish"
    BY <2>1, <2>3 DEF WorkInv
  <2>5. pc'[next + 1] # "system_finish"
    BY <2>2, <2>3, <2>4
  <2>6. Turn' = next
    BY <2>1, <2>5 DEF Turn, Halted
  <2>7. \A t \in Between(currentThread, next) : w[t] = -1
    BY <2>1 DEF Between
  <2>8. RR!PassTurn(w, currentThread) = next
    BY <1>1, <2>1, <2>7, PassTurnLemma
  <2> QED BY <1>5, <2>2, <2>6, <2>8
<1> QED BY <1>6, <1>7

\* The first call of scheduler gives the first turn.
LEMMA StartSchedulerRefines == IInv /\ StartScheduler => [RR!Next]_RR!vars
<1> SUFFICES ASSUME IInv, StartScheduler PROVE RR!Begin
  BY DEF RR!Next
<1>1. /\ Len(quota) \in Nat /\ Jobs = 1..Len(quota) /\ Stacks = 0..Len(quota)
      /\ tcb \in [Threads -> TCB]
  BY ProgramFacts DEF IInv, TypeOK, TCB
<1>2. /\ esp = Boot /\ currentThread = -1 /\ pc[esp] = "init"
      /\ created = Len(quota) /\ UNCHANGED <<quota, times>>
      /\ Scheduler(tcb, "abandoned", 0)
  BY BootFacts DEF StartScheduler
<1>3. \A t \in Threads : WorkLeft[t] # -1 <=> Runnable(tcb, t)
  BY MappingFacts DEF Live
<1>4. /\ tcb' = tcb
      /\ \A s \in Stacks : s # esp => pc'[s] = pc[s]
      /\ Turn' = RR!PassTurn(WorkLeft, currentThread)
  BY <1>1, <1>2, <1>3, SchedulerPassesTurn DEF Live
<1>5. Live' = Live
  BY <1>4 DEF Live, Runnable
<1>6. \A t \in Live : Owner(t)' = Owner(t) /\ pc'[Owner(t)] = pc[Owner(t)]
  <2>1. \A t \in Live : Owner(t) \in Stacks /\ Owner(t) # esp
    <3>1. \A t \in Live : Owner(t) = t + 1 /\ t + 1 \in Jobs
      BY MappingFacts DEF IInv, SlotsInv, Owner
    <3> QED BY <1>1, <1>2, <3>1 DEF Boot
  <2> QED BY <1>4, <2>1 DEF Owner
<1>7. WorkLeft' = WorkLeft
  BY <1>2, <1>5, <1>6 DEF WorkLeft
<1>8. Turn = -1
  BY <1>2 DEF Turn, Halted
<1> QED BY <1>2, <1>4, <1>7, <1>8 DEF RR!Begin, RR!Boot

\* Where a thread starts is not seen.
LEMMA EnterRefines == IInv /\ Enter => [RR!Next]_RR!vars
<1> SUFFICES ASSUME IInv, Enter PROVE WorkLeft' = WorkLeft /\ Turn' = Turn
  BY DEF RR!vars
<1>1. /\ Len(quota) \in Nat /\ Jobs = 1..Len(quota) /\ Stacks = 0..Len(quota)
      /\ pc \in [Stacks -> Positions] /\ times \in [Jobs -> Nat]
  BY ProgramFacts DEF IInv, TypeOK
<1>2. /\ esp = currentThread + 1 /\ esp \in Jobs
  BY RunningFacts DEF Enter
<1>3. /\ UNCHANGED <<quota, tcb, currentThread, esp>>
      /\ pc[esp] = "fresh"
      /\ pc' = [pc EXCEPT ![esp] = "loop"]
      /\ times' = [times EXCEPT ![esp] = quota[esp]]
      /\ Live' = Live
  BY DEF Enter, Live, Runnable
<1>4. ASSUME NEW t \in Live
      PROVE  /\ Owner(t)' = Owner(t)
             /\ (IF pc[Owner(t)] = "fresh" THEN quota[Owner(t)] ELSE times[Owner(t)])
                  = (IF pc'[Owner(t)] = "fresh" THEN quota[Owner(t)] ELSE times'[Owner(t)])
  <2>1. Owner(t) \in Jobs /\ Owner(t) \in Stacks
    BY <1>1, MappingFacts DEF IInv, SlotsInv, Owner
  <2>2. CASE Owner(t) = esp
    <3>1. pc'[esp] = "loop" /\ times'[esp] = quota[esp]
      BY <1>1, <1>2, <1>3
    <3> QED BY <1>3, <2>2, <3>1 DEF Owner
  <2>3. CASE Owner(t) # esp
    BY <1>1, <1>3, <2>1, <2>3 DEF Owner
  <2> QED BY <2>2, <2>3
<1>5. WorkLeft' = WorkLeft
  BY <1>3, <1>4 DEF WorkLeft
<1>6. ~Halted /\ ~Halted'
  BY <1>1, <1>2, <1>3 DEF Halted
<1> QED BY <1>3, <1>5, <1>6 DEF Turn

\* A slice is one unit of work, and the turn passes on.
LEMMA SliceRefines == IInv /\ Slice => [RR!Next]_RR!vars
<1> SUFFICES ASSUME IInv, Slice PROVE RR!Work
  BY DEF RR!Next
<1>1. /\ N \in Nat /\ Len(quota) \in Nat /\ Jobs = 1..Len(quota)
      /\ Stacks = 0..Len(quota) /\ tcb \in [Threads -> TCB]
      /\ times \in [Jobs -> Nat]
  BY ProgramFacts DEF IInv, TypeOK, TCB
<1>2. PICK c \in Threads :
          /\ c = currentThread /\ c \in Live /\ esp = c + 1 /\ esp \in Jobs
          /\ created = Len(quota)
  BY RunningFacts DEF Slice
<1>3. /\ pc[esp] = "loop" /\ times[esp] # 0
      /\ times' = [times EXCEPT ![esp] = @ - 1] /\ UNCHANGED quota
      /\ Scheduler(tcb, "loop", 1)
  BY DEF Slice
<1>4. WorkLeft[c] = times[c + 1]
  BY <1>2, <1>3, MappingFacts
<1> DEFINE w == [WorkLeft EXCEPT ![c] = @ - 1]
<1>5. \A t \in Threads : w[t] # -1 <=> Runnable(tcb, t)
  <2>1. \A t \in Threads : WorkLeft[t] # -1 <=> t \in Live
    BY MappingFacts
  <2>2. w[c] # -1
    BY <1>1, <1>2, <1>3, <1>4, MappingFacts
  <2>3. \A t \in Threads : t # c => w[t] = WorkLeft[t]
    BY MappingFacts
  <2> QED BY <1>2, <2>1, <2>2, <2>3 DEF Live
<1>6. /\ tcb' = tcb
      /\ \A s \in Stacks : s # esp => pc'[s] = pc[s]
      /\ pc'[esp] = "loop"
      /\ Turn' = RR!PassTurn(w, currentThread)
  <2>1. Runnable(tcb, c)
    BY <1>2 DEF Live
  <2>2. \A t \in Threads : /\ tcb[t].stackPointer = tcb[t].stackPointer
                           /\ Runnable(tcb, t) => t \in Live
    BY DEF Live
  <2>3. Scheduler(tcb, "loop", 1) /\ created = Len(quota) /\ tcb \in [Threads -> TCB]
    BY <1>1, <1>2, <1>3
  <2> HIDE DEF w
  <2>4. /\ tcb' = tcb
        /\ \A s \in Stacks : s # esp => pc'[s] = pc[s]
        /\ (\E t \in Threads : Runnable(tcb, t)) => pc'[esp] = "loop"
        /\ Turn' = RR!PassTurn(w, currentThread)
    BY <1>5, <2>2, <2>3, SchedulerPassesTurn
  <2> QED BY <2>1, <2>4
<1>7. Live' = Live
  BY <1>6 DEF Live, Runnable
<1>8. WorkLeft' = w
  <2>1. ASSUME NEW t \in Live
        PROVE  /\ Owner(t) = t + 1 /\ Owner(t)' = t + 1 /\ t + 1 \in Jobs /\ t + 1 \in Stacks
               /\ pc'[t + 1] = pc[t + 1]
               /\ times'[t + 1] = IF t = c THEN times[t + 1] - 1 ELSE times[t + 1]
    <3>1. t \in Threads /\ t + 1 \in Jobs /\ t + 1 \in Stacks /\ Owner(t) = t + 1
      BY <1>1, MappingFacts DEF IInv, SlotsInv, Owner
    <3>2. t + 1 = esp <=> t = c
      BY <1>1, <1>2, <3>1 DEF Threads
    <3> QED BY <1>1, <1>2, <1>3, <1>6, <3>1, <3>2 DEF Owner
  <2>2. WorkLeft' = [t \in Threads |->
                        IF t \notin Live THEN -1
                        ELSE IF pc[t + 1] = "fresh" THEN quota[t + 1]
                        ELSE IF t = c THEN times[t + 1] - 1 ELSE times[t + 1]]
    BY <1>3, <1>7, <2>1 DEF WorkLeft
  <2> QED BY <1>2, <1>3, <1>4, <2>2, MappingFacts
<1>9. Turn = c /\ c \in RR!Places
  BY <1>2, <1>3 DEF Turn, Halted, RR!Places, Threads
<1>10. WorkLeft[c] > 0
  BY <1>1, <1>2, <1>3, <1>4
<1> QED BY <1>2, <1>6, <1>8, <1>9, <1>10 DEF RR!Work

\* A thread that finishes leaves the turn to the next.
LEMMA FinishRefines == IInv /\ Finish => [RR!Next]_RR!vars
<1> SUFFICES ASSUME IInv, Finish PROVE RR!Leave
  BY DEF RR!Next
<1>1. /\ N \in Nat /\ Len(quota) \in Nat /\ Jobs = 1..Len(quota)
      /\ Stacks = 0..Len(quota) /\ tcb \in [Threads -> TCB]
  BY ProgramFacts DEF IInv, TypeOK, TCB
<1>2. PICK c \in Threads :
          /\ c = currentThread /\ c \in Live /\ esp = c + 1 /\ esp \in Jobs
          /\ created = Len(quota)
  BY RunningFacts DEF Finish
<1> DEFINE tab == MarkFinished(tcb)
           w == [WorkLeft EXCEPT ![c] = RR!Absent]
<1>3. /\ pc[esp] = "loop" /\ times[esp] = 0 /\ UNCHANGED <<quota, times>>
      /\ Scheduler(tab, "gone", 1)
  BY DEF Finish
<1>4. WorkLeft[c] = 0
  BY <1>2, <1>3, MappingFacts
<1>5. /\ tab \in [Threads -> TCB]
      /\ \A t \in Threads : /\ tab[t].stackPointer = tcb[t].stackPointer
                            /\ tab[t].function = tcb[t].function
                            /\ t # c => tab[t] = tcb[t]
      /\ ~Runnable(tab, c)
  <2> DEFINE new == [tcb[c] EXCEPT !.finished = 1, !.assigned = 0]
  <2>1. tcb[c] \in TCB
    BY <1>1
  <2>2. /\ new \in TCB /\ new.assigned = 0
        /\ new.stackPointer = tcb[c].stackPointer
        /\ new.function = tcb[c].function
    BY <2>1 DEF TCB
  <2>3. tab = [tcb EXCEPT ![c] = new]
    BY <1>1, <1>2 DEF MarkFinished
  <2> HIDE DEF tab, new
  <2>4. tab \in [Threads -> TCB] /\ tab[c] = new
    BY <1>1, <2>2, <2>3
  <2>5. \A t \in Threads : t # c => tab[t] = tcb[t]
    BY <1>1, <2>3
  <2> QED BY <2>2, <2>4, <2>5 DEF Runnable
<1>6. \A t \in Threads : Runnable(tab, t) <=> t \in Live /\ t # c
  BY <1>5 DEF Live, Runnable
<1>7. \A t \in Threads : w[t] # -1 <=> Runnable(tab, t)
  <2>1. \A t \in Threads : WorkLeft[t] # -1 <=> t \in Live
    BY MappingFacts
  <2>2. \A t \in Threads : w[t] = IF t = c THEN -1 ELSE WorkLeft[t]
    BY MappingFacts DEF RR!Absent
  <2> QED BY <1>6, <2>1, <2>2
<1>8. /\ tcb' = tab
      /\ \A s \in Stacks : s # esp => pc'[s] = pc[s]
      /\ Turn' = RR!PassTurn(w, currentThread)
  <2> HIDE DEF w, tab
  <2> QED BY <1>1, <1>2, <1>3, <1>5, <1>6, <1>7, SchedulerPassesTurn
<1>9. Live' = Live \ {c}
  <2>1. Live' = {t \in Threads : Runnable(tab, t)}
    BY <1>8 DEF Live
  <2>2. \A t \in Live : t \in Threads
    BY DEF Live
  <2> HIDE DEF tab
  <2> QED BY <1>6, <2>1, <2>2
<1>10. WorkLeft' = w
  <2>1. ASSUME NEW t \in Live, t # c
        PROVE  /\ Owner(t) = t + 1 /\ Owner(t)' = t + 1
               /\ pc'[t + 1] = pc[t + 1]
    <3>1. t \in Threads /\ t + 1 \in Stacks /\ Owner(t) = t + 1
      BY <1>1, MappingFacts DEF IInv, SlotsInv, Owner
    <3>2. t + 1 # esp
      BY <1>1, <1>2, <2>1, <3>1 DEF Threads
    <3>3. Owner(t)' = Owner(t)
      BY <1>5, <1>8, <3>1 DEF Owner
    <3> QED BY <1>8, <3>1, <3>2, <3>3
  <2>2. WorkLeft' = [t \in Threads |->
                        IF t \notin Live \/ t = c THEN -1
                        ELSE IF pc[t + 1] = "fresh" THEN quota[t + 1]
                        ELSE times[t + 1]]
    BY <1>3, <1>9, <2>1 DEF WorkLeft
  <2> QED BY <2>2, MappingFacts DEF RR!Absent
<1>11. Turn = c /\ c \in RR!Places
  BY <1>2, <1>3 DEF Turn, Halted, RR!Places, Threads
<1> QED BY <1>2, <1>4, <1>8, <1>10, <1>11 DEF RR!Leave

\* Whatever FIFOS-1 does, its threads see a round robin: no step gives the
\* CPU to any but the nearest thread that still has work, does more or less
\* than one unit of it, or adds a thread after the first has run.
THEOREM RefinesRoundRobin == Spec => RR!Init /\ [][RR!Next]_RR!vars
<1>1. Init => RR!Init
  BY InitRefines
<1>2. IInv /\ [Next]_vars => [RR!Next]_RR!vars
  <2> SUFFICES ASSUME IInv, [Next]_vars PROVE [RR!Next]_RR!vars
    OBVIOUS
  <2>1. CASE CreateThread
    BY <2>1, CreateThreadRefines
  <2>2. CASE StartScheduler
    BY <2>2, StartSchedulerRefines
  <2>3. CASE Enter
    BY <2>3, EnterRefines
  <2>4. CASE Slice
    BY <2>4, SliceRefines
  <2>5. CASE Finish
    BY <2>5, FinishRefines
  <2>6. CASE UNCHANGED vars
    BY <2>6 DEF vars, RR!vars, WorkLeft, Turn, Live, Runnable, Halted, Owner
  <2> QED BY <2>1, <2>2, <2>3, <2>4, <2>5, <2>6 DEF Next, SystemFinish
<1> QED BY <1>1, <1>2, Invariance, PTL DEF Spec
=============================================================================
