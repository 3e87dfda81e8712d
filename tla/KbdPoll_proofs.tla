--------------------------- MODULE KbdPoll_proofs ---------------------------
(***************************************************************************)
(* Proofs about KbdPoll, for any set of readers, any number of presses and  *)
(* any size of the keyboard's buffer.                                      *)
(*                                                                         *)
(* With the interrupt driver the machine takes the steps of KbdIrq, and the *)
(* invariant of KbdIrq_proofs carries over.  With the polling driver the    *)
(* presses that wait in the port are in their order and later than every    *)
(* key that was read (PortInv), the depth of disable_irq is the number of   *)
(* calls between it and enable_irq (LineInv), and a call that has seen the  *)
(* status finds the byte still there (StatusInv).                          *)
(***************************************************************************)
EXTENDS KbdPoll, KbdIrq_proofs, FiniteSetTheorems

Polling == {r \in Readers : pc[r] \in {"poll", "data", "copy"}}

\* The part of the state that the polling driver leaves alone, and its module.
PollInv ==
    /\ presses \in 0 .. MaxPresses
    /\ pc \in [Readers -> {"user", "print", "poll", "data", "copy", "done"}]
    /\ image \in {"out", "in", "leaving"} /\ entry \in BOOLEAN
    /\ entry => image = "in"
    /\ image = "out" => \A r \in Readers : ~Inside(r)
    /\ isr = "none" /\ ~irq /\ ~fault

PortInv ==
    /\ port \in Seq(0 .. presses) /\ latch \in 0 .. presses
    /\ key \in [Readers -> 0 .. presses]
    /\ \A i, j \in 1 .. Len(port) :
        i < j /\ port[i] # 0 /\ port[j] # 0 => port[i] < port[j]
    /\ \A i \in 1 .. Len(port) : port[i] # 0 => \A r \in Readers : key[r] < port[i]

LineInv == IsFiniteSet(Polling) /\ line = Cardinality(Polling)

\* One call at a time is at the port, and nobody takes the byte it has been promised.
StatusInv ==
    /\ \A q, r \in Readers : pc[q] \in {"poll", "data"} /\ pc[r] \in {"poll", "data"} => q = r
    /\ \A r \in Readers : pc[r] = "data" => port # <<>>

PInv == PollInv /\ PortInv /\ LineInv /\ StatusInv

SystemInv ==
    /\ driver \in {"irq", "poll"}
    /\ driver = "irq" => IInv /\ port = <<>> /\ latch = 0 /\ line = 0
    /\ driver = "poll" => PInv

-----------------------------------------------------------------------------
PollStep ==
    \/ Press \/ Release \/ KernelTakes
    \/ \E r \in Readers : PollReader(r)
    \/ PollLoad \/ PollRemove \/ PollGone

\* A step of the polling driver or of its keyboard keeps the state it leaves alone,
\* and the module is there while calls are inside.
LEMMA PollStateStep ==
    ASSUME PInv, PollStep
    PROVE  PollInv'
<1> USE KbdAssumption DEF PInv, sleeping, module, polling
<1>1. CASE Press
  BY <1>1 DEF Press, PollInv, Inside
<1>2. CASE Release
  BY <1>2 DEF Release, PollInv, Inside, vars
<1>3. CASE KernelTakes
  BY <1>3 DEF KernelTakes, ReadData, PollInv, Inside, vars
<1>4. ASSUME NEW r \in Readers, PollEnter(r) PROVE PollInv'
  BY <1>4 DEF PollEnter, PollInv, Inside
<1>5. ASSUME NEW r \in Readers, PollCommand(r) PROVE PollInv'
  BY <1>5 DEF PollCommand, PollInv, Inside
<1>6. ASSUME NEW r \in Readers, PollStatus(r) \/ PollData(r) PROVE PollInv'
  BY <1>6 DEF PollStatus, PollData, PollInv, Inside
<1>7. ASSUME NEW r \in Readers, PollReturn(r) PROVE PollInv'
  BY <1>7 DEF PollReturn, PollInv, Inside, After
<1>8. CASE PollLoad
  BY <1>8 DEF PollLoad, PollInv, Inside
<1>9. CASE PollRemove
  BY <1>9 DEF PollRemove, PollInv, Inside
<1>10. CASE PollGone
  BY <1>10 DEF PollGone, PollInv, Inside
<1> QED
  BY <1>1, <1>2, <1>3, <1>4, <1>5, <1>6, <1>7, <1>8, <1>9, <1>10
     DEF PollStep, PollReader

\* A read of the data port takes the byte at its head.
LEMMA ReadStep ==
    ASSUME PInv, port # <<>>, ReadData
    PROVE  /\ Data \in 0 .. presses /\ Data = port[1] /\ Len(port) > 0
           /\ port' \in Seq(0 .. presses) /\ latch' \in 0 .. presses
           /\ Len(port') = Len(port) - 1
           /\ \A i \in 1 .. Len(port') : port'[i] = port[i + 1]
<1> DEFINE B == 0 .. presses
<1>1. port \in Seq(B)
  BY DEF PInv, PortInv
<1>2. port' = Tail(port) /\ latch' = Head(port) /\ Data = Head(port)
  BY DEF ReadData, Data
<1> HIDE DEF B
<1>3. /\ Len(port) > 0 /\ Head(port) = port[1] /\ port[1] \in B
      /\ Tail(port) \in Seq(B)
      /\ Len(Tail(port)) = Len(port) - 1
  BY <1>1
<1>4. \A i \in 1 .. Len(Tail(port)) : Tail(port)[i] = port[i + 1]
  BY <1>1
<1> QED BY <1>2, <1>3, <1>4 DEF B

\* A press joins the port behind all others and is later than every key; what leaves
\* the port leaves it at its head.
LEMMA PortStep ==
    ASSUME PInv, PollStep
    PROVE  PortInv'
<1> USE KbdAssumption DEF PInv, sleeping, module, polling
<1>1. CASE Press
  BY <1>1 DEF Press, PollInv, PortInv
<1>2. CASE Release
  BY <1>2 DEF Release, PollInv, PortInv, vars
<1>3. ASSUME port # <<>>, ReadData, UNCHANGED presses,
             \/ UNCHANGED key
             \/ Data # 0 /\ \E r \in Readers : key' = [key EXCEPT ![r] = Data]
      PROVE  PortInv'
  <2>1. /\ Data \in 0 .. presses /\ Data = port[1] /\ Len(port) > 0
        /\ port' \in Seq(0 .. presses) /\ latch' \in 0 .. presses
        /\ Len(port') = Len(port) - 1
        /\ \A i \in 1 .. Len(port') : port'[i] = port[i + 1]
    BY <1>3, ReadStep
  <2>2. Len(port) \in Nat
    BY DEF PortInv
  <2>3. \A i \in 1 .. Len(port') : i + 1 \in 1 .. Len(port)
    BY <2>1, <2>2
  <2>4. key' \in [Readers -> 0 .. presses]
    BY <1>3, <2>1 DEF PortInv
  <2>5. ASSUME NEW i \in 1 .. Len(port'), port'[i] # 0, NEW q \in Readers
        PROVE  key'[q] < port'[i]
    <3>1. i + 1 \in 1 .. Len(port) /\ port'[i] = port[i + 1] /\ port[i + 1] # 0
      BY <2>1, <2>3, <2>5
    <3>2. key[q] < port[i + 1]
      BY <3>1 DEF PortInv
    <3>3. Data # 0 => Data < port[i + 1]
      BY <2>1, <2>2, <3>1 DEF PortInv
    <3>4. \/ key'[q] = key[q]
          \/ Data # 0 /\ key'[q] = Data
      BY <1>3 DEF PortInv
    <3> QED BY <3>1, <3>2, <3>3, <3>4
  <2>6. ASSUME NEW i \in 1 .. Len(port'), NEW j \in 1 .. Len(port'),
               i < j, port'[i] # 0, port'[j] # 0
        PROVE  port'[i] < port'[j]
    <3>1. /\ i + 1 \in 1 .. Len(port) /\ port'[i] = port[i + 1]
          /\ j + 1 \in 1 .. Len(port) /\ port'[j] = port[j + 1]
      BY <2>1, <2>3
    <3> QED BY <2>6, <3>1 DEF PortInv
  <2> QED BY <1>3, <2>1, <2>4, <2>5, <2>6 DEF PortInv
<1>4. CASE KernelTakes
  BY <1>3, <1>4 DEF KernelTakes, vars
<1>5. ASSUME NEW r \in Readers, PollEnter(r) \/ PollCommand(r) \/ PollStatus(r) PROVE PortInv'
  BY <1>5 DEF PollEnter, PollCommand, PollStatus, PortInv
<1>6. ASSUME NEW r \in Readers, PollData(r) PROVE PortInv'
  <2>1. port # <<>> /\ ReadData /\ UNCHANGED presses
    BY <1>6 DEF PollData, StatusInv
  <2>2. \/ UNCHANGED key
        \/ Data # 0 /\ key' = [key EXCEPT ![r] = Data]
    BY <1>6 DEF PollData
  <2> QED BY <1>3, <2>1, <2>2
<1>7. ASSUME NEW r \in Readers, PollReturn(r) PROVE PortInv'
  BY <1>7 DEF PollReturn, PortInv
<1>8. CASE PollLoad \/ PollRemove \/ PollGone
  BY <1>8 DEF PollLoad, PollRemove, PollGone, PortInv
<1> QED
  BY <1>1, <1>2, <1>4, <1>5, <1>6, <1>7, <1>8 DEF PollStep, PollReader

\* A call at the port has it to itself: other calls wait for the big kernel lock, and the
\* kernel's handler for the line.
LEMMA StatusStep ==
    ASSUME PInv, PollStep
    PROVE  StatusInv'
<1> USE DEF PInv, sleeping, module, polling
<1>1. CASE Press \/ Release \/ PollLoad \/ PollRemove \/ PollGone
  <2>1. pc' = pc
    BY <1>1 DEF Press, Release, PollLoad, PollRemove, PollGone, vars
  <2>2. port # <<>> => port' # <<>>
    <3>1. port \in Seq(0 .. presses)
      BY DEF PortInv
    <3>2. port' = port \/ port' = Append(port, presses') \/ port' = Append(port, 0)
      BY <1>1 DEF Press, Release, PollLoad, PollRemove, PollGone
    <3>3. Append(port, presses') # <<>> /\ Append(port, 0) # <<>>
      <4> DEFINE B == 0 .. presses
      <4>1. port \in Seq(B)
        BY <3>1
      <4> HIDE DEF B
      <4>2. \A x : Len(Append(port, x)) = Len(port) + 1 /\ Len(port) \in Nat
        BY <4>1
      <4>3. Len(<<>>) = 0
        OBVIOUS
      <4> QED BY <4>2, <4>3
    <3> QED BY <3>2, <3>3
  <2> QED BY <2>1, <2>2 DEF StatusInv
<1>2. CASE KernelTakes
  <2>1. pc' = pc /\ line = 0
    BY <1>2 DEF KernelTakes, vars
  <2>2. Polling = {}
    BY <2>1, FS_EmptySet DEF LineInv
  <2>3. \A r \in Readers : pc[r] # "data"
    BY <2>2 DEF Polling
  <2> QED BY <2>1, <2>3 DEF StatusInv
<1>3. ASSUME NEW r \in Readers, PollReader(r) PROVE StatusInv'
  <2>1. PollLock(r)
    BY <1>3 DEF PollReader, PollEnter, PollCommand, PollStatus, PollData, PollReturn
  <2>2. \A q \in Readers \ {r} : pc'[q] = pc[q] /\ pc'[q] \notin {"poll", "data"}
    BY <1>3, <2>1 DEF PollReader, PollEnter, PollCommand, PollStatus, PollData, PollReturn,
                      PollLock, PollInv
  <2>3. pc'[r] = "data" => port' # <<>>
    BY <1>3 DEF PollReader, PollEnter, PollCommand, PollStatus, PollData, PollReturn, PollInv,
                After
  <2> QED BY <2>2, <2>3 DEF StatusInv
<1> QED BY <1>1, <1>2, <1>3 DEF PollStep

\* The calls that keep the interrupt off gain and lose one at a time, as line does.
LEMMA LineStep ==
    ASSUME PInv, PollStep
    PROVE  LineInv'
<1> USE DEF PInv, sleeping, module, polling
<1>1. CASE pc' = pc /\ line' = line
  BY <1>1 DEF LineInv, Polling
<1>2. CASE Press \/ Release \/ KernelTakes \/ PollLoad \/ PollRemove \/ PollGone
  BY <1>1, <1>2
     DEF Press, Release, KernelTakes, PollLoad, PollRemove, PollGone, vars
<1>3. ASSUME NEW r \in Readers, PollEnter(r) PROVE LineInv'
  <2>1. Polling' = Polling /\ line' = line
    BY <1>3 DEF PollEnter, Polling, PollInv
  <2> QED BY <2>1 DEF LineInv
<1>4. ASSUME NEW r \in Readers, PollCommand(r) PROVE LineInv'
  <2>1. r \notin Polling
    BY <1>4 DEF PollCommand, Polling
  <2>2. CASE pc' = [pc EXCEPT ![r] = "poll"] /\ line' = line + 1
    <3>1. Polling' = Polling \cup {r}
      BY <2>2 DEF Polling, PollInv
    <3> QED BY <2>1, <2>2, <3>1, FS_AddElement DEF LineInv
  <2>3. CASE pc' = [pc EXCEPT ![r] = "user"] /\ line' = line
    <3>1. Polling' = Polling
      BY <2>1, <2>3 DEF Polling, PollInv
    <3> QED BY <2>3, <3>1 DEF LineInv
  <2> QED BY <2>2, <2>3, <1>4 DEF PollCommand
<1>5. ASSUME NEW r \in Readers, PollStatus(r) \/ PollData(r) PROVE LineInv'
  <2>1. Polling' = Polling /\ line' = line
    BY <1>5 DEF PollStatus, PollData, Polling, PollInv
  <2> QED BY <2>1 DEF LineInv
<1>6. ASSUME NEW r \in Readers, PollReturn(r) PROVE LineInv'
  <2>1. r \in Polling /\ Polling' = Polling \ {r} /\ line' = line - 1
    BY <1>6 DEF PollReturn, Polling, PollInv, After
  <2> QED BY <2>1, FS_RemoveElement, FS_CardinalityType DEF LineInv
<1> QED BY <1>2, <1>3, <1>4, <1>5, <1>6 DEF PollStep, PollReader

-----------------------------------------------------------------------------
\* With either driver the machine starts in a state of the invariant.
LEMMA SystemInitEstablishes == SystemInit => SystemInv
<1> SUFFICES ASSUME SystemInit PROVE SystemInv
  OBVIOUS
<1>1. Init /\ driver \in {"irq", "poll"} /\ port = <<>> /\ latch = 0 /\ line = 0
  BY DEF SystemInit
<1>2. IInv
  BY <1>1, InitEstablishes
<1>3. PollInv
  BY <1>1, <1>2 DEF Init, PollInv, IInv, TypeOK, Inside
<1>4. PortInv
  BY <1>1, <1>2 DEF Init, PortInv, IInv, TypeOK
<1>5. LineInv
  <2>1. Polling = {}
    BY <1>1 DEF Init, Polling
  <2> QED BY <1>1, <2>1, FS_EmptySet DEF LineInv
<1>6. StatusInv
  BY <1>1 DEF Init, StatusInv
<1> QED BY <1>1, <1>2, <1>3, <1>4, <1>5, <1>6 DEF SystemInv, PInv

\* The driver stays the same, and its steps keep its half of the invariant.
LEMMA SystemStepPreserves == SystemInv /\ [SystemNext]_system => SystemInv'
<1> SUFFICES ASSUME SystemInv, [SystemNext]_system PROVE SystemInv'
  OBVIOUS
<1>1. CASE driver = "irq" /\ Next /\ UNCHANGED polling
  <2>1. IInv'
    BY <1>1, StepPreserves DEF SystemInv
  <2> QED BY <1>1, <2>1 DEF SystemInv, polling
<1>2. CASE driver = "poll" /\ PollStep
  <2>1. PInv'
    BY <1>2, PollStateStep, PortStep, LineStep, StatusStep DEF SystemInv, PInv
  <2>2. driver' = driver
    BY <1>2 DEF PollStep, Press, Release, KernelTakes, PollReader, PollEnter, PollCommand,
                PollStatus, PollData, PollReturn, PollLoad, PollRemove, PollGone, polling
  <2> QED BY <1>2, <2>1, <2>2 DEF SystemInv
<1>3. CASE UNCHANGED system
  <2>1. UNCHANGED vars /\ UNCHANGED polling
    BY <1>3 DEF system
  <2>2. driver = "irq" => IInv'
    BY <2>1, StepPreserves DEF SystemInv
  <2>3. driver = "poll" => PInv'
    BY <2>1 DEF SystemInv, PInv, PollInv, PortInv, LineInv, StatusInv, Polling, Inside, vars,
                module, polling
  <2> QED BY <2>1, <2>2, <2>3 DEF SystemInv, polling
<1> QED BY <1>1, <1>2, <1>3 DEF SystemNext, PollStep

\* The invariant of the driver in use holds in every state of the machine.
THEOREM SystemInvariant == System => []SystemInv
  BY SystemInitEstablishes, SystemStepPreserves, PTL DEF System

\* The invariant implies the typing.
LEMMA SystemTypes == SystemInv => SystemTypeOK
<1> SUFFICES ASSUME SystemInv PROVE SystemTypeOK
  OBVIOUS
<1>1. CASE driver = "irq"
  BY <1>1 DEF SystemInv, SystemTypeOK, IInv
<1>2. CASE driver = "poll"
  <2>1. line \in Nat
    BY <1>2, FS_CardinalityType DEF SystemInv, PInv, LineInv
  <2> QED BY <1>2, <2>1 DEF SystemInv, SystemTypeOK, PInv, PollInv, PortInv
<1> QED BY <1>1, <1>2 DEF SystemInv

\* What KbdIrq promises its readers holds with either driver: the polling one has
\* neither a handler nor a wait queue.
LEMMA SystemServes == SystemInv => NoLostWakeup /\ KeyIsNew /\ CallsServed
<1> SUFFICES ASSUME SystemInv PROVE NoLostWakeup /\ KeyIsNew /\ CallsServed
  OBVIOUS
<1>1. CASE driver = "irq"
  BY <1>1, InvariantServes DEF SystemInv, IInv
<1>2. CASE driver = "poll"
  BY <1>2 DEF SystemInv, PInv, PollInv, NoLostWakeup, KeyIsNew, CallsServed, Inside
<1> QED BY <1>1, <1>2 DEF SystemInv

\* With the interrupt driver nobody polls, and the line is never off.
LEMMA SystemBalanced == SystemInv => LineBalanced
<1> SUFFICES ASSUME SystemInv PROVE LineBalanced
  OBVIOUS
<1>1. CASE driver = "irq"
  <2>1. Polling = {}
    BY <1>1 DEF SystemInv, IInv, TypeOK, Polling
  <2> QED BY <1>1, <2>1, FS_EmptySet DEF SystemInv, LineBalanced, Polling
<1>2. CASE driver = "poll"
  BY <1>2 DEF SystemInv, PInv, LineInv, LineBalanced, Polling
<1> QED BY <1>1, <1>2 DEF SystemInv

\* A call of the polling driver that reads a key reads the head of the port.
LEMMA KeyStep ==
    ASSUME SystemInv, [SystemNext]_system, driver = "poll",
           NEW r \in Readers, key'[r] # key[r], NEW q \in Readers
    PROVE  key'[r] > key[q]
<1>1. PollStep
  BY DEF SystemNext, PollStep, system, vars
<1>2. PollData(r)
  BY <1>1 DEF PollStep, Press, Release, KernelTakes, PollReader, PollEnter, PollCommand,
              PollStatus, PollData, PollReturn, PollLoad, PollRemove, PollGone, vars, SystemInv,
              PInv, PortInv
<1>3. port # <<>> /\ ReadData /\ Data # 0 /\ key' = [key EXCEPT ![r] = Data]
  BY <1>2 DEF PollData, SystemInv, PInv, StatusInv
<1>4. Len(port) > 0 /\ Data = port[1]
  BY <1>3, ReadStep DEF SystemInv
<1>5. key[q] < port[1]
  BY <1>3, <1>4 DEF SystemInv, PInv, PortInv
<1> QED BY <1>3, <1>4, <1>5 DEF SystemInv, PInv, PortInv

\* The variables of both drivers and of the keyboard keep their types.
THEOREM SystemTypeCorrect == System => []SystemTypeOK
  BY SystemInvariant, SystemTypes, PTL

\* Between ir_getchar and the wait no wake-up is lost (KBD_module.c:104-105, 122).
THEOREM SystemLosesNoWakeup == System => []NoLostWakeup
  BY SystemInvariant, SystemServes, PTL

\* No call returns a key that was reported before it began, unless a signal cut its
\* wait short (KBD_module.c:117-124).
THEOREM SystemKeysAreNew == System => []KeyIsNew
  BY SystemInvariant, SystemServes, PTL

\* The handler and the module outlive the calls (KBD_module.c:45-55, 75-76).
THEOREM SystemCallsAreServed == System => []CallsServed
  BY SystemInvariant, SystemServes, PTL

\* disable_irq and enable_irq balance, whatever number of calls overlap and although the
\* missing break runs on into the error (KBD_module_noIR.c:94-101).
THEOREM LineIsBalanced == System => []LineBalanced
  BY SystemInvariant, SystemBalanced, PTL

\* A call of the polling driver reads a later press than all calls before it, so no press
\* is read twice (KBD_module_noIR.c:81).
THEOREM KeysAreInOrder == System => KeysInOrder
<1>1. SystemInv /\ [SystemNext]_system =>
        [driver = "poll" =>
            \A r \in Readers : key'[r] # key[r] => \A q \in Readers : key'[r] > key[q]]_system
  BY KeyStep
<1> QED BY <1>1, SystemInvariant, PTL DEF System, KeysInOrder
=============================================================================
