--------------------------- MODULE KbdIrq_proofs ---------------------------
(***************************************************************************)
(* Proofs about KbdIrq, for any set of readers and any number of presses.  *)
(*                                                                         *)
(* What a call returns depends on when keys were stored and flagged, and on *)
(* the handler's and the module's state: KeysInv and ModuleInv state these, *)
(* and with the two properties KeyIsNew and NoLostWakeup and the typing     *)
(* they are inductive.                                                     *)
(***************************************************************************)
EXTENDS KbdIrq, TLAPS

\* The handler that has begun has stored the last press.  No call has begun after
\* the press being flagged, and a flag that is set tells of a key later than those
\* reported to any call so far.
KeysInv ==
    /\ isr # "none" => presses > 0 /\ KBD_key = presses
    /\ \A r \in Readers : reported[r] <= Flagged
    /\ ev_press = 1 => \A r \in Readers : KBD_key > reported[r]

\* The handler is registered while the entry leads into the module, but for the
\* time between the two steps of the load, and as long as calls are inside.
ModuleInv ==
    /\ isr # "none" => irq
    /\ irq => image \in {"in", "leaving"}
    /\ entry => \/ image = "loading"
                \/ image = "in" /\ irq
    /\ fault => stale
    /\ ~fault => \A r \in Readers : Inside(r) => irq \/ image = "loading"

IInv == TypeOK /\ KeysInv /\ ModuleInv /\ NoLostWakeup /\ KeyIsNew

-----------------------------------------------------------------------------

\* A step keeps the types: a key is never later than the last press, and only a
\* reader that waits is in the queue.
LEMMA TypeStep ==
    ASSUME IInv, [Next]_vars
    PROVE  TypeOK'
<1> USE KbdAssumption DEF IInv, module, calls
<1>1. CASE StoreKey
  BY <1>1 DEF StoreKey, TypeOK, KeysInv, Flagged, After
<1>2. CASE SetFlag
  BY <1>2 DEF SetFlag, TypeOK, KeysInv, Flagged, After
<1>3. CASE WakeUp
  BY <1>3 DEF WakeUp, TypeOK, KeysInv, Flagged, After
<1>4. ASSUME NEW r \in Readers, Enter(r) PROVE TypeOK'
  BY <1>4 DEF Enter, TypeOK, KeysInv, Flagged, After
<1>5. ASSUME NEW r \in Readers, Printed(r) PROVE TypeOK'
  BY <1>5 DEF Printed, TypeOK, KeysInv, Flagged, After
<1>6. ASSUME NEW r \in Readers, NoCommand(r) PROVE TypeOK'
  BY <1>6 DEF NoCommand, TypeOK, KeysInv, Flagged, After
<1>7. ASSUME NEW r \in Readers, Test(r) PROVE TypeOK'
  BY <1>7 DEF Test, TypeOK, KeysInv, Flagged, After
<1>8. ASSUME NEW r \in Readers, Retest(r) PROVE TypeOK'
  BY <1>8 DEF Retest, TypeOK, KeysInv, Flagged, After
<1>9. ASSUME NEW r \in Readers, Wake(r) PROVE TypeOK'
  BY <1>9 DEF Wake, TypeOK, KeysInv, Flagged, After
<1>10. ASSUME NEW r \in Readers, Clear(r) PROVE TypeOK'
  BY <1>10 DEF Clear, TypeOK, KeysInv, Flagged, After
<1>11. ASSUME NEW r \in Readers, Take(r) PROVE TypeOK'
  BY <1>11 DEF Take, TypeOK, KeysInv, Flagged, After
<1>12. ASSUME NEW r \in Readers, Signal(r) PROVE TypeOK'
  BY <1>12 DEF Signal, TypeOK, KeysInv, Flagged, After
<1>13. ASSUME NEW r \in Readers, EnterStale(r) PROVE TypeOK'
  BY <1>13 DEF EnterStale, TypeOK, KeysInv, Flagged, After
<1>14. CASE CreateEntry
  <2>1. 0 \in 0 .. presses /\ UNCHANGED <<calls, irq, stale, fault>>
    BY <1>14 DEF CreateEntry, TypeOK
  <2> QED BY <2>1, <1>14 DEF CreateEntry, TypeOK
<1>15. CASE RequestIrq
  BY <1>15 DEF RequestIrq, TypeOK, KeysInv, Flagged, After
<1>16. CASE RemoveEntry
  BY <1>16 DEF RemoveEntry, TypeOK, KeysInv, Flagged, After
<1>17. CASE FreeIrq
  BY <1>17 DEF FreeIrq, TypeOK, KeysInv, Flagged, After
<1>18. CASE UNCHANGED vars
  BY <1>18 DEF vars, TypeOK, KeysInv, Flagged, After
<1> QED
  BY <1>1, <1>2, <1>3, <1>4, <1>5, <1>6, <1>7, <1>8, <1>9, <1>10, <1>11, <1>12, <1>13,
     <1>14, <1>15, <1>16, <1>17, <1>18 DEF Next, Handler, Reader, Module

\* A step keeps the order of presses, flags and calls.
LEMMA KeysStep ==
    ASSUME IInv, [Next]_vars
    PROVE  KeysInv'
<1> USE KbdAssumption DEF IInv, module, calls
<1>1. CASE StoreKey
  BY <1>1 DEF StoreKey, TypeOK, KeysInv, ModuleInv, Flagged
<1>2. CASE SetFlag
  BY <1>2 DEF SetFlag, TypeOK, KeysInv, ModuleInv, Flagged
<1>3. CASE WakeUp
  BY <1>3 DEF WakeUp, TypeOK, KeysInv, ModuleInv, Flagged
<1>4. ASSUME NEW r \in Readers, Enter(r) PROVE KeysInv'
  BY <1>4 DEF Enter, TypeOK, KeysInv, ModuleInv, Flagged
<1>5. ASSUME NEW r \in Readers, Printed(r) PROVE KeysInv'
  BY <1>5 DEF Printed, TypeOK, KeysInv, ModuleInv, Flagged
<1>6. ASSUME NEW r \in Readers, NoCommand(r) PROVE KeysInv'
  BY <1>6 DEF NoCommand, TypeOK, KeysInv, ModuleInv, Flagged
<1>7. ASSUME NEW r \in Readers, Test(r) PROVE KeysInv'
  BY <1>7 DEF Test, TypeOK, KeysInv, ModuleInv, Flagged
<1>8. ASSUME NEW r \in Readers, Retest(r) PROVE KeysInv'
  BY <1>8 DEF Retest, TypeOK, KeysInv, ModuleInv, Flagged
<1>9. ASSUME NEW r \in Readers, Wake(r) PROVE KeysInv'
  BY <1>9 DEF Wake, TypeOK, KeysInv, ModuleInv, Flagged
<1>10. ASSUME NEW r \in Readers, Clear(r) PROVE KeysInv'
  BY <1>10 DEF Clear, TypeOK, KeysInv, ModuleInv, Flagged
<1>11. ASSUME NEW r \in Readers, Take(r) PROVE KeysInv'
  BY <1>11 DEF Take, TypeOK, KeysInv, ModuleInv, Flagged
<1>12. ASSUME NEW r \in Readers, Signal(r) PROVE KeysInv'
  BY <1>12 DEF Signal, TypeOK, KeysInv, ModuleInv, Flagged
<1>13. ASSUME NEW r \in Readers, EnterStale(r) PROVE KeysInv'
  BY <1>13 DEF EnterStale, TypeOK, KeysInv, ModuleInv, Flagged
<1>14. CASE CreateEntry
  BY <1>14 DEF CreateEntry, TypeOK, KeysInv, ModuleInv, Flagged
<1>15. CASE RequestIrq
  BY <1>15 DEF RequestIrq, TypeOK, KeysInv, ModuleInv, Flagged
<1>16. CASE RemoveEntry
  BY <1>16 DEF RemoveEntry, TypeOK, KeysInv, ModuleInv, Flagged
<1>17. CASE FreeIrq
  BY <1>17 DEF FreeIrq, TypeOK, KeysInv, ModuleInv, Flagged
<1>18. CASE UNCHANGED vars
  BY <1>18 DEF vars, TypeOK, KeysInv, ModuleInv, Flagged
<1> QED
  BY <1>1, <1>2, <1>3, <1>4, <1>5, <1>6, <1>7, <1>8, <1>9, <1>10, <1>11, <1>12, <1>13,
     <1>14, <1>15, <1>16, <1>17, <1>18 DEF Next, Handler, Reader, Module

\* A step keeps the handler registered as long as it is needed.
LEMMA ModuleStep ==
    ASSUME IInv, [Next]_vars
    PROVE  ModuleInv'
<1> USE KbdAssumption DEF IInv, module, calls
<1>1. CASE StoreKey
  BY <1>1 DEF StoreKey, TypeOK, ModuleInv, Inside
<1>2. CASE SetFlag
  BY <1>2 DEF SetFlag, TypeOK, ModuleInv, Inside
<1>3. CASE WakeUp
  BY <1>3 DEF WakeUp, TypeOK, ModuleInv, Inside
<1>4. ASSUME NEW r \in Readers, Enter(r) PROVE ModuleInv'
  BY <1>4 DEF Enter, TypeOK, ModuleInv, Inside
<1>5. ASSUME NEW r \in Readers, Printed(r) PROVE ModuleInv'
  BY <1>5 DEF Printed, TypeOK, ModuleInv, Inside
<1>6. ASSUME NEW r \in Readers, NoCommand(r) PROVE ModuleInv'
  BY <1>6 DEF NoCommand, TypeOK, ModuleInv, Inside
<1>7. ASSUME NEW r \in Readers, Test(r) PROVE ModuleInv'
  BY <1>7 DEF Test, TypeOK, ModuleInv, Inside
<1>8. ASSUME NEW r \in Readers, Retest(r) PROVE ModuleInv'
  BY <1>8 DEF Retest, TypeOK, ModuleInv, Inside
<1>9. ASSUME NEW r \in Readers, Wake(r) PROVE ModuleInv'
  BY <1>9 DEF Wake, TypeOK, ModuleInv, Inside
<1>10. ASSUME NEW r \in Readers, Clear(r) PROVE ModuleInv'
  BY <1>10 DEF Clear, TypeOK, ModuleInv, Inside
<1>11. ASSUME NEW r \in Readers, Take(r) PROVE ModuleInv'
  BY <1>11 DEF Take, TypeOK, ModuleInv, Inside
<1>12. ASSUME NEW r \in Readers, Signal(r) PROVE ModuleInv'
  BY <1>12 DEF Signal, TypeOK, ModuleInv, Inside
<1>13. ASSUME NEW r \in Readers, EnterStale(r) PROVE ModuleInv'
  BY <1>13 DEF EnterStale, TypeOK, ModuleInv, Inside
<1>14. CASE CreateEntry
  BY <1>14 DEF CreateEntry, TypeOK, ModuleInv, Inside
<1>15. CASE RequestIrq
  <2>1. isr' = isr /\ pc' = pc /\ image = "loading"
    BY <1>15 DEF RequestIrq
  <2>2. CASE image' = "in"
    BY <2>1, <2>2, <1>15 DEF RequestIrq, ModuleInv
  <2>3. CASE image' = "out"
    <3>1. /\ ~entry' /\ stale' /\ irq' = irq
          /\ ~fault' => \A r \in Readers : ~Inside(r)
      BY <2>3, <1>15 DEF RequestIrq
    <3> QED BY <2>1, <3>1 DEF ModuleInv, Inside
  <2> QED BY <2>2, <2>3, <1>15 DEF RequestIrq
<1>16. CASE RemoveEntry
  BY <1>16 DEF RemoveEntry, TypeOK, ModuleInv, Inside
<1>17. CASE FreeIrq
  BY <1>17 DEF FreeIrq, TypeOK, ModuleInv, Inside
<1>18. CASE UNCHANGED vars
  BY <1>18 DEF vars, TypeOK, ModuleInv, Inside
<1> QED
  BY <1>1, <1>2, <1>3, <1>4, <1>5, <1>6, <1>7, <1>8, <1>9, <1>10, <1>11, <1>12, <1>13,
     <1>14, <1>15, <1>16, <1>17, <1>18 DEF Next, Handler, Reader, Module

\* A step loses no wake-up.
LEMMA WakeupStep ==
    ASSUME IInv, [Next]_vars
    PROVE  NoLostWakeup'
<1> USE KbdAssumption DEF IInv, module, calls
<1>1. CASE StoreKey
  BY <1>1 DEF StoreKey, TypeOK, NoLostWakeup
<1>2. CASE SetFlag
  BY <1>2 DEF SetFlag, TypeOK, NoLostWakeup
<1>3. CASE WakeUp
  BY <1>3 DEF WakeUp, TypeOK, NoLostWakeup
<1>4. ASSUME NEW r \in Readers, Enter(r) PROVE NoLostWakeup'
  BY <1>4 DEF Enter, TypeOK, NoLostWakeup
<1>5. ASSUME NEW r \in Readers, Printed(r) PROVE NoLostWakeup'
  BY <1>5 DEF Printed, TypeOK, NoLostWakeup
<1>6. ASSUME NEW r \in Readers, NoCommand(r) PROVE NoLostWakeup'
  BY <1>6 DEF NoCommand, TypeOK, NoLostWakeup
<1>7. ASSUME NEW r \in Readers, Test(r) PROVE NoLostWakeup'
  BY <1>7 DEF Test, TypeOK, NoLostWakeup
<1>8. ASSUME NEW r \in Readers, Retest(r) PROVE NoLostWakeup'
  BY <1>8 DEF Retest, TypeOK, NoLostWakeup
<1>9. ASSUME NEW r \in Readers, Wake(r) PROVE NoLostWakeup'
  BY <1>9 DEF Wake, TypeOK, NoLostWakeup
<1>10. ASSUME NEW r \in Readers, Clear(r) PROVE NoLostWakeup'
  BY <1>10 DEF Clear, TypeOK, NoLostWakeup
<1>11. ASSUME NEW r \in Readers, Take(r) PROVE NoLostWakeup'
  BY <1>11 DEF Take, TypeOK, NoLostWakeup
<1>12. ASSUME NEW r \in Readers, Signal(r) PROVE NoLostWakeup'
  BY <1>12 DEF Signal, TypeOK, NoLostWakeup
<1>13. ASSUME NEW r \in Readers, EnterStale(r) PROVE NoLostWakeup'
  BY <1>13 DEF EnterStale, TypeOK, NoLostWakeup
<1>14. CASE CreateEntry
  BY <1>14 DEF CreateEntry, TypeOK, NoLostWakeup
<1>15. CASE RequestIrq
  BY <1>15 DEF RequestIrq, TypeOK, NoLostWakeup
<1>16. CASE RemoveEntry
  BY <1>16 DEF RemoveEntry, TypeOK, NoLostWakeup
<1>17. CASE FreeIrq
  BY <1>17 DEF FreeIrq, TypeOK, NoLostWakeup
<1>18. CASE UNCHANGED vars
  BY <1>18 DEF vars, TypeOK, NoLostWakeup
<1> QED
  BY <1>1, <1>2, <1>3, <1>4, <1>5, <1>6, <1>7, <1>8, <1>9, <1>10, <1>11, <1>12, <1>13,
     <1>14, <1>15, <1>16, <1>17, <1>18 DEF Next, Handler, Reader, Module

\* A step gives no call an old key.
LEMMA NewStep ==
    ASSUME IInv, [Next]_vars
    PROVE  KeyIsNew'
<1> USE KbdAssumption DEF IInv, module, calls
<1>1. CASE StoreKey
  BY <1>1 DEF StoreKey, TypeOK, KeyIsNew, KeysInv, ModuleInv, Inside
<1>2. CASE SetFlag
  BY <1>2 DEF SetFlag, TypeOK, KeyIsNew, KeysInv, ModuleInv, Inside
<1>3. CASE WakeUp
  BY <1>3 DEF WakeUp, TypeOK, KeyIsNew, KeysInv, ModuleInv, Inside
<1>4. ASSUME NEW r \in Readers, Enter(r) PROVE KeyIsNew'
  BY <1>4 DEF Enter, TypeOK, KeyIsNew, KeysInv, ModuleInv, Inside
<1>5. ASSUME NEW r \in Readers, Printed(r) PROVE KeyIsNew'
  BY <1>5 DEF Printed, TypeOK, KeyIsNew, KeysInv, ModuleInv, Inside
<1>6. ASSUME NEW r \in Readers, NoCommand(r) PROVE KeyIsNew'
  BY <1>6 DEF NoCommand, TypeOK, KeyIsNew, KeysInv, ModuleInv, Inside
<1>7. ASSUME NEW r \in Readers, Test(r) PROVE KeyIsNew'
  BY <1>7 DEF Test, TypeOK, KeyIsNew, KeysInv, ModuleInv, Inside
<1>8. ASSUME NEW r \in Readers, Retest(r) PROVE KeyIsNew'
  BY <1>8 DEF Retest, TypeOK, KeyIsNew, KeysInv, ModuleInv, Inside
<1>9. ASSUME NEW r \in Readers, Wake(r) PROVE KeyIsNew'
  BY <1>9 DEF Wake, TypeOK, KeyIsNew, KeysInv, ModuleInv, Inside
<1>10. ASSUME NEW r \in Readers, Clear(r) PROVE KeyIsNew'
  BY <1>10 DEF Clear, TypeOK, KeyIsNew, KeysInv, ModuleInv, Inside
<1>11. ASSUME NEW r \in Readers, Take(r) PROVE KeyIsNew'
  BY <1>11 DEF Take, TypeOK, KeyIsNew, After
<1>12. ASSUME NEW r \in Readers, Signal(r) PROVE KeyIsNew'
  BY <1>12 DEF Signal, TypeOK, KeyIsNew, KeysInv, ModuleInv, Inside
<1>13. ASSUME NEW r \in Readers, EnterStale(r) PROVE KeyIsNew'
  BY <1>13 DEF EnterStale, TypeOK, KeyIsNew, KeysInv, ModuleInv, Inside
<1>14. CASE ~fault /\ CreateEntry
  <2>1. \A r \in Readers : ~Inside(r)
    BY <1>14 DEF CreateEntry, ModuleInv
  <2> QED BY <2>1, <1>14 DEF CreateEntry, KeyIsNew, Inside
<1>15. CASE RequestIrq
  BY <1>15 DEF RequestIrq, TypeOK, KeyIsNew, KeysInv, ModuleInv, Inside
<1>16. CASE RemoveEntry
  BY <1>16 DEF RemoveEntry, TypeOK, KeyIsNew, KeysInv, ModuleInv, Inside
<1>17. CASE FreeIrq
  BY <1>17 DEF FreeIrq, TypeOK, KeyIsNew, KeysInv, ModuleInv, Inside
<1>18. CASE UNCHANGED vars
  BY <1>18 DEF vars, TypeOK, KeyIsNew, KeysInv, ModuleInv, Inside
<1> QED
  BY <1>1, <1>2, <1>3, <1>4, <1>5, <1>6, <1>7, <1>8, <1>9, <1>10, <1>11, <1>12, <1>13,
     <1>14, <1>15, <1>16, <1>17, <1>18 DEF Next, Handler, Reader, Module

-----------------------------------------------------------------------------
\* A module that is not loaded satisfies the invariant.
LEMMA InitEstablishes == Init => IInv
<1> SUFFICES ASSUME Init PROVE IInv
  OBVIOUS
<1>1. TypeOK
  <2>1. 0 \in 0 .. MaxPresses /\ 0 \in 0 .. 0
    BY KbdAssumption
  <2>2. /\ key \in [Readers -> 0 .. MaxPresses]
        /\ reported \in [Readers -> 0 .. MaxPresses]
    BY <2>1 DEF Init
  <2> QED BY <2>1, <2>2 DEF Init, TypeOK
<1>2. KeysInv
  BY DEF Init, KeysInv, Flagged
<1>3. ModuleInv /\ NoLostWakeup /\ KeyIsNew
  BY DEF Init, ModuleInv, NoLostWakeup, KeyIsNew, Inside
<1> QED BY <1>1, <1>2, <1>3 DEF IInv

\* Every step of the handler, of a reader or of the module keeps it.
LEMMA StepPreserves == IInv /\ [Next]_vars => IInv'
  BY TypeStep, KeysStep, ModuleStep, WakeupStep, NewStep DEF IInv

\* What waits has a handler, by what the module's state says of the calls inside.
LEMMA InvariantServes == IInv => CallsServed
  BY DEF IInv, ModuleInv, CallsServed, Inside

\* The inductive invariant holds of every load, call and press.
THEOREM Invariant == Spec => []IInv
  BY InitEstablishes, StepPreserves, PTL DEF Spec

\* All variables of the driver keep their types; nobody is in the wait queue of
\* ev_press but a reader in wait_event_interruptible (KBD_module.c:122).
THEOREM TypeCorrect == Spec => []TypeOK
  BY Invariant, PTL DEF IInv

\* Whatever the steps of ir_getchar fall between, the set flag and the sleep of a
\* reader never pass each other by (KBD_module.c:104-105, 122).
THEOREM NoWakeupIsLost == Spec => []NoLostWakeup
  BY Invariant, PTL DEF IInv

\* However many readers share KBD_key and ev_press without a lock, the key a call
\* takes is of a press flagged after it began (KBD_module.c:117-124).
THEOREM KeysAreNew == Spec => []KeyIsNew
  BY Invariant, PTL DEF IInv

\* The handler and the module outlive the calls, except by way of a load that failed
\* (KBD_module.c:45-55, 75-76).
THEOREM CallsAreServed == Spec => []CallsServed
  BY Invariant, InvariantServes, PTL
=============================================================================
