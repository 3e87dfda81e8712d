---------------------------- MODULE ThreadTable ----------------------------
(***************************************************************************)
(* The TCB array that FIFOS-1 and FIFOS-2 share (the two init.c files hold *)
(* the same code): how a slot is claimed, which thread the scheduler picks *)
(* next, and the states of a slot.                                         *)
(*                                                                         *)
(* A job is the pair of a thread function and the static stack created     *)
(* with it: function1 with stack1, and so on.  Job f runs on stack f, and  *)
(* stack 0 is the boot stack that init runs on.  TCB fields that the code  *)
(* only ever writes (id, priority, bp) are left out.                       *)
(*                                                                         *)
(* A definition named X_mistake is X with a bug a programmer could make.   *)
(* No specification uses it: it is put in the place of X to see which      *)
(* property notices.                                                       *)
(***************************************************************************)
EXTENDS Integers, FiniteSetsExt

CONSTANT N          \* length of TCBArray

infinit == 1000     \* "no thread found", must not be the index of a slot

ASSUME NAssumption == N \in 1..infinit

Threads == 0..N-1

Runnable(tab, t) == tab[t].assigned = 1 /\ tab[t].finished = 0

Visited_from_self(cur, i) == (cur + i - 1) % N

Visited_backwards(cur, i) == (cur + N - i) % N

\* The slot the search of scheduler visits i steps after the running one.
Visited(cur, i) == (cur + i) % N

Candidates(tab, cur) == {i \in 1..N : Runnable(tab, Visited(cur, i))}

\* The search loop of scheduler: the first runnable slot after the running
\* one, which itself is visited last.
NextThread(tab, cur) ==
    IF Candidates(tab, cur) = {}
    THEN infinit
    ELSE Visited(cur, Min(Candidates(tab, cur)))

InitTCBArray ==
    [t \in Threads |-> [assigned |-> 0, finished |-> 1,
                        function |-> 0, stackPointer |-> 0]]

FreeSlots(tab) == {t \in Threads : tab[t].assigned = 0}

ThreadCreate_unassigned(tab, f) ==
    [tab EXCEPT ![Min(FreeSlots(tab))] =
        [assigned |-> 0, finished |-> 0, function |-> f, stackPointer |-> f]]

\* threadCreate: claim the first unassigned slot, or leave the array alone
\* (and return 0) when there is none.
ThreadCreate(tab, f) ==
    IF FreeSlots(tab) = {}
    THEN tab
    ELSE [tab EXCEPT ![Min(FreeSlots(tab))] =
             [assigned |-> 1, finished |-> 0,
              function |-> f, stackPointer |-> f]]

\* switch_to's "movl %esp, (%esi)": no save when the caller is not a thread.
SaveContext(tab, temp, sp) ==
    IF temp = -1 THEN tab ELSE [tab EXCEPT ![temp].stackPointer = sp]
=============================================================================
