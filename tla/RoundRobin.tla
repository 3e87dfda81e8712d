----------------------------- MODULE RoundRobin -----------------------------
(***************************************************************************)
(* What a FIFOS system promises its threads, without a scheduler, context  *)
(* switches or stacks: the threads that still have work sit on a ring, and *)
(* the turn goes round the ring.  On its turn a thread does one unit of    *)
(* work, or leaves when it has none left; either way the turn passes to    *)
(* the nearest thread ahead that is still on the ring.                     *)
(***************************************************************************)
EXTENDS Integers

CONSTANT N          \* places on the ring

Boot == -1          \* value of turn before the first thread runs
Halt == N           \* value of turn when every thread has left
Absent == -1        \* work of a place nobody sits at

Places == 0..N-1

VARIABLES work,     \* units of work left at each place, or Absent
          turn      \* whose turn it is

vars == <<work, turn>>

Present(w) == {p \in Places : w[p] # Absent}

\* Places passed over on the way round the ring from a to b: all the others
\* when b is a itself.
Distance(a, b) == (b - a - 1) % N

Nearest(w, a) == CHOOSE b \in Present(w) :
                   \A c \in Present(w) : Distance(a, b) <= Distance(a, c)

PassTurn(w, from) == IF Present(w) = {} THEN Halt ELSE Nearest(w, from)

Init == /\ work = [p \in Places |-> Absent]
        /\ turn = Boot

\* Threads are admitted before the first turn, with any amount of work.
Admit == /\ turn = Boot
         /\ \E p \in Places :
               /\ work[p] = Absent
               /\ work' = [work EXCEPT ![p] = work'[p]]
               /\ work'[p] \in Nat
         /\ UNCHANGED turn

\* The boot code hands over to the first thread on the ring.
Begin == /\ turn = Boot
         /\ turn' = PassTurn(work, Boot)
         /\ UNCHANGED work

Work == /\ turn \in Places
        /\ work[turn] > 0
        /\ work' = [work EXCEPT ![turn] = @ - 1]
        /\ turn' = PassTurn(work', turn)

Leave == /\ turn \in Places
         /\ work[turn] = 0
         /\ work' = [work EXCEPT ![turn] = Absent]
         /\ turn' = PassTurn(work', turn)

Next == Admit \/ Begin \/ Work \/ Leave

Fairness == WF_vars(Begin) /\ WF_vars(Work) /\ WF_vars(Leave)

Spec == Init /\ [][Next]_vars /\ Fairness
=============================================================================
