------------------------- MODULE ThreadTable_proofs -------------------------
(***************************************************************************)
(* What the operations on the TCB array return, for every length N of the  *)
(* array.  The specifications' proofs cite these lemmas.                   *)
(***************************************************************************)
EXTENDS ThreadTable, WellFoundedInduction, TLAPS

\* Min of FiniteSetsExt is the least element, as the loops that stop at the
\* first hit compute it.
LEMMA MinLemma ==
    ASSUME NEW S \in SUBSET Nat, S # {}
    PROVE  Min(S) \in S /\ \A x \in S : Min(S) <= x
<1>1. PICK n \in S : \A m \in S : <<m, n>> \notin OpToRel(<, Nat)
  BY WFMin, NatLessThanWellFounded
<1>2. \A m \in S : ~(m < n)
  BY <1>1, Zenon DEF OpToRel
<1>3. \A m \in S : n <= m
  BY <1>2
<1> QED BY <1>3 DEF Min

\* The index (currentThread + i) % N, for i from 1 to N, without the modulo:
\* it runs up to the end of the array and goes on from its beginning.
LEMMA VisitedLemma ==
    ASSUME NEW cur \in Threads \cup {-1}, NEW i \in 1..N
    PROVE  /\ Visited(cur, i) \in Threads
           /\ Visited(cur, i) = IF cur + i < N THEN cur + i ELSE cur + i - N
<1>1. N \in Nat /\ N > 0
  BY NAssumption DEF infinit
<1>2. cur \in Int /\ cur + i \in 0..(2 * N - 1)
  BY <1>1 DEF Threads
<1>3. CASE cur + i < N
  <2>1. (cur + i) % N = cur + i
    BY <1>1, <1>2, <1>3
  <2> QED BY <2>1, <1>1, <1>2, <1>3 DEF Visited, Threads
<1>4. CASE cur + i >= N
  <2>1. (cur + i) % N = cur + i - N
    BY <1>1, <1>2, <1>4
  <2> QED BY <2>1, <1>1, <1>2, <1>4 DEF Visited, Threads
<1> QED BY <1>1, <1>2, <1>3, <1>4

\* Every slot is visited, so the search fails only if nothing is runnable.
LEMMA VisitedAll ==
    ASSUME NEW cur \in Threads \cup {-1}, NEW t \in Threads
    PROVE  \E i \in 1..N : Visited(cur, i) = t
<1>1. N \in Nat /\ N > 0
  BY NAssumption DEF infinit
<1>2. CASE t > cur
  <2>1. t - cur \in 1..N
    BY <1>1, <1>2 DEF Threads
  <2>2. Visited(cur, t - cur) = t
    BY <2>1, <1>1, VisitedLemma DEF Threads
  <2> QED BY <2>1, <2>2
<1>3. CASE t <= cur
  <2>1. t - cur + N \in 1..N
    BY <1>1, <1>3 DEF Threads
  <2>2. Visited(cur, t - cur + N) = t
    BY <2>1, <1>1, <1>3, VisitedLemma DEF Threads
  <2> QED BY <2>1, <2>2
<1> QED BY <1>1, <1>2, <1>3 DEF Threads

\* Slots that lie on the way from cur round the array to b.
Between(cur, b) ==
    {t \in Threads : IF b > cur THEN cur < t /\ t < b ELSE cur < t \/ t < b}

\* The search loop of scheduler returns the sentinel exactly when no slot is
\* runnable, and otherwise the first runnable slot after cur.
LEMMA NextThreadLemma ==
    ASSUME NEW tab, NEW cur \in Threads \cup {-1}
    PROVE  \/ /\ NextThread(tab, cur) = infinit
              /\ \A t \in Threads : ~Runnable(tab, t)
           \/ /\ NextThread(tab, cur) \in Threads
              /\ NextThread(tab, cur) # infinit
              /\ Runnable(tab, NextThread(tab, cur))
              /\ \A t \in Between(cur, NextThread(tab, cur)) : ~Runnable(tab, t)
<1> DEFINE C == Candidates(tab, cur)
           k == Min(C)
           next == NextThread(tab, cur)
<1>1. N \in Nat /\ N > 0 /\ N <= infinit
  BY NAssumption DEF infinit
<1>2. CASE C = {}
  <2>1. next = infinit
    BY <1>2 DEF NextThread
  <2>2. ASSUME NEW t \in Threads PROVE ~Runnable(tab, t)
    <3>1. PICK i \in 1..N : Visited(cur, i) = t
      BY VisitedAll
    <3> QED BY <3>1, <1>2 DEF Candidates
  <2> QED BY <2>1, <2>2
<1>3. CASE C # {}
  <2>1. C \in SUBSET Nat
    BY <1>1 DEF Candidates
  <2>2. k \in C /\ \A i \in C : k <= i
    BY <2>1, <1>3, MinLemma
  <2>3. k \in 1..N /\ Runnable(tab, Visited(cur, k))
    BY <2>2 DEF Candidates
  <2>4. next = Visited(cur, k)
    BY <1>3 DEF NextThread
  <2>5. next \in Threads /\ next # infinit
    BY <2>3, <2>4, <1>1, VisitedLemma DEF Threads
  <2>6. ASSUME NEW t \in Between(cur, next), Runnable(tab, t) PROVE FALSE
    <3>1. PICK i \in 1..N : Visited(cur, i) = t
      BY VisitedAll DEF Between
    <3>2. i \in C
      BY <3>1, <2>6 DEF Candidates
    <3>3. k <= i
      BY <3>2, <2>2
    <3>4. next = IF cur + k < N THEN cur + k ELSE cur + k - N
      BY <2>3, <2>4, VisitedLemma
    <3>5. t = IF cur + i < N THEN cur + i ELSE cur + i - N
      BY <3>1, VisitedLemma
    <3>6. t # next
      BY <2>5 DEF Between, Threads
    <3> QED BY <3>3, <3>4, <3>5, <3>6, <2>3, <2>5, <1>1 DEF Between, Threads
  <2> QED BY <2>3, <2>4, <2>5, <2>6
<1> QED BY <1>2, <1>3

\* threadCreate, on an array whose first k slots are assigned and the others
\* are not, fills slot k, or nothing if k is N.
LEMMA ThreadCreateLemma ==
    ASSUME NEW tab, NEW k \in 0..N, NEW f,
           \A t \in Threads : tab[t].assigned = (IF t < k THEN 1 ELSE 0)
    PROVE  /\ k = N => ThreadCreate(tab, f) = tab
           /\ k < N => ThreadCreate(tab, f) =
                          [tab EXCEPT ![k] = [assigned |-> 1, finished |-> 0,
                                              function |-> f, stackPointer |-> f]]
<1>1. N \in Nat /\ N > 0
  BY NAssumption DEF infinit
<1>2. FreeSlots(tab) = {t \in Threads : t >= k}
  BY <1>1 DEF FreeSlots, Threads
<1>3. CASE k = N
  BY <1>1, <1>2, <1>3 DEF Threads, ThreadCreate
<1>4. CASE k < N
  <2>1. k \in FreeSlots(tab) /\ FreeSlots(tab) \in SUBSET Nat
    BY <1>1, <1>2, <1>4 DEF Threads
  <2>2. Min(FreeSlots(tab)) \in FreeSlots(tab) /\ Min(FreeSlots(tab)) <= k
    BY <2>1, MinLemma
  <2>3. Min(FreeSlots(tab)) = k
    BY <1>1, <1>2, <2>2 DEF Threads
  <2> QED BY <1>1, <1>4, <2>1, <2>3 DEF ThreadCreate
<1> QED BY <1>1, <1>3, <1>4
=============================================================================
