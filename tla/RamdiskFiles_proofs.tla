------------------------- MODULE RamdiskFiles_proofs -------------------------
(***************************************************************************)
(* Proofs about RamdiskFiles, for any files, any number of direct pointers,*)
(* any size of a block and any number of blocks that 16 bits can count.    *)
(*                                                                         *)
(* None of the properties is inductive.  What is, is that the disk holds a *)
(* tree of blocks for every file (Sound): each block of it in use, at one  *)
(* place, in the slot the code follows to it; free blocks zero.  Each file *)
(* has just the places its size asks for (Fills), the words there are what *)
(* was written (Holds), and what is in use without being at a place comes  *)
(* from large files that were removed (Lost).                              *)
(*                                                                         *)
(* A write in order attaches block after block to the tree; in a write out *)
(* of order the tree of the file is given up, and it is shown that only    *)
(* blocks of that file and free ones are written to (Rough, Drifts).       *)
(***************************************************************************)
EXTENDS RamdiskFiles, WellFoundedInduction, FiniteSetTheorems, SequenceTheorems, TLAPS

-----------------------------------------------------------------------------
(* Induction and folds.                                                    *)

\* A set of numbers that has 0, and with each number below n the next one, has
\* all numbers up to n.
LEMMA Upwards ==
    ASSUME NEW n \in Nat, NEW P, 0 \in P, \A k \in 0 .. n - 1 : k \in P => k + 1 \in P
    PROVE  \A k \in 0 .. n : k \in P
<1> DEFINE Bad == {k \in 0 .. n : k \notin P}
<1> SUFFICES ASSUME Bad # {} PROVE FALSE
  OBVIOUS
<1>1. PICK k \in Bad : \A j \in Bad : <<j, k>> \notin OpToRel(<, Nat)
  <2>1. Bad \in SUBSET Nat
    OBVIOUS
  <2> HIDE DEF Bad
  <2> QED BY <2>1, WFMin, NatLessThanWellFounded
<1>2. k \in 1 .. n
  <2>1. k \in 0 .. n /\ k \notin P
    OBVIOUS
  <2>2. k # 0
    BY <2>1
  <2> QED BY <2>1, <2>2
<1>3. k - 1 \in 0 .. n - 1 /\ k \in Nat /\ k - 1 \in Nat /\ k - 1 < k /\ k - 1 + 1 = k
  BY <1>2
<1>4. <<k - 1, k>> \in OpToRel(<, Nat)
  BY <1>3 DEF OpToRel
<1>5. k - 1 \notin Bad
  <2> HIDE DEF Bad
  <2> QED BY <1>1, <1>4, Zenon
<1>6. k - 1 \in P
  BY <1>3, <1>5
<1> QED BY <1>1, <1>3, <1>6

\* The greatest element of a set of numbers up to n is n, if it is in there.
LEMMA MaxIs ==
    ASSUME NEW n \in Nat, NEW S \in SUBSET (1 .. n), n \in S
    PROVE  Max(S) = n
<1>1. \A x \in S : n >= x
  OBVIOUS
<1>2. Max(S) \in S /\ \A x \in S : Max(S) >= x
  BY <1>1 DEF Max
<1>3. Max(S) \in 1 .. n /\ Max(S) >= n /\ n >= Max(S)
  BY <1>1, <1>2
<1> HIDE DEF Max
<1> QED BY <1>3

\* The turns of the four folds of RamdiskFiles.
Turn(x, w, e) ==
    IF x.kind = "words" THEN PutWord(w, e)
    ELSE IF x.kind = "locations" THEN FreeNext(w, x.location[e])
    ELSE IF x.kind = "pointers" THEN FreeNext(w, Follow(w.disk, x.block, e))
    ELSE FreeRowNext(w, Follow(w.disk, x.block, e))

\* What FoldLeft iterates, on the sets of places in a sequence.
Iterates(it, x, base, s, n) ==
    it = [S \in SUBSET (1 .. n) |->
             IF S = {} THEN base ELSE Turn(x, it[S \ {Max(S)}], s[Max(S)])]

\* There is such an iteration.
LEMMA FoldExists ==
    ASSUME NEW x, NEW base, NEW s, NEW n \in Nat
    PROVE  \E it : Iterates(it, x, base, s, n)
<1> DEFINE P == {m \in Nat : \E it : Iterates(it, x, base, s, m)}
<1>1. 0 \in P
  <2>1. SUBSET (1 .. 0) = {{}}
    OBVIOUS
  <2>2. Iterates([S \in SUBSET (1 .. 0) |-> base], x, base, s, 0)
    BY <2>1 DEF Iterates
  <2> QED BY <2>2
<1>2. ASSUME NEW k \in 0 .. n - 1, k \in P PROVE k + 1 \in P
  <2>1. PICK m \in Nat : m = k + 1
    OBVIOUS
  <2>2. PICK f : Iterates(f, x, base, s, k)
    BY <1>2
  <2> DEFINE last == s[m]
             g == [S \in SUBSET (1 .. m) |-> IF m \in S THEN Turn(x, f[S \ {m}], last) ELSE f[S]]
  <2> HIDE DEF last
  <2>3. ASSUME NEW S \in SUBSET (1 .. m)
        PROVE  g[S] = IF S = {} THEN base ELSE Turn(x, g[S \ {Max(S)}], s[Max(S)])
    <3>1. CASE m \in S
      <4>1. Max(S) = m /\ S # {}
        BY <2>1, <3>1, MaxIs
      <4>2. S \ {m} \in SUBSET (1 .. m) /\ m \notin S \ {m}
        OBVIOUS
      <4>3. g[S \ {m}] = f[S \ {m}] /\ g[S] = Turn(x, f[S \ {m}], last)
        BY <3>1, <4>2
      <4> QED BY <4>1, <4>3 DEF last
    <3>2. CASE m \notin S
      <4>1. S \in SUBSET (1 .. k) /\ g[S] = f[S]
        BY <2>1, <3>2
      <4>2. f[S] = IF S = {} THEN base ELSE Turn(x, f[S \ {Max(S)}], s[Max(S)])
        BY <2>2, <4>1 DEF Iterates
      <4>3. g[S \ {Max(S)}] = f[S \ {Max(S)}]
        BY <3>2
      <4> HIDE DEF g
      <4> QED BY <4>1, <4>2, <4>3
    <3> QED BY <3>1, <3>2
  <2>4. Iterates(g, x, base, s, m)
    BY <2>3 DEF Iterates
  <2> QED BY <2>1, <2>4
<1>3. \A k \in 0 .. n : k \in P
  <2> HIDE DEF P
  <2> QED BY <1>1, <1>2, Upwards
<1> QED BY <1>3

\* The fold of RamdiskFiles that has these turns.
FoldOf(x, base, s) ==
    IF x.kind = "words" THEN FoldLeft(PutWord, base, s)
    ELSE IF x.kind = "locations"
    THEN FoldLeft(LAMBDA w, i : FreeNext(w, x.location[i]), base, s)
    ELSE IF x.kind = "pointers"
    THEN FoldLeft(LAMBDA w, i : FreeNext(w, Follow(w.disk, x.block, i)), base, s)
    ELSE FoldLeft(LAMBDA w, i : FreeRowNext(w, Follow(w.disk, x.block, i)), base, s)

\* It is what the iteration has for the whole sequence.
LEMMA FoldIs ==
    ASSUME NEW n \in Nat, NEW x, NEW base, NEW s, DOMAIN s = 1 .. n
    PROVE  \E it : Iterates(it, x, base, s, n) /\ FoldOf(x, base, s) = it[1 .. n]
<1> DEFINE it == CHOOSE it : Iterates(it, x, base, s, n)
<1>1. Iterates(it, x, base, s, n)
  BY FoldExists
<1>2. FoldOf(x, base, s) = it[1 .. n]
  <2>1. CASE x.kind = "words"
    BY <2>1 DEF FoldOf, FoldLeft, MapThenFoldSet, Iterates, Turn
  <2>2. CASE x.kind = "locations"
    BY <2>2 DEF FoldOf, FoldLeft, MapThenFoldSet, Iterates, Turn
  <2>3. CASE x.kind = "pointers"
    BY <2>3 DEF FoldOf, FoldLeft, MapThenFoldSet, Iterates, Turn
  <2>4. CASE x.kind \notin {"words", "locations", "pointers"}
    BY <2>4 DEF FoldOf, FoldLeft, MapThenFoldSet, Iterates, Turn
  <2> QED BY <2>1, <2>2, <2>3, <2>4
<1> QED BY <1>1, <1>2

\* The values a fold goes through, turn by turn.
Trace(tr, x, base, s, n) ==
    tr[0] = base /\ \A k \in 1 .. n : tr[k] = Turn(x, tr[k - 1], s[k])

\* A fold has such values.
LEMMA FoldTrace ==
    ASSUME NEW n \in Nat, NEW x, NEW base, NEW s, DOMAIN s = 1 .. n
    PROVE  \E tr : Trace(tr, x, base, s, n) /\ FoldOf(x, base, s) = tr[n]
<1>1. PICK it : Iterates(it, x, base, s, n) /\ FoldOf(x, base, s) = it[1 .. n]
  BY FoldIs
<1> DEFINE tr == [k \in 0 .. n |-> it[1 .. k]]
<1>2. tr[0] = base
  <2>1. 1 .. 0 = {} /\ {} \in SUBSET (1 .. n)
    OBVIOUS
  <2> QED BY <1>1, <2>1 DEF Iterates
<1>3. ASSUME NEW k \in 1 .. n PROVE tr[k] = Turn(x, tr[k - 1], s[k])
  <2>1. k \in Nat /\ k \in 1 .. k /\ 1 .. k \in SUBSET (1 .. n)
    OBVIOUS
  <2>2. Max(1 .. k) = k
    BY <2>1, MaxIs
  <2>3. (1 .. k) \ {k} = 1 .. k - 1 /\ 1 .. k # {}
    BY <2>1
  <2>4. it[1 .. k] = Turn(x, it[1 .. k - 1], s[k])
    BY <1>1, <2>1, <2>2, <2>3 DEF Iterates
  <2> QED BY <2>4
<1>4. tr[n] = it[1 .. n]
  OBVIOUS
<1> HIDE DEF tr
<1> QED BY <1>1, <1>2, <1>3, <1>4 DEF Trace

-----------------------------------------------------------------------------
(* Places.                                                                 *)

\* The places of a file's tree: the data blocks 0 .. Capacity - 1, the block of
\* single-indirect pointers, that of double-indirect pointers, and the rows
\* below it.
Capacity == SingleEnd + Words * Words
Single == -1
Top == -2
Row(r) == -3 - r
Places == -2 - Words .. Capacity - 1

\* Where the pointer to a place is: in the inode, or in the block at another
\* place, its holder.
Root(p) == p \in {Single, Top} \cup 0 .. Direct - 1
Holder(p) == IF p <= -3 THEN Top
             ELSE IF p < SingleEnd THEN Single
             ELSE Row((p - SingleEnd) \div Words)
Slot(p) == IF p <= -3 THEN -3 - p
           ELSE IF p = Top THEN Direct + 1
           ELSE IF p = Single THEN Direct
           ELSE IF p < Direct THEN p
           ELSE IF p < SingleEnd THEN p - Direct
           ELSE (p - SingleEnd) % Words

Index == 0 .. Words - 1
Slots == 0 .. Direct + 1

\* The places of a file of n data blocks.
Filled(n) == {p \in Places : \/ p >= 0 /\ p < n
                             \/ p = Single /\ n > Direct
                             \/ p = Top /\ n > SingleEnd
                             \/ p <= -3 /\ n > SingleEnd + (-3 - p) * Words}

\* The constants.
LEMMA Sizes ==
    /\ Direct \in Nat /\ Direct > 0 /\ Words \in Nat /\ Words > 0 /\ Words * Words \in Nat
    /\ SingleEnd \in Nat /\ SingleEnd = Direct + Words /\ SingleEnd > Direct
    /\ Capacity \in Nat /\ Capacity > SingleEnd /\ Capacity - SingleEnd = Words * Words
    /\ max_file_size = Capacity * Words /\ max_file_size \in Nat
<1>1. Direct \in Nat /\ Direct > 0 /\ Words \in Nat /\ Words > 0
  BY FilesAssumption
<1>2. Words * Words \in Nat /\ Words * Words > 0
  BY <1>1
<1>3. /\ SingleEnd \in Nat /\ SingleEnd = Direct + Words /\ SingleEnd > Direct
      /\ Capacity = SingleEnd + Words * Words
  BY <1>1 DEF SingleEnd, Capacity
<1>4. Capacity \in Nat /\ Capacity > SingleEnd /\ Capacity - SingleEnd = Words * Words
  BY <1>2, <1>3
<1>5. max_file_size = Capacity * Words
  BY DEF max_file_size, Capacity
<1>6. max_file_size \in Nat
  <2>1. Capacity * Words \in Nat
    BY <1>1, <1>4
  <2> QED BY <1>5, <2>1
<1> QED BY <1>1, <1>2, <1>3, <1>4, <1>5, <1>6, Zenon

\* The order of numbers is that of their multiples.
LEMMA Multiples ==
    ASSUME NEW a \in Nat, NEW b \in Nat, NEW w \in Nat, w > 0
    PROVE  /\ (a * w < b * w) => (a < b)
           /\ (a <= b) => (a * w <= b * w)
           /\ (a < b) => (a * w + w <= b * w)
<1>1. ASSUME NEW c \in Nat, NEW d \in Nat, c <= d PROVE c * w <= d * w
  <2>1. PICK e \in Nat : d = c + e
    <3>1. d - c \in Nat /\ d = c + (d - c)
      BY <1>1
    <3> QED BY <3>1
  <2>2. d * w = c * w + e * w /\ e * w \in Nat /\ c * w \in Nat
    BY <2>1
  <2> QED BY <2>2
<1>2. ASSUME a * w < b * w, ~(a < b) PROVE FALSE
  <2>1. b * w <= a * w
    BY <1>1, <1>2
  <2>2. a * w \in Nat /\ b * w \in Nat
    OBVIOUS
  <2> QED BY <1>2, <2>1, <2>2
<1>3. ASSUME a < b PROVE a * w + w <= b * w
  <2>1. (a + 1) * w <= b * w
    BY <1>1, <1>3
  <2>2. (a + 1) * w = a * w + w
    OBVIOUS
  <2> QED BY <2>1, <2>2
<1> QED BY <1>1, <1>2, <1>3

\* A number is one multiple of Words and one rest.
LEMMA DivMod ==
    ASSUME NEW n \in Nat
    PROVE  /\ n \div Words \in Nat /\ n % Words \in Index
           /\ n = (n \div Words) * Words + (n % Words)
           /\ n < (n \div Words) * Words + Words
           /\ \A q \in Nat : \A r \in Index :
                 n = q * Words + r => q = n \div Words /\ r = n % Words
<1>1. Words \in Nat /\ Words > 0
  BY Sizes
<1> DEFINE a == n \div Words
           c == n % Words
<1>2. a \in Nat /\ c \in 0 .. Words - 1 /\ n = a * Words + c
  BY <1>1
<1> HIDE DEF a, c
<1>3. n < a * Words + Words
  <2>1. a * Words \in Nat
    BY <1>1, <1>2
  <2> QED BY <1>1, <1>2, <2>1
<1>4. ASSUME NEW q \in Nat, NEW r \in Index, n = q * Words + r PROVE q = a /\ r = c
  <2>1. q * Words \in Nat /\ a * Words \in Nat /\ r \in 0 .. Words - 1
    BY <1>1, <1>2 DEF Index
  <2>2. ~(q < a)
    <3>1. q < a => q * Words + Words <= a * Words
      BY <1>1, <1>2, Multiples
    <3> QED BY <1>1, <1>2, <1>4, <2>1, <3>1
  <2>3. ~(a < q)
    <3>1. a < q => a * Words + Words <= q * Words
      BY <1>1, <1>2, Multiples
    <3> QED BY <1>1, <1>2, <1>4, <2>1, <3>1
  <2>4. q = a
    BY <1>2, <2>2, <2>3
  <2>5. r + a * Words = c + a * Words
    BY <1>2, <1>4, <2>1, <2>4
  <2> QED BY <1>2, <2>1, <2>4, <2>5
<1> QED BY <1>2, <1>3, <1>4 DEF a, c, Index

\* A data block behind the single-indirect ones has a row and a place in it.
LEMMA RowOf ==
    ASSUME NEW p \in SingleEnd .. Capacity - 1
    PROVE  /\ (p - SingleEnd) \div Words \in Index /\ (p - SingleEnd) % Words \in Index
           /\ p = SingleEnd + ((p - SingleEnd) \div Words) * Words + ((p - SingleEnd) % Words)
<1>1. PICK k \in Nat : k = p - SingleEnd
  BY Sizes
<1>2. k < Words * Words /\ p = SingleEnd + k
  BY <1>1, Sizes
<1> DEFINE q == k \div Words
           r == k % Words
<1>3. q \in Nat /\ r \in Index /\ k = q * Words + r
  BY DivMod
<1> HIDE DEF q, r
<1>4. q < Words
  <2>1. Words \in Nat /\ Words > 0 /\ q * Words \in Nat /\ Words * Words \in Nat
    BY <1>3, Sizes
  <2>2. q * Words < Words * Words
    BY <1>2, <1>3, <2>1 DEF Index
  <2> QED BY <1>3, <2>1, <2>2, Multiples
<1>5. q \in Index
  BY <1>3, <1>4, Sizes DEF Index
<1>6. q * Words \in Nat /\ r \in Nat /\ SingleEnd \in Nat
  BY <1>3, Sizes DEF Index
<1>7. p = SingleEnd + q * Words + r
  BY <1>2, <1>3, <1>6
<1> QED BY <1>1, <1>3, <1>5, <1>7 DEF q, r

\* Every place has a slot of its own.
LEMMA PlaceLemma ==
    /\ \A p \in Places : Root(p) => Slot(p) \in Slots
    /\ \A p \in Places : ~Root(p) =>
          /\ Holder(p) \in Places /\ Holder(p) < 0 /\ Holder(p) # p /\ Slot(p) \in Index
    /\ \A p, q \in Places : Root(p) /\ Root(q) /\ Slot(p) = Slot(q) => p = q
    /\ \A p, q \in Places :
          ~Root(p) /\ ~Root(q) /\ Holder(p) = Holder(q) /\ Slot(p) = Slot(q) => p = q
<1>1. ASSUME NEW p \in Places, Root(p) PROVE Slot(p) \in Slots
  BY <1>1, Sizes DEF Root, Slot, Slots, Single, Top, Places
<1>2. ASSUME NEW p \in Places, ~Root(p)
      PROVE  /\ Holder(p) \in Places /\ Holder(p) < 0 /\ Holder(p) # p /\ Slot(p) \in Index
             /\ p \in Direct .. Capacity - 1 \/ p \in -2 - Words .. -3
  <2>1. p \in Direct .. Capacity - 1 \/ p \in -2 - Words .. -3
    BY <1>2, Sizes DEF Places, Root, Single, Top
  <2>2. CASE p \in -2 - Words .. -3
    BY <2>2, Sizes DEF Holder, Slot, Places, Top, Index
  <2>3. CASE p \in Direct .. SingleEnd - 1
    BY <2>3, Sizes DEF Holder, Slot, Places, Top, Single, Index
  <2>4. CASE p \in SingleEnd .. Capacity - 1
    <3> DEFINE q == (p - SingleEnd) \div Words
               r == (p - SingleEnd) % Words
    <3>1. q \in Index /\ r \in Index
      BY <2>4, RowOf
    <3> HIDE DEF q, r
    <3>2. Holder(p) = Row(q) /\ Slot(p) = r
      BY <2>4, Sizes DEF Holder, Slot, Top, Single, q, r
    <3> QED BY <2>4, <3>1, <3>2, Sizes DEF Row, Places, Index
  <2> QED BY <2>1, <2>2, <2>3, <2>4, Sizes
<1>3. ASSUME NEW p \in Places, NEW q \in Places, Root(p), Root(q), Slot(p) = Slot(q) PROVE p = q
  BY <1>3, Sizes DEF Root, Slot, Single, Top, Places
<1>4. ASSUME NEW p \in Places, NEW q \in Places, ~Root(p), ~Root(q), Holder(p) = Holder(q),
             Slot(p) = Slot(q)
      PROVE  p = q
  <2> DEFINE A(x) == x \in -2 - Words .. -3
             B(x) == x \in Direct .. SingleEnd - 1
             C(x) == x \in SingleEnd .. Capacity - 1
  <2>1. \A x \in {p, q} : A(x) \/ B(x) \/ C(x)
    BY <1>2, <1>4, Sizes
  <2>2. ASSUME NEW x \in {p, q}, A(x) PROVE Holder(x) = Top /\ Slot(x) = -3 - x
    BY <2>2 DEF Holder, Slot
  <2>3. ASSUME NEW x \in {p, q}, B(x) PROVE Holder(x) = Single /\ Slot(x) = x - Direct
    BY <2>3, Sizes DEF Holder, Slot, Single, Top
  <2>4. ASSUME NEW x \in {p, q}, C(x)
        PROVE  /\ Holder(x) = Row((x - SingleEnd) \div Words)
               /\ (x - SingleEnd) \div Words \in Index
               /\ Slot(x) = (x - SingleEnd) % Words
               /\ x = SingleEnd + ((x - SingleEnd) \div Words) * Words + ((x - SingleEnd) % Words)
    <3>1. Holder(x) = Row((x - SingleEnd) \div Words) /\ Slot(x) = (x - SingleEnd) % Words
      BY <2>4, Sizes DEF Holder, Slot, Single, Top
    <3> QED BY <2>4, <3>1, RowOf
  <2>5. \A i \in Index : Row(i) < Top
    BY Sizes DEF Row, Top, Index
  <2>6. CASE A(p)
    <3>1. A(q)
      BY <1>4, <2>1, <2>2, <2>3, <2>4, <2>5, <2>6 DEF Top, Single
    <3>2. Slot(p) = -3 - p /\ Slot(q) = -3 - q
      BY <2>2, <2>6, <3>1
    <3>3. p \in Int /\ q \in Int
      BY DEF Places
    <3>4. -3 - p = -3 - q
      BY <1>4, <3>2, Zenon
    <3> HIDE <1>4, <3>2
    <3> QED BY <3>3, <3>4
  <2>7. CASE B(p)
    <3>1. B(q)
      BY <1>4, <2>1, <2>2, <2>3, <2>4, <2>5, <2>7 DEF Top, Single
    <3>2. Slot(p) = p - Direct /\ Slot(q) = q - Direct
      BY <2>3, <2>7, <3>1
    <3>3. p \in Int /\ q \in Int
      BY DEF Places
    <3>4. p - Direct = q - Direct
      BY <1>4, <3>2, Zenon
    <3> QED BY <3>3, <3>4, Sizes
  <2>8. CASE C(p)
    <3>1. C(q)
      BY <1>4, <2>1, <2>2, <2>3, <2>4, <2>5, <2>8 DEF Top, Single
    <3> DEFINE a == (p - SingleEnd) \div Words
               b == (q - SingleEnd) \div Words
    <3>2. a \in Index /\ b \in Index /\ Row(a) = Row(b)
      BY <1>4, <2>4, <2>8, <3>1
    <3>3. a = b
      <4> HIDE DEF a, b
      <4> QED BY <3>2, Sizes DEF Row, Index
    <3> DEFINE c == (p - SingleEnd) % Words
               d == (q - SingleEnd) % Words
    <3>4. c = d /\ p = SingleEnd + a * Words + c /\ q = SingleEnd + b * Words + d
      BY <1>4, <2>4, <2>8, <3>1
    <3> HIDE DEF a, b, c, d
    <3> QED BY <3>3, <3>4
  <2> QED BY <2>1, <2>6, <2>7, <2>8
<1> QED BY <1>1, <1>2, <1>3, <1>4

-----------------------------------------------------------------------------
(* What the steps of the calls do to a disk.                               *)

Word == {Zero} \cup {Pointer(b) : b \in Blocks} \cup {Data(f, k) : f \in Files, k \in Nat}
Inodes == [operation : BOOLEAN, size : Nat, block_number : Int, last_block_offset : Index,
           location : [Slots -> Blocks \cup {NULL}]]
Disks == [inode : [Files -> Inodes], space : [Blocks -> [Index -> Word]],
          index : SUBSET Blocks, freeBlock_number : Int, fault : {"", "index", "write", "free"}]

\* The counter agrees with the map.
Sane(d) == d \in Disks /\ d.freeBlock_number = Cardinality(Blocks \ d.index)

\* The largest value of the counter is a number.
LEMMA LargestIs == Largest \in Nat
BY DEF Largest

\* There are not more blocks than the counter counts.
LEMMA BlocksFinite ==
    /\ IsFiniteSet(Blocks) /\ Cardinality(Blocks) <= Largest
    /\ \A S \in SUBSET Blocks : IsFiniteSet(S) /\ Cardinality(S) \in 0 .. Largest
    /\ NULL \notin Blocks /\ WILD \notin Blocks /\ NULL # WILD
<1>1. NumBlocks \in Nat /\ NumBlocks <= Largest /\ Largest \in Nat
  BY FilesAssumption, LargestIs
<1>2. IsFiniteSet(Blocks) /\ Cardinality(Blocks) = NumBlocks
  <2>1. IsFiniteSet(0 .. NumBlocks - 1)
    BY <1>1, FS_Interval
  <2>2. Cardinality(0 .. NumBlocks - 1) = IF 0 > NumBlocks - 1 THEN 0 ELSE NumBlocks - 1 - 0 + 1
    BY <1>1, FS_Interval
  <2> QED BY <1>1, <2>1, <2>2 DEF Blocks
<1>3. ASSUME NEW S \in SUBSET Blocks PROVE IsFiniteSet(S) /\ Cardinality(S) \in 0 .. Largest
  <2>1. IsFiniteSet(S) /\ Cardinality(S) <= Cardinality(Blocks)
    BY <1>2, FS_Subset
  <2>2. Cardinality(S) \in Nat
    BY <2>1, FS_CardinalityType
  <2> QED BY <1>1, <1>2, <2>1, <2>2
<1>4. NULL \notin Blocks /\ WILD \notin Blocks /\ NULL # WILD
  BY <1>1 DEF Blocks, NULL, WILD
<1>5. Cardinality(Blocks) <= Largest
  BY <1>1, <1>2
<1> QED BY <1>2, <1>3, <1>4, <1>5

\* The counter of a sane disk is a number of blocks.
LEMMA CounterLemma ==
    ASSUME NEW d, Sane(d)
    PROVE  /\ d.freeBlock_number \in 0 .. Largest
           /\ d.freeBlock_number \in 0 .. NumBlocks
           /\ d.freeBlock_number >= 1 <=> FreeBlocks(d) # {}
<1>1. d.index \in SUBSET Blocks /\ d.freeBlock_number = Cardinality(Blocks \ d.index)
  BY DEF Sane, Disks
<1>2. IsFiniteSet(Blocks \ d.index) /\ Cardinality(Blocks \ d.index) \in 0 .. Largest
  BY BlocksFinite
<1>3. Cardinality(Blocks \ d.index) = 0 <=> Blocks \ d.index = {}
  BY <1>2, FS_EmptySet
<1>4. Cardinality(Blocks \ d.index) <= Cardinality(Blocks) /\ Cardinality(Blocks) = NumBlocks
  <2>1. NumBlocks \in Nat
    BY FilesAssumption
  <2>2. Cardinality(0 .. NumBlocks - 1) = IF 0 > NumBlocks - 1 THEN 0 ELSE NumBlocks - 1 - 0 + 1
    BY <2>1, FS_Interval
  <2>3. Cardinality(Blocks) = NumBlocks
    BY <2>1, <2>2 DEF Blocks
  <2> QED BY <2>3, BlocksFinite, FS_Subset
<1>5. Cardinality(Blocks \ d.index) \in 0 .. NumBlocks
  <2>1. NumBlocks \in Nat /\ Largest \in Nat
    BY FilesAssumption, LargestIs
  <2> QED BY <1>2, <1>4, <2>1
<1> QED BY <1>1, <1>2, <1>3, <1>5 DEF FreeBlocks

\* The lowest of some blocks.
LEMMA MinIs ==
    ASSUME NEW S \in SUBSET Blocks, S # {}
    PROVE  Min(S) \in S
<1>1. PICK n \in S : \A m \in S : <<m, n>> \notin OpToRel(<, Nat)
  <2>1. S \in SUBSET Nat
    BY Sizes, BlocksFinite DEF Blocks
  <2> QED BY <2>1, WFMin, NatLessThanWellFounded
<1>2. \A m \in S : n <= m
  <2>1. \A m \in S : m \in Nat /\ n \in Nat
    BY DEF Blocks
  <2>2. \A m \in S : ~(m < n)
    BY <1>1, <2>1, Zenon DEF OpToRel
  <2> QED BY <2>1, <2>2
<1> QED BY <1>2 DEF Min

\* The counter wraps only where it is 0.
LEMMA Wraps ==
    /\ \A x \in 0 .. Largest : x >= 1 => (x - 1) % (Largest + 1) = x - 1
    /\ \A x \in Int : x + 1 = 0 => x % (Largest + 1) = Largest
<1> DEFINE n == Largest + 1
<1>1. n \in Nat /\ n > 0
  BY LargestIs
<1>2. \A y \in Int, q \in Int, r \in Int : y = q * n + r /\ r >= 0 /\ r < n => y % n = r
  <2> HIDE DEF n
  <2> SUFFICES ASSUME NEW y \in Int, NEW q \in Int, NEW r \in Int, y = q * n + r, 0 <= r, r < n
               PROVE  y % n = r
    OBVIOUS
  <2> QED BY <1>1, SMTT(30)
<1>3. ASSUME NEW x \in 0 .. Largest, x >= 1 PROVE (x - 1) % n = x - 1
  <2>1. x - 1 \in Int /\ x - 1 >= 0 /\ x - 1 < n
    BY <1>3, LargestIs
  <2>2. x - 1 = 0 * n + (x - 1)
    BY <1>1, <2>1
  <2> HIDE DEF n
  <2> QED BY <1>2, <2>1, <2>2
<1>4. ASSUME NEW x \in Int, x + 1 = 0 PROVE x % n = Largest
  <2>1. x = (-1) * n + Largest /\ Largest >= 0 /\ Largest < n /\ Largest \in Int /\ -1 \in Int
    BY <1>4, LargestIs
  <2> HIDE DEF n
  <2> QED BY <1>2, <2>1
<1> QED BY <1>3, <1>4

\* While blocks are free, allocate_bitmap finds one, and the counter stays right;
\* with none left it counts on.
LEMMA TakenLemma ==
    ASSUME NEW d, Sane(d)
    PROVE  /\ Taken(d).inode = d.inode /\ Taken(d).space = d.space /\ Taken(d).fault = d.fault
           /\ Taken(d) \in Disks
           /\ d.freeBlock_number >= 1 =>
                 /\ NewBlock(d) \in Blocks /\ NewBlock(d) \notin d.index
                 /\ Taken(d).index = d.index \cup {NewBlock(d)}
                 /\ Taken(d).freeBlock_number = d.freeBlock_number - 1
                 /\ Sane(Taken(d))
           /\ ~(d.freeBlock_number >= 1) =>
                 NewBlock(d) = WILD /\ Taken(d).freeBlock_number = Largest
<1>1. /\ d \in Disks /\ d.index \in SUBSET Blocks
      /\ d.freeBlock_number \in 0 .. Largest
      /\ d.freeBlock_number >= 1 <=> FreeBlocks(d) # {}
  BY CounterLemma DEF Sane, Disks
<1> DEFINE a == NewBlock(d)
           I == d.index \cup ({a} \ {WILD})
           n == (d.freeBlock_number - 1) % (Largest + 1)
<1>2. Taken(d) = [d EXCEPT !.index = I, !.freeBlock_number = n]
  BY DEF Taken
<1>3. a \in Blocks \cup {WILD} /\ n \in Int
  <2>1. ASSUME FreeBlocks(d) = {} PROVE a = WILD
    BY <2>1 DEF NewBlock
  <2>2. ASSUME FreeBlocks(d) # {} PROVE a \in Blocks
    BY <2>2, MinIs DEF NewBlock, FreeBlocks
  <2>3. \A k \in Int : (k - 1) % (Largest + 1) \in Int
    BY LargestIs
  <2>4. n \in Int
    BY <1>1, <2>3
  <2> QED BY <2>1, <2>2, <2>4
<1> HIDE DEF I, n
<1>4. /\ Taken(d).inode = d.inode /\ Taken(d).space = d.space /\ Taken(d).fault = d.fault
      /\ Taken(d).index = I /\ Taken(d).freeBlock_number = n
  BY <1>1, <1>2 DEF Disks
<1>5. Taken(d) \in Disks
  <2>1. I \in SUBSET Blocks
    BY <1>1, <1>3 DEF I
  <2> QED BY <1>1, <1>2, <1>3, <2>1 DEF Disks
<1>6. ASSUME d.freeBlock_number >= 1
      PROVE  /\ a \in Blocks /\ a \notin d.index /\ I = d.index \cup {a}
             /\ n = d.freeBlock_number - 1 /\ Sane(Taken(d))
  <2>1. a \in Blocks /\ a \notin d.index
    BY <1>1, <1>6, MinIs DEF NewBlock, FreeBlocks
  <2>2. I = d.index \cup {a}
    BY <2>1, BlocksFinite DEF I
  <2>3. n = d.freeBlock_number - 1
    <3>1. \A x \in 0 .. Largest : x >= 1 => (x - 1) % (Largest + 1) = x - 1
      BY Wraps
    <3> QED BY <1>1, <1>6, <3>1 DEF n
  <2>4. Blocks \ I = (Blocks \ d.index) \ {a} /\ a \in Blocks \ d.index
    BY <2>1, <2>2
  <2>5. IsFiniteSet(Blocks \ d.index)
    BY BlocksFinite
  <2>6. Cardinality(Blocks \ I) = Cardinality(Blocks \ d.index) - 1
    BY <2>4, <2>5, FS_RemoveElement
  <2>7. Sane(Taken(d))
    BY <1>4, <1>5, <2>3, <2>6 DEF Sane
  <2> QED BY <2>1, <2>2, <2>3, <2>7
<1>7. ASSUME ~(d.freeBlock_number >= 1) PROVE a = WILD /\ n = Largest
  <2>1. d.freeBlock_number = 0 /\ FreeBlocks(d) = {}
    BY <1>1, <1>7
  <2>2. \A x \in Int : x + 1 = 0 => x % (Largest + 1) = Largest
    BY Wraps
  <2>3. d.freeBlock_number - 1 \in Int /\ d.freeBlock_number - 1 + 1 = 0
    BY <2>1
  <2>4. n = Largest
    <3>1. PICK x \in Int : x = d.freeBlock_number - 1
      BY <2>3
    <3>2. x % (Largest + 1) = Largest
      BY <2>2, <2>3, <3>1
    <3> QED BY <3>1, <3>2 DEF n
  <2> QED BY <2>1, <2>4 DEF NewBlock
<1> QED BY <1>4, <1>5, <1>6, <1>7

\* A word of an index block is set, or the kernel leaves the disk.
LEMMA EnterKeeps ==
    ASSUME NEW d \in Disks, NEW b, NEW i, NEW c
    PROVE  /\ Enter(d, b, i, c) \in Disks
           /\ Enter(d, b, i, c).inode = d.inode
           /\ Enter(d, b, i, c).freeBlock_number = d.freeBlock_number
           /\ Enter(d, b, i, c).index = d.index
<1>1. CASE b \in Blocks /\ c \in Blocks /\ i \in Index
  <2> DEFINE w == Pointer(c)
  <2>1. w \in Word
    BY <1>1 DEF Word
  <2>2. Enter(d, b, i, c) = [d EXCEPT !.space[b][i] = w]
    BY <1>1 DEF Enter, Index
  <2> HIDE DEF w
  <2>3. [d EXCEPT !.space[b][i] = w] \in Disks
    BY <1>1, <2>1 DEF Disks
  <2> QED BY <2>2, <2>3 DEF Disks
<1>2. CASE ~(b \in Blocks /\ c \in Blocks /\ i \in Index)
  <2>1. Enter(d, b, i, c) = [d EXCEPT !.fault = "index"]
    BY <1>2 DEF Enter, Fault, Index
  <2> QED BY <2>1 DEF Disks
<1> QED BY <1>1, <1>2

\* Inside the disk it is set, and nothing else.
LEMMA EnterLemma ==
    ASSUME NEW d \in Disks, NEW b \in Blocks, NEW i \in Index, NEW c \in Blocks
    PROVE  /\ Enter(d, b, i, c).fault = d.fault
           /\ Enter(d, b, i, c).space[b] = [d.space[b] EXCEPT ![i] = Pointer(c)]
           /\ \A x \in Blocks : x # b => Enter(d, b, i, c).space[x] = d.space[x]
<1> DEFINE w == Pointer(c)
           e == [d EXCEPT !.space[b][i] = w]
<1>1. Enter(d, b, i, c) = e
  BY DEF Enter, Index
<1> HIDE DEF w
<1>2. e.space = [d.space EXCEPT ![b][i] = w] /\ e.fault = d.fault
  BY DEF Disks
<1>3. /\ e.space[b] = [d.space[b] EXCEPT ![i] = w]
      /\ \A x \in Blocks : x # b => e.space[x] = d.space[x]
  BY <1>2 DEF Disks
<1> HIDE DEF e
<1> QED BY <1>1, <1>2, <1>3 DEF w

\* Inside the disk nothing goes wrong.
LEMMA EnterInside ==
    ASSUME NEW d \in Disks, NEW b \in Blocks, NEW i \in Index, NEW c \in Blocks
    PROVE  Enter(d, b, i, c).fault = d.fault
<1> DEFINE w == Pointer(c)
           e == [d EXCEPT !.space[b][i] = w]
<1>1. Enter(d, b, i, c) = e
  BY DEF Enter, Index
<1> HIDE DEF w
<1>2. e.fault = d.fault
  BY DEF Disks
<1> QED BY <1>1, <1>2

\* Outside the kernel leaves the disk.
LEMMA EnterFaults ==
    ASSUME NEW d \in Disks, NEW b, NEW i, NEW c,
           ~(b \in Blocks /\ c \in Blocks /\ i \in Index)
    PROVE  Enter(d, b, i, c).fault = "index" /\ Enter(d, b, i, c).space = d.space
<1>1. Enter(d, b, i, c) = [d EXCEPT !.fault = "index"]
  BY DEF Enter, Fault, Index
<1> QED BY <1>1 DEF Disks

\* A pointer of an inode is set.
LEMMA LocatedLemma ==
    ASSUME NEW d \in Disks, NEW f \in Files, NEW i \in Slots, NEW a \in Blocks
    PROVE  /\ Located(d, f, i, a) \in Disks
           /\ \A g \in Files : g # f => Located(d, f, i, a).inode[g] = d.inode[g]
           /\ Located(d, f, i, a).inode[f].size = d.inode[f].size
           /\ Located(d, f, i, a).inode[f].operation = d.inode[f].operation
           /\ Located(d, f, i, a).inode[f].block_number = d.inode[f].block_number
           /\ \A j \in Slots : Located(d, f, i, a).inode[f].location[j] =
                 IF j = i THEN a ELSE d.inode[f].location[j]
           /\ Located(d, f, i, a).freeBlock_number = d.freeBlock_number
           /\ Located(d, f, i, a).index = d.index
           /\ Located(d, f, i, a).fault = d.fault
           /\ Located(d, f, i, a).space = d.space
BY DEF Located, Disks, Inodes

\* What these set does not depend on the rest of the disk.
LEMMA SetLemma ==
    ASSUME NEW d \in Disks, NEW e \in Disks
    PROVE  /\ \A f \in Files, i \in Slots, a \in Blocks :
                 d.inode = e.inode => Located(d, f, i, a).inode = Located(e, f, i, a).inode
           /\ \A b \in Blocks, i \in Index, c \in Blocks :
                 d.space = e.space => Enter(d, b, i, c).space = Enter(e, b, i, c).space
<1>1. ASSUME NEW f \in Files, NEW i \in Slots, NEW a \in Blocks, d.inode = e.inode
      PROVE  Located(d, f, i, a).inode = Located(e, f, i, a).inode
  BY <1>1 DEF Located, Disks
<1>2. ASSUME NEW b \in Blocks, NEW i \in Index, NEW c \in Blocks, d.space = e.space
      PROVE  Enter(d, b, i, c).space = Enter(e, b, i, c).space
  <2> DEFINE w == Pointer(c)
  <2>1. /\ Enter(d, b, i, c) = [d EXCEPT !.space[b][i] = w]
        /\ Enter(e, b, i, c) = [e EXCEPT !.space[b][i] = w]
    BY DEF Enter, Index
  <2> HIDE DEF w
  <2>2. [d EXCEPT !.space[b][i] = w].space = [d.space EXCEPT ![b][i] = w]
    BY DEF Disks
  <2>3. [e EXCEPT !.space[b][i] = w].space = [e.space EXCEPT ![b][i] = w]
    BY DEF Disks
  <2> QED BY <1>2, <2>1, <2>2, <2>3
<1> QED BY <1>1, <1>2

\* The number of the last block is set.
LEMMA NumberedLemma ==
    ASSUME NEW d \in Disks, NEW f \in Files, NEW n \in Int
    PROVE  /\ Numbered(d, f, n) \in Disks
           /\ \A g \in Files : g # f => Numbered(d, f, n).inode[g] = d.inode[g]
           /\ Numbered(d, f, n).inode[f].location = d.inode[f].location
           /\ Numbered(d, f, n).inode[f].size = d.inode[f].size
           /\ Numbered(d, f, n).inode[f].operation = d.inode[f].operation
           /\ Numbered(d, f, n).inode[f].block_number = n
           /\ Numbered(d, f, n).freeBlock_number = d.freeBlock_number
           /\ Numbered(d, f, n).index = d.index
           /\ Numbered(d, f, n).fault = d.fault
           /\ Numbered(d, f, n).space = d.space
<1>1. 0 \in Index
  BY Sizes DEF Index
<1> QED BY <1>1, ZenonT(40) DEF Numbered, Disks, Inodes

\* A block is zeroed and given back.
LEMMA GiveBackLemma ==
    ASSUME NEW d, Sane(d), NEW b \in d.index
    PROVE  /\ Sane(GiveBack(d, b))
           /\ GiveBack(d, b).inode = d.inode /\ GiveBack(d, b).fault = d.fault
           /\ GiveBack(d, b).index = d.index \ {b}
           /\ GiveBack(d, b).space = [d.space EXCEPT ![b] = ZeroBlock]
<1>1. d \in Disks /\ d.index \in SUBSET Blocks /\ b \in Blocks
  BY DEF Sane, Disks
<1> DEFINE z == ZeroBlock
           I == d.index \ {b}
           n == d.freeBlock_number + 1
<1>2. z \in [Index -> Word]
  BY DEF ZeroBlock, Index, Word
<1>3. GiveBack(d, b) = [d EXCEPT !.space[b] = z, !.index = I, !.freeBlock_number = n]
  BY <1>1 DEF GiveBack
<1>4. n \in Int /\ n = Cardinality(Blocks \ I)
  <2>1. IsFiniteSet(Blocks \ d.index) /\ b \notin Blocks \ d.index
    BY BlocksFinite
  <2>2. Blocks \ I = (Blocks \ d.index) \cup {b}
    BY <1>1
  <2>3. Cardinality(Blocks \ I) = Cardinality(Blocks \ d.index) + 1
    BY <2>1, <2>2, FS_AddElement
  <2> QED BY <2>1, <2>3, FS_CardinalityType DEF Sane
<1> HIDE DEF z, I, n
<1>5. GiveBack(d, b) \in Disks
  <2>1. I \in SUBSET Blocks
    BY <1>1 DEF I
  <2>2. [d.space EXCEPT ![b] = z] \in [Blocks -> [Index -> Word]]
    BY <1>1, <1>2 DEF Disks
  <2>3. [d EXCEPT !.space[b] = z, !.index = I, !.freeBlock_number = n] \in Disks
    BY <1>1, <1>4, <2>1, <2>2 DEF Disks
  <2> QED BY <1>3, <2>3
<1>6. /\ GiveBack(d, b).inode = d.inode /\ GiveBack(d, b).fault = d.fault
      /\ GiveBack(d, b).index = I /\ GiveBack(d, b).freeBlock_number = n
      /\ GiveBack(d, b).space = [d.space EXCEPT ![b] = z]
  BY <1>1, <1>3 DEF Disks
<1> QED BY <1>4, <1>5, <1>6 DEF Sane, I, z

\* A word of a data block is written.
Written(d, b, i, w) == [d EXCEPT !.space[b][i] = w]

\* It is the only one.
LEMMA WrittenLemma ==
    ASSUME NEW d \in Disks, NEW b \in Blocks, NEW i \in Index, NEW w \in Word
    PROVE  /\ Written(d, b, i, w) \in Disks
           /\ Written(d, b, i, w).inode = d.inode
           /\ Written(d, b, i, w).freeBlock_number = d.freeBlock_number
           /\ Written(d, b, i, w).index = d.index
           /\ Written(d, b, i, w).fault = d.fault
           /\ Written(d, b, i, w).space[b] = [d.space[b] EXCEPT ![i] = w]
           /\ \A x \in Blocks : x # b => Written(d, b, i, w).space[x] = d.space[x]
<1>1. Written(d, b, i, w) \in Disks
  BY DEF Written, Disks
<1> QED BY <1>1 DEF Written, Disks

\* What a word of a block leads to depends on that word.
LEMMA FollowLemma ==
    ASSUME NEW d \in Disks, NEW b \in Blocks, NEW i \in Index
    PROVE  /\ Follow(d, b, i) \in Blocks \cup {NULL, WILD}
           /\ d.space[b][i] = Zero => Follow(d, b, i) = NULL
           /\ \A c : d.space[b][i] = Pointer(c) => Follow(d, b, i) = c
           /\ \A e : e.space[b][i] = d.space[b][i] => Follow(e, b, i) = Follow(d, b, i)
<1>1. d.space[b][i] \in Word
  <2>1. d.space \in [Blocks -> [Index -> Word]]
    BY DEF Disks
  <2> QED BY <2>1
<1> DEFINE w == d.space[b][i]
<1>2. Follow(d, b, i) = IF w.kind = "pointer" THEN w.block
                        ELSE IF w.kind = "zero" THEN NULL ELSE WILD
  BY DEF Follow, Index
<1>3. \A e : e.space[b][i] = w => Follow(e, b, i) = Follow(d, b, i)
  BY DEF Follow, Index
<1> HIDE DEF w
<1>4. w.kind = "pointer" => w.block \in Blocks
  BY <1>1 DEF Word, Zero, Pointer, Data, w
<1>5. w = Zero => w.kind = "zero"
  BY DEF Zero
<1>6. \A c : w = Pointer(c) => w.kind = "pointer" /\ w.block = c
  BY DEF Pointer
<1> QED BY <1>2, <1>3, <1>4, <1>5, <1>6 DEF w

-----------------------------------------------------------------------------
(* Trees.                                                                  *)

\* For every file, the block at each place of its tree, or NULL.
Trees == [Files -> [Places -> Blocks \cup {NULL}]]

\* What the disk has in the slot of place p of file f.
Stored(d, t, f, p) ==
    IF Root(p) THEN d.inode[f].location[Slot(p)]
    ELSE IF t[f][Holder(p)] = NULL THEN NULL
    ELSE Follow(d, t[f][Holder(p)], Slot(p))

\* No block is at two places.
Separate(t) == \A f, g \in Files : \A p, q \in Places :
    t[f][p] = t[g][q] /\ t[f][p] # NULL => f = g /\ p = q

\* t is the trees of the files on the disk: their blocks are in use, each at one
\* place, and free blocks are zero.
Sound(d, t) ==
    /\ t \in Trees
    /\ \A f \in Files, p \in Places : t[f][p] # NULL => t[f][p] \in d.index
    /\ \A f \in Files, p \in Places :
          t[f][p] = IF d.inode[f].operation THEN Stored(d, t, f, p) ELSE NULL
    /\ Separate(t)
    /\ \A b \in Blocks \ d.index : d.space[b] = ZeroBlock

\* The first m words of file f are what was written.
Holds(d, t, f, m) == \A j \in 0 .. m - 1 :
    /\ t[f][j \div Words] \in Blocks
    /\ d.space[t[f][j \div Words]][j % Words] = Data(f, j)

\* File f has n data blocks.
Fills(t, f, n) == n <= Capacity /\ \A p \in Places : t[f][p] # NULL <=> p \in Filled(n)

\* The blocks that are in use, but at no place of a file.
Lost(d, t) == {b \in d.index : \A f \in Files, p \in Places : t[f][p] # b}

\* On disk e, block a is at place p of file f, and nothing else has changed in the trees.
Attached(d, t, f, p, a, e) ==
    /\ a \in Blocks /\ a \notin d.index /\ e.index = d.index \cup {a}
    /\ \A g \in Files : e.inode[g].operation = d.inode[g].operation
    /\ \A g \in Files, i \in Slots : e.inode[g].location[i] =
          IF Root(p) /\ g = f /\ i = Slot(p) THEN a ELSE d.inode[g].location[i]
    /\ \A x \in Blocks, i \in Index : e.space[x][i] =
          IF ~Root(p) /\ x = t[f][Holder(p)] /\ i = Slot(p) THEN Pointer(a) ELSE d.space[x][i]

\* A free block put in an empty slot makes the tree larger by one place.
LEMMA AttachLemma ==
    ASSUME NEW d \in Disks, NEW t, Sound(d, t), NEW f \in Files, d.inode[f].operation,
           NEW p \in Places, t[f][p] = NULL, ~Root(p) => t[f][Holder(p)] # NULL,
           NEW a, NEW e \in Disks, Attached(d, t, f, p, a, e)
    PROVE  /\ Sound(e, [t EXCEPT ![f][p] = a])
           /\ \A g \in Files : \A m \in 0 .. max_file_size :
                 Holds(d, t, g, m) => Holds(e, [t EXCEPT ![f][p] = a], g, m)
           /\ Lost(e, [t EXCEPT ![f][p] = a]) \subseteq Lost(d, t)
<1> DEFINE u == [t EXCEPT ![f][p] = a]
<1>1. /\ t \in Trees /\ a \in Blocks /\ a \notin d.index /\ d.index \in SUBSET Blocks
      /\ e.index = d.index \cup {a} /\ a # NULL /\ NULL \notin Blocks
  BY BlocksFinite DEF Sound, Attached, Disks
<1>2. u \in Trees /\ u[f][p] = a
  BY <1>1 DEF Trees
<1>3. ASSUME NEW g \in Files, NEW q \in Places, g # f \/ q # p PROVE u[g][q] = t[g][q]
  BY <1>1, <1>3 DEF Trees
<1> HIDE DEF u
<1>4. \A g \in Files, q \in Places : t[g][q] \in Blocks \cup {NULL}
  BY <1>1 DEF Trees
<1>5. \A g \in Files, q \in Places :
         /\ t[g][q] # NULL => t[g][q] \in d.index /\ t[g][q] # a
         /\ t[g][q] = IF d.inode[g].operation THEN Stored(d, t, g, q) ELSE NULL
  BY <1>1 DEF Sound
<1>6. \A g, h \in Files : \A q, r \in Places :
         t[g][q] = t[h][r] /\ t[g][q] # NULL => g = h /\ q = r
  BY DEF Sound, Separate
<1>7. ASSUME NEW g \in Files, NEW q \in Places PROVE u[g][q] # NULL => u[g][q] \in e.index
  BY <1>1, <1>2, <1>3, <1>5
<1>8. Separate(u)
  <2> SUFFICES ASSUME NEW g \in Files, NEW h \in Files, NEW q \in Places, NEW r \in Places,
                      u[g][q] = u[h][r], u[g][q] # NULL
               PROVE  g = h /\ q = r
    BY DEF Separate
  <2>1. CASE g = f /\ q = p
    <3>1. ASSUME h # f \/ r # p PROVE FALSE
      <4>1. u[h][r] = t[h][r]
        BY <1>3, <3>1
      <4>2. t[h][r] = a
        BY <1>2, <2>1, <4>1
      <4> QED BY <1>1, <1>5, <4>2
    <3> QED BY <2>1, <3>1
  <2>2. CASE h = f /\ r = p
    <3>1. ASSUME g # f \/ q # p PROVE FALSE
      <4>1. u[g][q] = t[g][q]
        BY <1>3, <3>1
      <4>2. t[g][q] = a
        BY <1>2, <2>2, <4>1
      <4> QED BY <1>1, <1>5, <4>2
    <3> QED BY <2>2, <3>1
  <2>3. CASE (g # f \/ q # p) /\ (h # f \/ r # p)
    <3>1. u[g][q] = t[g][q] /\ u[h][r] = t[h][r]
      BY <1>3, <2>3
    <3>2. t[g][q] = t[h][r] /\ t[g][q] # NULL
      BY <3>1, Zenon
    <3>3. \A q2, r2 \in Places : t[g][q2] = t[h][r2] /\ t[g][q2] # NULL => g = h /\ q2 = r2
      BY <1>6, Zenon
    <3> QED BY <3>2, <3>3
  <2> QED BY <2>1, <2>2, <2>3
<1>9. \A b \in Blocks \ e.index : e.space[b] = ZeroBlock
  <2> SUFFICES ASSUME NEW b \in Blocks \ e.index PROVE e.space[b] = ZeroBlock
    OBVIOUS
  <2>1. b \in Blocks \ d.index /\ d.space[b] = ZeroBlock
    BY <1>1 DEF Sound
  <2>2. ~Root(p) => b # t[f][Holder(p)]
    BY <1>5, <2>1, PlaceLemma
  <2>3. \A i \in Index : e.space[b][i] = d.space[b][i]
    BY <2>1, <2>2 DEF Attached
  <2>4. e.space[b] \in [Index -> Word] /\ d.space[b] \in [Index -> Word]
    BY DEF Disks
  <2>5. e.space[b] = d.space[b]
    BY <2>3, <2>4
  <2> QED BY <2>1, <2>5
<1>10. ASSUME NEW g \in Files, NEW q \in Places
       PROVE  u[g][q] = IF e.inode[g].operation THEN Stored(e, u, g, q) ELSE NULL
  <2>1. e.inode[g].operation = d.inode[g].operation
    BY DEF Attached
  <2>2. CASE ~d.inode[g].operation
    <3>1. g # f
      BY <2>2
    <3> QED BY <1>3, <1>5, <2>1, <2>2, <3>1
  <2>3. CASE d.inode[g].operation /\ Root(q)
    <3>1. Slot(q) \in Slots /\ Stored(e, u, g, q) = e.inode[g].location[Slot(q)]
          /\ Stored(d, t, g, q) = d.inode[g].location[Slot(q)]
      BY <2>3, PlaceLemma DEF Stored
    <3>2. CASE g = f /\ q = p
      <4>1. e.inode[g].location[Slot(q)] = a
        BY <2>3, <3>1, <3>2 DEF Attached
      <4> QED BY <1>2, <2>1, <2>3, <3>1, <3>2, <4>1
    <3>3. CASE g # f \/ q # p
      <4>1. ~(Root(p) /\ g = f /\ Slot(q) = Slot(p))
        BY <2>3, <3>3, PlaceLemma
      <4>2. e.inode[g].location[Slot(q)] = d.inode[g].location[Slot(q)]
        BY <3>1, <4>1 DEF Attached
      <4> QED BY <1>3, <1>5, <2>1, <2>3, <3>1, <3>3, <4>2
    <3> QED BY <3>2, <3>3
  <2>4. CASE d.inode[g].operation /\ ~Root(q)
    <3> DEFINE h == Holder(q)
               i == Slot(q)
    <3>1. h \in Places /\ h # q /\ i \in Index
      BY <2>4, PlaceLemma
    <3>2. /\ Stored(e, u, g, q) = IF u[g][h] = NULL THEN NULL ELSE Follow(e, u[g][h], i)
          /\ t[g][q] = IF t[g][h] = NULL THEN NULL ELSE Follow(d, t[g][h], i)
      BY <1>5, <2>4 DEF Stored
    <3>3. \A x \in Blocks : ~(~Root(p) /\ x = t[f][Holder(p)] /\ i = Slot(p))
             => e.space[x][i] = d.space[x][i]
      BY <3>1 DEF Attached
    <3>4. CASE g = f /\ q = p
      <4>1. u[g][h] = t[g][h] /\ t[g][h] # NULL /\ t[g][h] \in Blocks
        BY <1>3, <1>4, <2>4, <3>1, <3>4
      <4>2. e.space[t[g][h]][i] = Pointer(a)
        BY <2>4, <3>1, <3>4, <4>1 DEF Attached
      <4>3. Follow(e, t[g][h], i) = a
        BY <3>1, <4>1, <4>2, FollowLemma
      <4> QED BY <1>2, <2>1, <2>4, <3>2, <3>4, <4>1, <4>3
    <3>5. CASE g = f /\ h = p
      <4>1. t[g][q] = NULL /\ u[g][q] = NULL /\ u[g][h] = a
        BY <1>2, <1>3, <3>1, <3>2, <3>5
      <4>2. ~Root(p) => a # t[f][Holder(p)]
        BY <1>5, PlaceLemma
      <4>3. e.space[a][i] = d.space[a][i] /\ d.space[a] = ZeroBlock
        BY <1>1, <3>1, <4>2 DEF Attached, Sound
      <4>4. e.space[a][i] = Zero
        BY <3>1, <4>3 DEF ZeroBlock, Index
      <4>5. Follow(e, a, i) = NULL
        BY <1>1, <3>1, <4>4, FollowLemma
      <4> QED BY <1>1, <2>1, <2>4, <3>2, <4>1, <4>5
    <3>6. CASE (g # f \/ q # p) /\ (g # f \/ h # p)
      <4>1. u[g][q] = t[g][q] /\ u[g][h] = t[g][h]
        BY <1>3, <3>1, <3>6
      <4>2. ASSUME t[g][h] # NULL PROVE Follow(e, t[g][h], i) = Follow(d, t[g][h], i)
        <5>1. t[g][h] \in Blocks
          BY <1>4, <3>1, <4>2
        <5>2. ~(~Root(p) /\ t[g][h] = t[f][Holder(p)] /\ i = Slot(p))
          <6> SUFFICES ASSUME ~Root(p), t[g][h] = t[f][Holder(p)], i = Slot(p) PROVE FALSE
            OBVIOUS
          <6>1. g = f /\ h = Holder(p)
            BY <1>6, <3>1, <4>2, PlaceLemma
          <6> QED BY <2>4, <3>6, <6>1, PlaceLemma
        <5>3. e.space[t[g][h]][i] = d.space[t[g][h]][i]
          BY <3>3, <5>1, <5>2
        <5> QED BY <3>1, <5>1, <5>3, FollowLemma
      <4> QED BY <2>1, <2>4, <3>2, <4>1, <4>2
    <3> QED BY <3>4, <3>5, <3>6
  <2> QED BY <2>2, <2>3, <2>4
<1>11. Sound(e, u)
  BY <1>2, <1>7, <1>8, <1>9, <1>10 DEF Sound
<1>12. ASSUME NEW g \in Files, NEW m \in 0 .. max_file_size, Holds(d, t, g, m)
       PROVE  Holds(e, u, g, m)
  <2> SUFFICES ASSUME NEW j \in 0 .. m - 1
               PROVE  /\ u[g][j \div Words] \in Blocks
                      /\ e.space[u[g][j \div Words]][j % Words] = Data(g, j)
    BY DEF Holds
  <2> DEFINE k == j \div Words
             i == j % Words
  <2>1. k \in Places /\ k >= 0 /\ i \in Index
    <3>1. j \in Nat /\ j < Capacity * Words
      BY Sizes
    <3>2. k \in Nat /\ i \in Index /\ k * Words <= j
      <4>1. k \in Nat /\ i \in Index /\ j = k * Words + i
        BY <3>1, DivMod
      <4> HIDE DEF k, i
      <4>2. k * Words \in Nat /\ i \in Nat
        BY <4>1, Sizes DEF Index
      <4> QED BY <4>1, <4>2
    <3> HIDE DEF k, i
    <3>3. k * Words < Capacity * Words
      <4>1. k * Words \in Nat /\ Capacity * Words \in Nat
        BY <3>2, Sizes
      <4> QED BY <3>1, <3>2, <4>1
    <3>4. k < Capacity
      BY <3>2, <3>3, Sizes, Multiples
    <3> QED BY <3>2, <3>4, Sizes DEF Places
  <2>2. t[g][k] \in Blocks /\ d.space[t[g][k]][i] = Data(g, j)
    BY <1>12 DEF Holds
  <2> HIDE DEF k, i
  <2>3. u[g][k] = t[g][k]
    BY <1>1, <1>3, <2>1, <2>2
  <2>4. ~(~Root(p) /\ t[g][k] = t[f][Holder(p)] /\ i = Slot(p))
    <3> SUFFICES ASSUME ~Root(p), t[g][k] = t[f][Holder(p)] PROVE FALSE
      OBVIOUS
    <3>1. k = Holder(p)
      BY <1>1, <1>6, <2>1, <2>2, PlaceLemma
    <3> QED BY <2>1, <3>1, PlaceLemma, Sizes DEF Places
  <2>5. e.space[t[g][k]][i] = d.space[t[g][k]][i]
    BY <2>1, <2>2, <2>4 DEF Attached
  <2> QED BY <2>2, <2>3, <2>5 DEF k, i
<1>13. ASSUME NEW b \in Lost(e, u) PROVE b \in Lost(d, t)
  <2>1. b \in e.index /\ \A g \in Files, q \in Places : u[g][q] # b
    BY DEF Lost
  <2>2. b # a /\ b \in d.index /\ b # NULL
    BY <1>1, <1>2, <2>1
  <2>3. ASSUME NEW g \in Files, NEW q \in Places PROVE t[g][q] # b
    <3>1. CASE g = f /\ q = p
      BY <2>2, <3>1
    <3>2. CASE g # f \/ q # p
      BY <1>3, <2>1, <3>2
    <3> QED BY <3>1, <3>2
  <2> QED BY <2>2, <2>3 DEF Lost
<1> QED BY <1>11, <1>12, <1>13 DEF u

-----------------------------------------------------------------------------
(* allocate_block, for a file that grows at its end.                       *)

\* The places that come with data block n.
Added(n) == {p \in Places : \/ p = n
                            \/ n = Direct /\ p = Single
                            \/ n = SingleEnd /\ p = Top
                            \/ /\ n >= SingleEnd /\ (n - SingleEnd) % Words = 0
                               /\ p = Row((n - SingleEnd) \div Words)}

\* The next data block adds its own place, and those of the index blocks it is the
\* first of.
LEMMA FilledLemma ==
    ASSUME NEW n \in 0 .. Capacity - 1
    PROVE  /\ \A p \in Places : p \in Filled(n + 1) <=> p \in Filled(n) \/ p \in Added(n)
           /\ \A p \in Added(n) : p \notin Filled(n)
           /\ n \in Places /\ n \in Added(n)
           /\ n > Direct => Single \in Filled(n)
           /\ n > SingleEnd => Top \in Filled(n)
           /\ n >= SingleEnd /\ (n - SingleEnd) % Words # 0
                => Row((n - SingleEnd) \div Words) \in Filled(n)
<1>1. /\ n \in Nat /\ n \in Places /\ Single \in Places /\ Top \in Places
      /\ \A p \in Places : p \in Int
  BY Sizes DEF Places, Single, Top
<1>2. n \in Added(n)
  BY <1>1 DEF Added
<1>3. n > Direct => Single \in Filled(n)
  BY <1>1 DEF Filled
<1>4. n > SingleEnd => Top \in Filled(n)
  BY <1>1 DEF Filled
<1>5. ASSUME NEW p \in Places, p > -3
      PROVE  /\ p \in Filled(n + 1) <=> p \in Filled(n) \/ p \in Added(n)
             /\ p \in Added(n) => p \notin Filled(n)
  <2>1. CASE p >= 0
    BY <1>1, <2>1, Sizes, RowOf DEF Filled, Added, Single, Top, Row, Index
  <2>2. CASE p = Single
    BY <1>1, <2>2, Sizes, RowOf DEF Filled, Added, Single, Top, Row, Index
  <2>3. CASE p = Top
    BY <1>1, <2>3, Sizes, RowOf DEF Filled, Added, Single, Top, Row, Index
  <2> QED BY <1>1, <1>5, <2>1, <2>2, <2>3 DEF Single, Top
<1>6. ASSUME NEW p \in Places, p <= -3
      PROVE  /\ p \in Filled(n + 1) <=> p \in Filled(n) \/ p \in Added(n)
             /\ p \in Added(n) => p \notin Filled(n)
             /\ n >= SingleEnd /\ (n - SingleEnd) % Words # 0
                    /\ p = Row((n - SingleEnd) \div Words) => p \in Filled(n)
  <2> DEFINE r == -3 - p
             q == (n - SingleEnd) \div Words
             c == (n - SingleEnd) % Words
             R == r * Words
  <2>1. r \in Index /\ p = Row(r)
    BY <1>1, <1>6, Sizes DEF Places, Index, Row
  <2>2. R \in Nat
    <3> HIDE DEF r
    <3> QED BY <2>1, Sizes DEF Index
  <2>3. /\ \A k \in Nat : p \in Filled(k) <=> k > SingleEnd + R
        /\ p \in Added(n) <=> n >= SingleEnd /\ c = 0 /\ p = Row(q)
    <3>1. \A k \in Nat : p \in Filled(k) <=> k > SingleEnd + R
      <4>1. \A k \in Nat : p \in Filled(k) <=> k > SingleEnd + (-3 - p) * Words
        <5> DEFINE S == (-3 - p) * Words
        <5>1. p \in Int /\ p # Single /\ p # Top /\ ~(p >= 0)
          BY <1>1, <1>6 DEF Single, Top
        <5>2. \A k \in Nat : p \in Filled(k) <=> k > SingleEnd + S
          <6> HIDE DEF S
          <6> QED BY <1>6, <5>1, Zenon DEF Filled, S
        <5> QED BY <5>2
      <4> QED BY <4>1, Zenon
    <3>2. p \in Added(n) <=> n >= SingleEnd /\ c = 0 /\ p = Row(q)
      <4> HIDE DEF c, q
      <4> QED BY <1>1, <1>6 DEF Added, Single, Top, c, q
    <3> QED BY <3>1, <3>2
  <2> HIDE DEF R
  <2>4. CASE n < SingleEnd
    BY <1>1, <2>2, <2>3, <2>4, Sizes
  <2>5. CASE n >= SingleEnd
    <3>1. q \in Index /\ c \in Index /\ n = SingleEnd + q * Words + c
      BY <2>5, RowOf
    <3> HIDE DEF q, c, r
    <3>2. p = Row(q) <=> q = r
      BY <2>1, <3>1, Sizes DEF Row, Index
    <3>3. n + 1 > SingleEnd + R /\ ~(n > SingleEnd + R) <=> q = r /\ c = 0
      <4>1. n - SingleEnd = q * Words + c /\ n - SingleEnd \in Nat /\ q * Words \in Nat
        BY <1>1, <2>5, <3>1, Sizes DEF Index
      <4>2. PICK k \in Nat : k = n - SingleEnd
        BY <4>1
      <4>3. k = R <=> q = r /\ c = 0
        <5>1. q = r /\ c = 0 => k = R
          BY <3>1, <4>1, <4>2, Sizes DEF R, Index
        <5>2. k = R => q = r /\ c = 0
          <6>1. k = R => k = r * Words + 0
            BY <2>2 DEF R
          <6>2. 0 \in Index /\ q \in Nat /\ r \in Nat
            BY <2>1, <3>1, Sizes DEF Index
          <6>3. k = q * Words + c
            BY <4>1, <4>2
          <6> QED BY <2>1, <3>1, <6>1, <6>2, <6>3, DivMod
        <5> QED BY <5>1, <5>2
      <4>4. n + 1 > SingleEnd + R /\ ~(n > SingleEnd + R) <=> k = R
        BY <1>1, <2>2, <2>5, <4>2, Sizes
      <4> QED BY <4>3, <4>4
    <3>4. c # 0 /\ q = r => n > SingleEnd + R
      <4>1. q * Words \in Nat /\ c \in Nat
        BY <3>1, Sizes DEF Index
      <4> QED BY <1>1, <3>1, <4>1, Sizes DEF R
    <3>5. n > SingleEnd + R => n + 1 > SingleEnd + R
      BY <1>1, <2>2, Sizes
    <3>6. n \in Nat /\ n + 1 \in Nat
      BY <1>1
    <3> QED BY <2>3, <2>5, <3>2, <3>3, <3>4, <3>5, <3>6 DEF q, c
  <2> QED BY <1>1, <2>4, <2>5, Sizes
<1>7. ASSUME NEW p \in Places
      PROVE  /\ p \in Filled(n + 1) <=> p \in Filled(n) \/ p \in Added(n)
             /\ p \in Added(n) => p \notin Filled(n)
  BY <1>1, <1>5, <1>6
<1>8. ASSUME n >= SingleEnd, (n - SingleEnd) % Words # 0
      PROVE  Row((n - SingleEnd) \div Words) \in Filled(n)
  <2> DEFINE q == (n - SingleEnd) \div Words
  <2>1. q \in Index
    BY <1>8, RowOf
  <2>2. Row(q) \in Places /\ Row(q) <= -3
    <3> HIDE DEF q
    <3> QED BY <2>1, Sizes DEF Row, Places, Index
  <2> QED BY <1>6, <1>8, <2>2
<1>9. \A p \in Added(n) : p \in Places
  BY DEF Added
<1> QED BY <1>1, <1>2, <1>3, <1>4, <1>7, <1>8, <1>9

\* From d and t to e and u the tree of f may have grown; nothing else has changed,
\* and no block is lost.
Extends(d, t, e, u, f) ==
    /\ \A g \in Files : g # f => e.inode[g] = d.inode[g] /\ u[g] = t[g]
    /\ e.inode[f].size = d.inode[f].size /\ e.inode[f].operation = d.inode[f].operation
    /\ \A g \in Files : \A m \in 0 .. max_file_size : Holds(d, t, g, m) => Holds(e, u, g, m)
    /\ Lost(e, u) \subseteq Lost(d, t)

\* What two steps of a call keep, both keep.
LEMMA ExtendsTransitive ==
    ASSUME NEW c, NEW s, NEW d, NEW t, NEW e, NEW u, NEW f \in Files,
           Extends(c, s, d, t, f), Extends(d, t, e, u, f)
    PROVE  Extends(c, s, e, u, f)
BY DEF Extends

\* d is like c, but for block a, which is taken.
Took(c, d, a) ==
    /\ c \in Disks /\ a \in Blocks /\ a \notin c.index
    /\ d \in Disks /\ d.index = c.index \cup {a} /\ d.inode = c.inode /\ d.space = c.space

\* From d and t to e and u, block a has come to place p of file f.
Grow(d, t, f, p, a, e, u) ==
    /\ Sound(e, u) /\ Extends(d, t, e, u, f)
    /\ e.inode[f].operation /\ e.inode[f].block_number = d.inode[f].block_number
    /\ u[f][p] = a /\ \A q \in Places : q # p => u[f][q] = t[f][q]

\* A block taken for a pointer of the inode.
LEMMA GrowRoot ==
    ASSUME NEW c, NEW d, NEW a, Took(c, d, a), NEW t, Sound(c, t),
           NEW f \in Files, c.inode[f].operation,
           NEW p \in Places, Root(p), t[f][p] = NULL, NEW i, i = Slot(p)
    PROVE  \E u : Grow(c, t, f, p, a, Located(d, f, i, a), u)
<1> DEFINE e == Located(d, f, i, a)
           u == [t EXCEPT ![f][p] = a]
<1>1. /\ c \in Disks /\ d \in Disks /\ a \in Blocks /\ a \notin c.index /\ i \in Slots
      /\ d.index = c.index \cup {a} /\ d.inode = c.inode /\ d.space = c.space
  BY PlaceLemma DEF Took
<1>2. /\ e \in Disks /\ e.index = c.index \cup {a} /\ e.space = c.space
      /\ \A g \in Files : g # f => e.inode[g] = c.inode[g]
      /\ e.inode[f].size = c.inode[f].size /\ e.inode[f].operation = c.inode[f].operation
      /\ e.inode[f].block_number = c.inode[f].block_number
      /\ \A j \in Slots : e.inode[f].location[j] = IF j = i THEN a ELSE c.inode[f].location[j]
  <2>1. /\ e \in Disks /\ e.index = d.index /\ e.space = d.space
        /\ \A g \in Files : g # f => e.inode[g] = d.inode[g]
    BY <1>1, LocatedLemma
  <2>2. /\ e.inode[f].size = d.inode[f].size /\ e.inode[f].operation = d.inode[f].operation
        /\ e.inode[f].block_number = d.inode[f].block_number
        /\ \A j \in Slots : e.inode[f].location[j] = IF j = i THEN a ELSE d.inode[f].location[j]
    BY <1>1, LocatedLemma
  <2> HIDE DEF e
  <2> QED BY <1>1, <2>1, <2>2
<1> HIDE DEF e
<1>5. Attached(c, t, f, p, a, e)
  <2>1. \A g \in Files : e.inode[g].operation = c.inode[g].operation
    BY <1>2
  <2>2. \A g \in Files, j \in Slots : e.inode[g].location[j] =
            IF Root(p) /\ g = f /\ j = Slot(p) THEN a ELSE c.inode[g].location[j]
    BY <1>2
  <2> QED BY <1>1, <1>2, <2>1, <2>2 DEF Attached
<1>6. /\ Sound(e, u)
      /\ \A g \in Files : \A m \in 0 .. max_file_size : Holds(c, t, g, m) => Holds(e, u, g, m)
      /\ Lost(e, u) \subseteq Lost(c, t)
  BY <1>1, <1>2, <1>5, AttachLemma
<1>7. \A g \in Files : g # f => u[g] = t[g]
  BY DEF Sound, Trees
<1>8. Extends(c, t, e, u, f)
  BY <1>2, <1>6, <1>7 DEF Extends
<1>9. u[f][p] = a /\ \A q \in Places : q # p => u[f][q] = t[f][q]
  BY DEF Sound, Trees
<1>10. e.inode[f].operation
  BY <1>2, Zenon
<1> HIDE DEF u
<1>11. Grow(c, t, f, p, a, e, u)
  BY <1>2, <1>6, <1>8, <1>9, <1>10, Zenon DEF Grow
<1> QED BY <1>11, Zenon DEF e

\* A block taken for a word of an index block.
LEMMA GrowUnder ==
    ASSUME NEW c, NEW d, NEW a, Took(c, d, a), NEW t, Sound(c, t),
           NEW f \in Files, c.inode[f].operation,
           NEW p \in Places, ~Root(p), t[f][p] = NULL,
           NEW b, b = t[f][Holder(p)], b # NULL, NEW i, i = Slot(p)
    PROVE  \E u : Grow(c, t, f, p, a, Enter(d, b, i, a), u)
<1> DEFINE e == Enter(d, b, i, a)
           u == [t EXCEPT ![f][p] = a]
<1>1. /\ c \in Disks /\ d \in Disks /\ a \in Blocks /\ a \notin c.index /\ i \in Index
      /\ d.index = c.index \cup {a} /\ d.inode = c.inode /\ d.space = c.space
  BY PlaceLemma DEF Took
<1>2. b \in Blocks
  BY PlaceLemma DEF Sound, Trees
<1>3. /\ e \in Disks /\ e.inode = d.inode /\ e.index = d.index /\ e.fault = d.fault
      /\ e.space[b] = [d.space[b] EXCEPT ![i] = Pointer(a)]
      /\ \A x \in Blocks : x # b => e.space[x] = d.space[x]
  <2>1. e \in Disks /\ e.inode = d.inode /\ e.index = d.index
    BY <1>1, EnterKeeps
  <2>2. b \in Blocks /\ a \in Blocks /\ i \in Index
    BY <1>1, <1>2
  <2>3. /\ e.fault = d.fault
        /\ e.space[b] = [d.space[b] EXCEPT ![i] = Pointer(a)]
        /\ \A x \in Blocks : x # b => e.space[x] = d.space[x]
    BY <1>1, <2>2, EnterLemma
  <2> QED BY <2>1, <2>3, Zenon
<1> HIDE DEF e
<1>4. \A x \in Blocks, j \in Index : e.space[x][j] =
          IF x = b /\ j = i THEN Pointer(a) ELSE c.space[x][j]
  <2>1. c.space[b] \in [Index -> Word]
    BY <1>1, <1>2 DEF Disks
  <2> QED BY <1>1, <1>2, <1>3, <2>1
<1>5. Attached(c, t, f, p, a, e)
  <2>1. \A x \in Blocks, j \in Index : e.space[x][j] =
            IF ~Root(p) /\ x = t[f][Holder(p)] /\ j = Slot(p) THEN Pointer(a) ELSE c.space[x][j]
    BY <1>4
  <2>2. \A g \in Files, j \in Slots : e.inode[g].location[j] =
            IF Root(p) /\ g = f /\ j = Slot(p) THEN a ELSE c.inode[g].location[j]
    BY <1>1, <1>3
  <2>3. e.inode = c.inode /\ e.index = c.index \cup {a}
    BY <1>1, <1>3
  <2> QED BY <1>1, <2>1, <2>2, <2>3 DEF Attached
<1>6. /\ Sound(e, u)
      /\ \A g \in Files : \A m \in 0 .. max_file_size : Holds(c, t, g, m) => Holds(e, u, g, m)
      /\ Lost(e, u) \subseteq Lost(c, t)
  BY <1>1, <1>3, <1>5, AttachLemma
<1>7. \A g \in Files : g # f => u[g] = t[g]
  BY DEF Sound, Trees
<1>8. Extends(c, t, e, u, f)
  BY <1>1, <1>3, <1>6, <1>7 DEF Extends
<1>9. e.inode[f].block_number = c.inode[f].block_number
  BY <1>1, <1>3
<1>10. u[f][p] = a /\ \A q \in Places : q # p => u[f][q] = t[f][q]
  BY DEF Sound, Trees
<1>11. e.inode[f].operation
  BY <1>1, <1>3
<1> HIDE DEF u
<1>12. Grow(c, t, f, p, a, e, u)
  BY <1>6, <1>8, <1>9, <1>10, <1>11, Zenon DEF Grow
<1> QED BY <1>12, Zenon DEF e

\* With a block taken, the disk is sane, and one block is free no more.
LEMMA TookLemma ==
    ASSUME NEW d, Sane(d), d.freeBlock_number >= 1
    PROVE  /\ Took(d, Taken(d), NewBlock(d)) /\ Sane(Taken(d)) /\ Taken(d).fault = d.fault
           /\ Taken(d).freeBlock_number = d.freeBlock_number - 1 /\ d.freeBlock_number \in Nat
<1>1. d.freeBlock_number \in Nat
  <2>1. d.freeBlock_number \in 0 .. Largest
    BY CounterLemma
  <2> QED BY <2>1
<1> QED BY <1>1, TakenLemma DEF Took, Sane

\* What is entered first leaves the next block to be taken.
LEMMA TookLocated ==
    ASSUME NEW c, NEW d, NEW a, Took(c, d, a), NEW f \in Files, NEW i \in Slots, NEW b \in Blocks
    PROVE  /\ Took(Located(c, f, i, b), Located(d, f, i, b), a)
           /\ Sane(d) /\ d.fault = "" =>
                 Sane(Located(d, f, i, b)) /\ Located(d, f, i, b).fault = ""
<1>1. c \in Disks /\ d \in Disks /\ c.inode = d.inode
  BY DEF Took
<1> DEFINE x == Located(c, f, i, b)
           y == Located(d, f, i, b)
<1>2. x \in Disks /\ x.index = c.index /\ x.space = c.space
  BY <1>1, LocatedLemma
<1>3. /\ y \in Disks /\ y.index = d.index /\ y.space = d.space /\ y.fault = d.fault
      /\ y.freeBlock_number = d.freeBlock_number
  BY <1>1, LocatedLemma
<1>4. x.inode = y.inode
  BY <1>1, SetLemma
<1> HIDE DEF x, y
<1>5. Took(x, y, a)
  BY <1>2, <1>3, <1>4 DEF Took
<1>6. Sane(d) => Sane(y)
  BY <1>3 DEF Sane
<1> QED BY <1>3, <1>5, <1>6 DEF x, y

\* Setting a word of an index block takes nothing.
LEMMA TookEntered ==
    ASSUME NEW c, NEW d, NEW a, Took(c, d, a),
           NEW b \in Blocks, NEW i \in Index, NEW p \in Blocks
    PROVE  /\ Took(Enter(c, b, i, p), Enter(d, b, i, p), a)
           /\ Sane(d) /\ d.fault = "" => Sane(Enter(d, b, i, p)) /\ Enter(d, b, i, p).fault = ""
<1>1. c \in Disks /\ d \in Disks /\ c.space = d.space /\ c.inode = d.inode
  BY DEF Took
<1> DEFINE x == Enter(c, b, i, p)
           y == Enter(d, b, i, p)
<1>2. x \in Disks /\ x.index = c.index /\ x.inode = c.inode
  BY <1>1, EnterKeeps
<1>3. /\ y \in Disks /\ y.index = d.index /\ y.inode = d.inode
      /\ y.freeBlock_number = d.freeBlock_number
  BY <1>1, EnterKeeps
<1>4. x.space = y.space
  BY <1>1, SetLemma
<1>5. y.fault = d.fault
  <2>1. d \in Disks
    BY <1>1
  <2> QED BY <2>1, EnterInside
<1> HIDE DEF x, y
<1>6. Took(x, y, a)
  BY <1>1, <1>2, <1>3, <1>4 DEF Took
<1>7. Sane(d) => Sane(y)
  BY <1>3 DEF Sane
<1> QED BY <1>5, <1>6, <1>7 DEF x, y

\* The trees depend on the map, the blocks, and the pointers of the inodes.
LEMMA SameTrees ==
    ASSUME NEW d, NEW t, Sound(d, t), NEW e, e.index = d.index, e.space = d.space,
           \A g \in Files : /\ e.inode[g].operation = d.inode[g].operation
                            /\ e.inode[g].location = d.inode[g].location
    PROVE  Sound(e, t) /\ \A g \in Files : \A m : Holds(d, t, g, m) => Holds(e, t, g, m)
<1>1. \A b, i : Follow(e, b, i) = Follow(d, b, i)
  BY DEF Follow
<1>2. \A g \in Files, p \in Places : Stored(e, t, g, p) = Stored(d, t, g, p)
  BY <1>1 DEF Stored
<1>3. \A g \in Files, p \in Places :
         t[g][p] = IF e.inode[g].operation THEN Stored(e, t, g, p) ELSE NULL
  BY <1>2 DEF Sound
<1>4. Sound(e, t)
  BY <1>3, Zenon DEF Sound
<1>5. \A g \in Files : \A m : Holds(d, t, g, m) => Holds(e, t, g, m)
  BY DEF Holds
<1> QED BY <1>4, <1>5

\* Where the pointers to the places of f are.
LEMMA RootsOf ==
    ASSUME NEW d, NEW t, Sound(d, t), NEW f \in Files, d.inode[f].operation
    PROVE  /\ d.inode[f].location[Direct] = t[f][Single]
           /\ d.inode[f].location[Direct + 1] = t[f][Top]
           /\ \A n \in 0 .. Direct - 1 : d.inode[f].location[n] = t[f][n]
<1>1. \A p \in Places : t[f][p] = Stored(d, t, f, p)
  BY DEF Sound
<1>2. Single \in Places /\ Root(Single) /\ Slot(Single) = Direct
  BY Sizes DEF Places, Single, Root, Slot, Top
<1>3. Top \in Places /\ Root(Top) /\ Slot(Top) = Direct + 1
  BY Sizes DEF Places, Single, Root, Slot, Top
<1>4. ASSUME NEW n \in 0 .. Direct - 1 PROVE d.inode[f].location[n] = t[f][n]
  <2>1. n \in Places /\ Root(n) /\ Slot(n) = n
    BY Sizes DEF Places, Single, Root, Slot, Top
  <2> QED BY <1>1, <2>1 DEF Stored
<1>5. d.inode[f].location[Direct] = t[f][Single] /\ d.inode[f].location[Direct + 1] = t[f][Top]
  BY <1>1, <1>2, <1>3 DEF Stored
<1> QED BY <1>4, <1>5

\* The block of single-indirect pointers leads to its data blocks.
LEMMA UnderSingleOf ==
    ASSUME NEW d, NEW t, Sound(d, t), NEW f \in Files, d.inode[f].operation, t[f][Single] # NULL,
           NEW n \in Direct .. SingleEnd - 1
    PROVE  Follow(d, t[f][Single], n - Direct) = t[f][n]
<1>1. n \in Places /\ ~Root(n) /\ Slot(n) = n - Direct /\ Holder(n) = Single
  BY Sizes DEF Places, Single, Root, Slot, Top, Holder
<1> QED BY <1>1 DEF Sound, Stored

\* The block of double-indirect pointers leads to the rows.
LEMMA UnderTopOf ==
    ASSUME NEW d, NEW t, Sound(d, t), NEW f \in Files, d.inode[f].operation, t[f][Top] # NULL,
           NEW r \in Index
    PROVE  Follow(d, t[f][Top], r) = t[f][Row(r)]
<1>1. Row(r) \in Places /\ ~Root(Row(r)) /\ Slot(Row(r)) = r /\ Holder(Row(r)) = Top
  BY Sizes DEF Places, Single, Root, Slot, Top, Holder, Row, Index
<1> QED BY <1>1 DEF Sound, Stored

\* A row leads to its data blocks.
LEMMA UnderRowOf ==
    ASSUME NEW d, NEW t, Sound(d, t), NEW f \in Files, d.inode[f].operation,
           NEW n \in SingleEnd .. Capacity - 1, t[f][Row((n - SingleEnd) \div Words)] # NULL
    PROVE  Follow(d, t[f][Row((n - SingleEnd) \div Words)], (n - SingleEnd) % Words) = t[f][n]
<1>1. /\ n \in Places /\ ~Root(n) /\ Slot(n) = (n - SingleEnd) % Words
      /\ Holder(n) = Row((n - SingleEnd) \div Words)
  BY Sizes DEF Places, Single, Root, Slot, Top, Holder
<1> QED BY <1>1, Zenon DEF Sound, Stored

\* On the disk, file f is well-formed and its last block has number n - 1.
Grown(d, t, f, n) ==
    /\ Sane(d) /\ d.fault = "" /\ Sound(d, t)
    /\ d.inode[f].operation /\ d.inode[f].block_number + 1 = n /\ Fills(t, f, n)

\* The step to data block n begins: the block has got its number.
Growing(e, t, f, n) ==
    /\ Sane(e) /\ e.fault = "" /\ Sound(e, t) /\ e.freeBlock_number >= 1
    /\ e.inode[f].operation /\ e.inode[f].block_number = n /\ Fills(t, f, n)

\* It ends well: the file has block n too.
Grew(e, t, f, n, r) == \E u :
    /\ Grown(r.disk, u, f, n + 1) /\ Extends(e, t, r.disk, u, f) /\ r.block = u[f][n]

\* It ends at an edge: behind the largest file, or where a row needs a block
\* that was not counted.
Fell(e, f, n, r) ==
    /\ r.disk \in Disks /\ r.disk.fault # "" /\ r.disk.inode = e.inode /\ r.block # NULL
    /\ \/ n = Capacity
       \/ n > SingleEnd /\ (n - SingleEnd) % Words = 0 /\ r.disk.freeBlock_number = Largest

\* A place that comes with block n is put in the tree.
LEMMA FillLemma ==
    ASSUME NEW n \in 0 .. Capacity - 1, NEW t, NEW u, NEW f, Fills(t, f, n),
           \A p \in Places : u[f][p] # NULL <=> t[f][p] # NULL \/ p \in Added(n)
    PROVE  Fills(u, f, n + 1)
BY FilledLemma, Sizes DEF Fills

\* The block for the content alone.
LEMMA LastStep ==
    ASSUME NEW c, NEW s, NEW d, NEW t, NEW f \in Files, NEW n \in 0 .. Capacity - 1,
           NEW a, NEW r, Sane(r.disk), r.disk.fault = "", Sound(r.disk, t),
           Extends(c, s, r.disk, t, f), r.disk.inode[f].block_number = n, Growing(c, s, f, n),
           \A p \in Places : t[f][p] # NULL <=> s[f][p] # NULL \/ p \in Added(n),
           r.block = t[f][n]
    PROVE  Grew(c, s, f, n, r)
<1>1. Fills(t, f, n + 1)
  BY FillLemma DEF Growing
<1>2. r.disk.inode[f].operation
  BY Zenon DEF Extends, Growing
<1>3. Grown(r.disk, t, f, n + 1)
  BY <1>1, <1>2 DEF Grown
<1> QED BY <1>3, Zenon DEF Grew

\* A block among the single-indirect ones, the first with the index block.
LEMMA SingleGrows ==
    ASSUME NEW e, NEW t, NEW f \in Files, NEW n \in Direct .. SingleEnd - 1, Growing(e, t, f, n),
           n = Direct => e.freeBlock_number >= 2
    PROVE  Grew(e, t, f, n, UnderSingle(e, f, n))
<1> DEFINE r == UnderSingle(e, f, n)
           a == NewBlock(e)
           d1 == Taken(e)
<1>1. /\ Sane(e) /\ e.fault = "" /\ Sound(e, t) /\ e.freeBlock_number >= 1
      /\ e.inode[f].operation /\ e.inode[f].block_number = n /\ Fills(t, f, n)
  BY DEF Growing
<1>2. /\ Took(e, d1, a) /\ Sane(d1) /\ d1.fault = "" /\ e.freeBlock_number \in Nat
      /\ d1.freeBlock_number = e.freeBlock_number - 1
  BY <1>1, TookLemma
<1>3. a \in Blocks /\ a # NULL
  BY <1>2, BlocksFinite DEF Took
<1>4. /\ n \in 0 .. Capacity - 1 /\ n \in Places /\ ~Root(n) /\ Holder(n) = Single
      /\ Slot(n) = n - Direct /\ Single \in Places /\ Root(Single) /\ Slot(Single) = Direct
      /\ Direct \in Slots /\ 0 \in Index /\ n # Single
  BY Sizes DEF Places, Single, Root, Slot, Slots, Top, Holder, Index
<1>5. e.inode[f].location[Direct] = t[f][Single]
  <2>1. Sound(e, t) /\ e.inode[f].operation
    BY <1>1
  <2> QED BY <2>1, RootsOf
<1>6. t[f][n] = NULL /\ (t[f][Single] = NULL <=> n = Direct)
  <2>1. n \notin Filled(n) /\ (Single \in Filled(n) <=> n # Direct)
    BY <1>4, FilledLemma, Sizes DEF Filled, Single
  <2> QED BY <1>1, <1>4, <2>1 DEF Fills
<1>7. CASE n = Direct
  <2> DEFINE b == NewBlock(d1)
             d2 == Taken(d1)
             x == Located(d1, f, Direct, a)
             y == Located(d2, f, Direct, a)
             z == Enter(y, a, 0, b)
  <2>1. r = [disk |-> z, block |-> b]
    BY <1>5, <1>6, <1>7 DEF UnderSingle, Located
  <2> HIDE DEF r, a, d1
  <2>2. d1.freeBlock_number >= 1
    <3>1. e.freeBlock_number >= 2
      BY <1>7
    <3>2. d1.freeBlock_number = e.freeBlock_number - 1 /\ e.freeBlock_number \in Nat
      BY <1>2
    <3> QED BY <3>1, <3>2
  <2>3. Took(d1, d2, b) /\ Sane(d2) /\ d2.fault = ""
    BY <1>2, <2>2, TookLemma
  <2>4. b \in Blocks /\ b # NULL
    BY <2>3, BlocksFinite DEF Took
  <2> HIDE DEF b, d2
  <2>5. PICK s : Grow(e, t, f, Single, a, x, s)
    BY <1>1, <1>2, <1>4, <1>6, <1>7, GrowRoot
  <2>6. Took(x, y, b) /\ Sane(y) /\ y.fault = ""
    <3>1. Direct \in Slots /\ a \in Blocks
      BY <1>3, <1>4
    <3> QED BY <2>3, <3>1, TookLocated
  <2> HIDE DEF x, y
  <2>7. /\ s[f][Single] = a /\ Sound(x, s) /\ Extends(e, t, x, s, f) /\ x.inode[f].operation
        /\ s[f][n] = NULL /\ \A q \in Places : q # Single => s[f][q] = t[f][q]
        /\ x.inode[f].block_number = n
    BY <1>1, <1>4, <1>6, <2>5 DEF Grow
  <2>8. PICK u : Grow(x, s, f, n, b, z, u)
    <3>1. Slot(n) = 0
      BY <1>4, <1>7, Sizes
    <3> QED BY <1>3, <1>4, <2>6, <2>7, <3>1, GrowUnder
  <2>9. Sane(z) /\ z.fault = ""
    <3>1. a \in Blocks /\ 0 \in Index /\ b \in Blocks
      BY <1>3, <1>4, <2>4
    <3> QED BY <2>6, <3>1, TookEntered
  <2> HIDE DEF z
  <2>10. /\ Sound(z, u) /\ Extends(x, s, z, u, f) /\ z.inode[f].block_number = n
         /\ u[f][n] = b /\ \A q \in Places : q # n => u[f][q] = s[f][q]
    BY <2>7, <2>8 DEF Grow
  <2>11. Extends(e, t, z, u, f)
    BY <2>7, <2>10, ExtendsTransitive
  <2>12. \A p \in Places : p \in Added(n) <=> p = n \/ p = Single
    BY <1>7, Sizes DEF Added
  <2>13. \A p \in Places : u[f][p] # NULL <=> t[f][p] # NULL \/ p \in Added(n)
    BY <1>3, <1>6, <2>4, <2>7, <2>10, <2>12
  <2> QED BY <1>4, <2>1, <2>9, <2>10, <2>11, <2>13, LastStep, ZenonT(40) DEF r
<1>8. CASE n # Direct
  <2> DEFINE b == t[f][Single]
             i == n - Direct
             z == Enter(d1, b, i, a)
  <2>1. r = [disk |-> z, block |-> a]
    BY <1>5, <1>6, <1>8 DEF UnderSingle, SlotOf
  <2>2. b = t[f][Holder(n)] /\ b # NULL /\ i = Slot(n)
    BY <1>4, <1>6, <1>8
  <2>3. b \in Blocks /\ i \in Index
    <3>1. t \in Trees /\ Single \in Places /\ b # NULL
      BY <1>1, <1>4, <2>2 DEF Sound
    <3>2. b \in Blocks
      BY <3>1 DEF Trees
    <3> QED BY <1>4, <2>2, <3>2, PlaceLemma
  <2> HIDE DEF r, a, d1, b, i
  <2>4. PICK u : Grow(e, t, f, n, a, z, u)
    BY <1>1, <1>2, <1>4, <1>6, <2>2, GrowUnder
  <2>5. Sane(z) /\ z.fault = ""
    <3>1. Took(e, d1, a) /\ Sane(d1) /\ d1.fault = "" /\ a \in Blocks
      BY <1>2, <1>3
    <3> QED BY <2>3, <3>1, TookEntered
  <2> HIDE DEF z
  <2>6. /\ Sound(z, u) /\ Extends(e, t, z, u, f) /\ z.inode[f].block_number = n
        /\ u[f][n] = a /\ \A q \in Places : q # n => u[f][q] = t[f][q]
    BY <1>1, <2>4 DEF Grow
  <2>7. \A p \in Places : p \in Added(n) <=> p = n
    BY <1>8, Sizes DEF Added
  <2>8. \A p \in Places : u[f][p] # NULL <=> t[f][p] # NULL \/ p \in Added(n)
    BY <1>3, <1>6, <2>6, <2>7
  <2> QED BY <1>4, <2>1, <2>5, <2>6, <2>8, LastStep, ZenonT(40) DEF r
<1> QED BY <1>7, <1>8

\* The first block behind the single-indirect ones comes with its index blocks.
LEMMA DoubleFirst ==
    ASSUME NEW e, NEW t, NEW f \in Files, NEW n, n = SingleEnd, Growing(e, t, f, n),
           e.freeBlock_number >= 3
    PROVE  Grew(e, t, f, n, UnderDouble(e, f, n))
<1> DEFINE r == UnderDouble(e, f, n)
           a == NewBlock(e)
           d1 == Taken(e)
           b == NewBlock(d1)
           d2 == Taken(d1)
           c == NewBlock(d2)
           d3 == Taken(d2)
           l1 == Located(d1, f, Direct + 1, a)
           l2 == Located(d2, f, Direct + 1, a)
           l3 == Located(d3, f, Direct + 1, a)
           m2 == Enter(l2, a, 0, b)
           m3 == Enter(l3, a, 0, b)
           z == Enter(m3, b, 0, c)
<1>1. /\ Sane(e) /\ e.fault = "" /\ Sound(e, t) /\ e.freeBlock_number >= 1
      /\ e.inode[f].operation /\ e.inode[f].block_number = n /\ Fills(t, f, n)
  BY DEF Growing
<1>2. /\ n \in 0 .. Capacity - 1 /\ n \in Places /\ ~Root(n) /\ Holder(n) = Row(0)
      /\ Slot(n) = 0 /\ Top \in Places /\ Root(Top) /\ Slot(Top) = Direct + 1
      /\ Row(0) \in Places /\ ~Root(Row(0)) /\ Holder(Row(0)) = Top /\ Slot(Row(0)) = 0
      /\ Direct + 1 \in Slots /\ 0 \in Index /\ n # Row(0) /\ n # Top /\ Row(0) # Top
  <2>1. (n - SingleEnd) \div Words = 0 /\ (n - SingleEnd) % Words = 0
    BY Sizes
  <2>2. n \in 0 .. Capacity - 1 /\ n \in Places /\ n >= SingleEnd /\ n > 0
    BY Sizes DEF Places
  <2>3. Holder(n) = Row(0) /\ Slot(n) = 0
    BY <2>1, <2>2, Sizes DEF Holder, Slot, Top, Single
  <2>4. Row(0) = -3
    BY DEF Row
  <2> QED BY <2>2, <2>3, <2>4, Sizes DEF Places, Root, Single, Top, Holder, Slot, Slots, Index
<1>3. e.inode[f].location[Direct + 1] = t[f][Top]
  <2>1. Sound(e, t) /\ e.inode[f].operation
    BY <1>1
  <2> QED BY <2>1, RootsOf
<1>4. \A p \in Places : p \in Added(n) <=> p \in {n, Top, Row(0)}
  <2>1. (n - SingleEnd) \div Words = 0 /\ (n - SingleEnd) % Words = 0
    BY Sizes
  <2> QED BY <2>1, Sizes DEF Added
<1>5. t[f][n] = NULL /\ t[f][Top] = NULL /\ t[f][Row(0)] = NULL
  <2>1. \A p \in Added(n) : p \notin Filled(n)
    BY <1>2, FilledLemma
  <2>2. \A p \in {n, Top, Row(0)} : p \in Places /\ p \in Added(n)
    BY <1>2, <1>4
  <2>3. \A p \in {n, Top, Row(0)} : p \in Places /\ p \notin Filled(n)
    BY <2>1, <2>2
  <2> QED BY <1>1, <2>3 DEF Fills
<1>6. r = [disk |-> z, block |-> c]
  <2>1. e.inode[f].location[Direct + 1] = NULL
    BY <1>3, <1>5
  <2> QED BY <2>1 DEF UnderDouble, Located
<1> HIDE DEF r
<1>7. /\ Took(e, d1, a) /\ Sane(d1) /\ d1.fault = "" /\ e.freeBlock_number \in Nat
      /\ d1.freeBlock_number = e.freeBlock_number - 1
  BY <1>1, TookLemma
<1> HIDE DEF a, d1
<1>8. /\ Took(d1, d2, b) /\ Sane(d2) /\ d2.fault = "" /\ d1.freeBlock_number \in Nat
      /\ d2.freeBlock_number = d1.freeBlock_number - 1
  <2>1. /\ d1.freeBlock_number = e.freeBlock_number - 1 /\ e.freeBlock_number \in Nat
        /\ e.freeBlock_number >= 3
    BY <1>7
  <2>2. d1.freeBlock_number >= 1
    BY <2>1
  <2> QED BY <1>7, <2>2, TookLemma
<1> HIDE DEF b, d2
<1>9. Took(d2, d3, c) /\ Sane(d3) /\ d3.fault = ""
  <2>1. /\ d1.freeBlock_number = e.freeBlock_number - 1 /\ e.freeBlock_number \in Nat
        /\ e.freeBlock_number >= 3 /\ d2.freeBlock_number = d1.freeBlock_number - 1
    BY <1>7, <1>8
  <2>2. d2.freeBlock_number >= 1
    BY <2>1
  <2> QED BY <1>8, <2>2, TookLemma
<1> HIDE DEF c, d3
<1>10. a \in Blocks /\ b \in Blocks /\ c \in Blocks /\ a # NULL /\ b # NULL /\ c # NULL
  BY <1>7, <1>8, <1>9, BlocksFinite DEF Took
<1>11. PICK s1 : Grow(e, t, f, Top, a, l1, s1)
  <2>1. Direct + 1 = Slot(Top)
    BY <1>2
  <2> QED BY <1>1, <1>2, <1>5, <1>7, <2>1, GrowRoot
<1>12. Took(l1, l2, b) /\ Took(l2, l3, c) /\ Sane(l3) /\ l3.fault = ""
  <2>1. Direct + 1 \in Slots /\ a \in Blocks
    BY <1>2, <1>10
  <2>2. Took(l1, l2, b)
    BY <1>8, <2>1, TookLocated
  <2> QED BY <1>9, <2>1, <2>2, TookLocated
<1> HIDE DEF l1, l2, l3
<1>13. /\ s1[f][Top] = a /\ Sound(l1, s1) /\ Extends(e, t, l1, s1, f) /\ l1.inode[f].operation
       /\ \A q \in Places : q # Top => s1[f][q] = t[f][q]
       /\ l1.inode[f].block_number = n
  BY <1>1, <1>11 DEF Grow
<1>14. s1[f][Row(0)] = NULL /\ s1[f][Holder(Row(0))] = a
  BY <1>2, <1>5, <1>13
<1>15. PICK s2 : Grow(l1, s1, f, Row(0), b, m2, s2)
  <2>1. 0 = Slot(Row(0)) /\ a = s1[f][Holder(Row(0))]
    BY <1>2, <1>14
  <2> QED BY <1>2, <1>10, <1>12, <1>13, <1>14, <2>1, GrowUnder
<1>16. Took(m2, m3, c) /\ Sane(m3) /\ m3.fault = ""
  <2>1. Took(l2, l3, c) /\ a \in Blocks /\ 0 \in Index /\ b \in Blocks
    BY <1>2, <1>10, <1>12
  <2> QED BY <1>12, <2>1, TookEntered
<1> HIDE DEF m2, m3
<1>17. /\ s2[f][Row(0)] = b /\ Sound(m2, s2) /\ Extends(l1, s1, m2, s2, f) /\ m2.inode[f].operation
       /\ \A q \in Places : q # Row(0) => s2[f][q] = s1[f][q]
       /\ m2.inode[f].block_number = n
  BY <1>13, <1>15 DEF Grow
<1>18. s2[f][n] = NULL /\ s2[f][Holder(n)] = b
  BY <1>2, <1>5, <1>13, <1>17
<1>19. PICK u : Grow(m2, s2, f, n, c, z, u)
  <2>1. 0 = Slot(n) /\ b = s2[f][Holder(n)]
    BY <1>2, <1>18
  <2> QED BY <1>2, <1>10, <1>16, <1>17, <1>18, <2>1, GrowUnder
<1>20. Sane(z) /\ z.fault = ""
  <2>1. Took(m2, m3, c) /\ b \in Blocks /\ 0 \in Index /\ c \in Blocks
    BY <1>2, <1>10, <1>16
  <2> QED BY <1>16, <2>1, TookEntered
<1> HIDE DEF z
<1>21. /\ u[f][n] = c /\ Sound(z, u) /\ Extends(m2, s2, z, u, f)
       /\ \A q \in Places : q # n => u[f][q] = s2[f][q]
       /\ z.inode[f].block_number = n
  BY <1>17, <1>19 DEF Grow
<1>22. Extends(e, t, z, u, f)
  <2>1. Extends(e, t, m2, s2, f)
    BY <1>13, <1>17, ExtendsTransitive
  <2> QED BY <1>21, <2>1, ExtendsTransitive
<1>23. \A p \in Places : u[f][p] # NULL <=> t[f][p] # NULL \/ p \in Added(n)
  <2> SUFFICES ASSUME NEW p \in Places PROVE u[f][p] # NULL <=> t[f][p] # NULL \/ p \in Added(n)
    OBVIOUS
  <2>1. u[f][p] = IF p = n THEN c ELSE IF p = Row(0) THEN b ELSE IF p = Top THEN a ELSE t[f][p]
    BY <1>2, <1>13, <1>17, <1>21
  <2> QED BY <1>4, <1>5, <1>10, <2>1
<1>24. r.disk = z /\ r.block = u[f][n]
  BY <1>6, <1>21
<1> QED BY <1>2, <1>20, <1>21, <1>22, <1>23, <1>24, LastStep DEF r

\* A later one comes with its row, for which nothing was counted, or alone.
LEMMA DoubleNext ==
    ASSUME NEW e, NEW t, NEW f \in Files, NEW n \in SingleEnd + 1 .. Capacity - 1,
           Growing(e, t, f, n)
    PROVE  Grew(e, t, f, n, UnderDouble(e, f, n)) \/ Fell(e, f, n, UnderDouble(e, f, n))
<1> DEFINE r == UnderDouble(e, f, n)
           q == (n - SingleEnd) \div Words
           i == (n - SingleEnd) % Words
           top == t[f][Top]
           a == NewBlock(e)
           d1 == Taken(e)
           b == NewBlock(d1)
           d2 == Taken(d1)
<1>1. /\ Sane(e) /\ e.fault = "" /\ Sound(e, t) /\ e.freeBlock_number >= 1
      /\ e.inode[f].operation /\ e.inode[f].block_number = n /\ Fills(t, f, n)
  BY DEF Growing
<1>2. /\ q \in Index /\ i \in Index /\ n \in SingleEnd .. Capacity - 1 /\ n > SingleEnd
      /\ n \in 0 .. Capacity - 1 /\ n > Direct
  BY RowOf, Sizes
<1>3. /\ n \in Places /\ ~Root(n) /\ Holder(n) = Row(q) /\ Slot(n) = i
      /\ Row(q) \in Places /\ ~Root(Row(q)) /\ Holder(Row(q)) = Top /\ Slot(Row(q)) = q
      /\ Top \in Places /\ n # Row(q) /\ Row(q) # Top
  <2>1. n \in Places /\ ~Root(n) /\ Holder(n) = Row(q) /\ Slot(n) = i
    <3> HIDE DEF q, i
    <3> QED BY Sizes DEF Places, Root, Single, Top, Holder, Slot, q, i
  <2> HIDE DEF q
  <2>2. /\ Row(q) \in Places /\ ~Root(Row(q)) /\ Holder(Row(q)) = Top /\ Slot(Row(q)) = q
        /\ Top \in Places /\ n # Row(q) /\ Row(q) # Top
    BY <1>2, Sizes DEF Places, Single, Root, Slot, Top, Holder, Row, Index
  <2> QED BY <2>1, <2>2
<1>4. \A p \in Places : p \in Added(n) <=> p = n \/ (i = 0 /\ p = Row(q))
  BY <1>2, Sizes DEF Added
<1>5. t[f][n] = NULL /\ top # NULL /\ (t[f][Row(q)] = NULL <=> i = 0)
  <2>1. n \notin Filled(n) /\ Top \in Filled(n) /\ (i # 0 => Row(q) \in Filled(n))
    <3>1. \A p \in Added(n) : p \notin Filled(n)
      BY <1>2, FilledLemma
    <3>2. n \in Added(n) /\ (n > SingleEnd => Top \in Filled(n))
          /\ (n >= SingleEnd /\ i # 0 => Row(q) \in Filled(n))
      BY <1>2, FilledLemma
    <3> QED BY <1>2, <3>1, <3>2
  <2>2. i = 0 => Row(q) \notin Filled(n)
    <3>1. \A p \in Added(n) : p \notin Filled(n)
      BY <1>2, FilledLemma
    <3> QED BY <1>3, <1>4, <3>1
  <2> HIDE DEF q, i
  <2> QED BY <1>1, <1>3, <2>1, <2>2 DEF Fills
<1>6. e.inode[f].location[Direct + 1] = top /\ Follow(e, top, q) = t[f][Row(q)]
  <2>1. Sound(e, t) /\ e.inode[f].operation /\ q \in Index /\ t[f][Top] # NULL
    BY <1>1, <1>2, <1>5
  <2>2. e.inode[f].location[Direct + 1] = top
    BY <2>1, RootsOf
  <2> HIDE DEF q
  <2>3. Follow(e, top, q) = t[f][Row(q)]
    BY <2>1, UnderTopOf
  <2> QED BY <2>2, <2>3
<1>7. r = IF t[f][Row(q)] = NULL
          THEN [disk |-> Enter(Enter(d2, top, q, a), a, 0, b), block |-> b]
          ELSE [disk |-> Enter(d1, t[f][Row(q)], i, a), block |-> a]
  BY <1>5, <1>6 DEF UnderDouble
<1> HIDE DEF r, q, i, top
<1>8. /\ Took(e, d1, a) /\ Sane(d1) /\ d1.fault = "" /\ e.freeBlock_number \in Nat
      /\ d1.freeBlock_number = e.freeBlock_number - 1
  BY <1>1, TookLemma
<1> HIDE DEF a, d1
<1>9. a \in Blocks /\ a # NULL /\ 0 \in Index /\ top \in Blocks
  <2>1. a \in Blocks /\ a # NULL /\ 0 \in Index
    <3>1. a \in Blocks /\ a # NULL
      BY <1>8, BlocksFinite DEF Took
    <3>2. 0 \in Index
      BY Sizes DEF Index
    <3> QED BY <3>1, <3>2
  <2>2. t \in Trees
    BY <1>1 DEF Sound
  <2> QED BY <1>3, <1>5, <2>1, <2>2 DEF Trees, top
<1>10. CASE i = 0 /\ e.freeBlock_number >= 2
  <2> DEFINE x == Enter(d1, top, q, a)
             y == Enter(d2, top, q, a)
             z == Enter(y, a, 0, b)
  <2>1. r = [disk |-> z, block |-> b]
    BY <1>5, <1>7, <1>10
  <2>2. Took(d1, d2, b) /\ Sane(d2) /\ d2.fault = ""
    <3>1. /\ d1.freeBlock_number = e.freeBlock_number - 1 /\ e.freeBlock_number \in Nat
          /\ e.freeBlock_number >= 2
      BY <1>8, <1>10
    <3>2. d1.freeBlock_number >= 1
      BY <3>1
    <3> QED BY <1>8, <3>2, TookLemma
  <2> HIDE DEF b, d2
  <2>3. b \in Blocks /\ b # NULL
    BY <2>2, BlocksFinite DEF Took
  <2>4. PICK s : Grow(e, t, f, Row(q), a, x, s)
    <3>1. q = Slot(Row(q)) /\ top = t[f][Holder(Row(q))] /\ t[f][Row(q)] = NULL
      BY <1>3, <1>5, <1>10 DEF top
    <3> QED BY <1>1, <1>3, <1>5, <1>8, <3>1, GrowUnder
  <2>5. Took(x, y, b) /\ Sane(y) /\ y.fault = ""
    <3>1. top \in Blocks /\ q \in Index /\ a \in Blocks
      BY <1>2, <1>9 DEF q
    <3> QED BY <2>2, <3>1, TookEntered
  <2> HIDE DEF x, y
  <2>6. /\ s[f][Row(q)] = a /\ Sound(x, s) /\ Extends(e, t, x, s, f) /\ x.inode[f].operation
        /\ \A p \in Places : p # Row(q) => s[f][p] = t[f][p]
        /\ x.inode[f].block_number = n
    BY <1>1, <2>4 DEF Grow
  <2>7. PICK u : Grow(x, s, f, n, b, z, u)
    <3>1. 0 = Slot(n) /\ a = s[f][Holder(n)] /\ s[f][n] = NULL
      BY <1>3, <1>5, <1>10, <2>6
    <3> QED BY <1>3, <1>9, <2>5, <2>6, <3>1, GrowUnder
  <2>8. Sane(z) /\ z.fault = ""
    <3>1. a \in Blocks /\ 0 \in Index /\ b \in Blocks
      BY <1>9, <2>3
    <3> QED BY <2>5, <3>1, TookEntered
  <2> HIDE DEF z
  <2>9. /\ u[f][n] = b /\ Sound(z, u) /\ Extends(x, s, z, u, f)
        /\ \A p \in Places : p # n => u[f][p] = s[f][p]
        /\ z.inode[f].block_number = n
    BY <2>6, <2>7 DEF Grow
  <2>10. Extends(e, t, z, u, f)
    BY <2>6, <2>9, ExtendsTransitive
  <2>11. \A p \in Places : u[f][p] # NULL <=> t[f][p] # NULL \/ p \in Added(n)
    <3> SUFFICES ASSUME NEW p \in Places PROVE u[f][p] # NULL <=> t[f][p] # NULL \/ p \in Added(n)
      OBVIOUS
    <3>1. u[f][p] = IF p = n THEN b ELSE IF p = Row(q) THEN a ELSE t[f][p]
      BY <1>3, <2>6, <2>9
    <3>2. p \in Added(n) <=> p = n \/ p = Row(q)
      BY <1>4, <1>10
    <3> QED BY <1>5, <1>9, <1>10, <2>3, <3>1, <3>2
  <2>12. r.disk = z /\ r.block = u[f][n]
    BY <2>1, <2>9
  <2> QED BY <1>2, <2>8, <2>9, <2>10, <2>11, <2>12, LastStep DEF r
<1>11. CASE i = 0 /\ ~(e.freeBlock_number >= 2)
  <2> DEFINE y == Enter(d2, top, q, a)
             z == Enter(y, a, 0, b)
  <2>1. r.disk = z /\ r.block = b
    BY <1>5, <1>7, <1>11
  <2>2. ~(d1.freeBlock_number >= 1)
    <3>1. /\ d1.freeBlock_number = e.freeBlock_number - 1 /\ e.freeBlock_number \in Nat
          /\ ~(e.freeBlock_number >= 2)
      BY <1>8, <1>11
    <3> QED BY <3>1
  <2>3. b = WILD /\ d2.freeBlock_number = Largest /\ d2 \in Disks /\ d2.inode = d1.inode
    BY <1>8, <2>2, TakenLemma
  <2> HIDE DEF b, d2
  <2>4. y \in Disks /\ y.inode = d2.inode /\ y.freeBlock_number = d2.freeBlock_number
    BY <2>3, EnterKeeps
  <2> HIDE DEF y
  <2>5. z \in Disks /\ z.inode = y.inode /\ z.freeBlock_number = y.freeBlock_number
    BY <2>4, EnterKeeps
  <2>6. z.fault = "index"
    <3>1. ~(a \in Blocks /\ b \in Blocks /\ 0 \in Index)
      BY <2>3, BlocksFinite
    <3> QED BY <2>4, <3>1, EnterFaults
  <2> HIDE DEF z
  <2>7. d1.inode = e.inode
    BY <1>8 DEF Took
  <2>8. /\ r.disk.fault # "" /\ r.disk.inode = e.inode /\ r.disk.freeBlock_number = Largest
        /\ r.block # NULL /\ r.disk \in Disks
    BY <2>1, <2>3, <2>4, <2>5, <2>6, <2>7, BlocksFinite
  <2> QED BY <1>2, <1>11, <2>8 DEF Fell, r, i
<1>12. CASE i # 0
  <2> DEFINE row == t[f][Row(q)]
             z == Enter(d1, row, i, a)
  <2>1. r = [disk |-> z, block |-> a]
    BY <1>5, <1>7, <1>12
  <2>2. row \in Blocks /\ row # NULL
    <3>1. t \in Trees
      BY <1>1 DEF Sound
    <3> QED BY <1>3, <1>5, <1>12, <3>1 DEF Trees
  <2>3. PICK u : Grow(e, t, f, n, a, z, u)
    <3>1. i = Slot(n) /\ row = t[f][Holder(n)] /\ row # NULL
      BY <1>3, <2>2
    <3> HIDE DEF row
    <3> QED BY <1>1, <1>3, <1>5, <1>8, <3>1, GrowUnder
  <2> HIDE DEF row
  <2>4. Sane(z) /\ z.fault = ""
    <3>1. row \in Blocks /\ i \in Index /\ a \in Blocks
      BY <1>2, <1>9, <2>2 DEF i
    <3> QED BY <1>8, <3>1, TookEntered
  <2> HIDE DEF z
  <2>5. /\ u[f][n] = a /\ Sound(z, u) /\ Extends(e, t, z, u, f)
        /\ \A p \in Places : p # n => u[f][p] = t[f][p]
        /\ z.inode[f].block_number = n
    BY <1>1, <2>3 DEF Grow
  <2>6. \A p \in Places : u[f][p] # NULL <=> t[f][p] # NULL \/ p \in Added(n)
    BY <1>4, <1>5, <1>9, <1>12, <2>5
  <2>7. r.disk = z /\ r.block = u[f][n]
    BY <2>1, <2>5
  <2> QED BY <1>2, <2>4, <2>5, <2>6, <2>7, LastStep DEF r
<1> QED BY <1>10, <1>11, <1>12 DEF r

\* Behind the largest file is no row.
LEMMA DoubleLast ==
    ASSUME NEW e, NEW t, NEW f \in Files, NEW n, n = Capacity, Growing(e, t, f, n)
    PROVE  Fell(e, f, n, UnderDouble(e, f, n))
<1> DEFINE q == (n - SingleEnd) \div Words
           i == (n - SingleEnd) % Words
           a == NewBlock(e)
           d1 == Taken(e)
<1>1. /\ Sane(e) /\ Sound(e, t) /\ e.freeBlock_number >= 1 /\ e.inode[f].operation
      /\ Fills(t, f, n)
  BY DEF Growing
<1>2. q = Words
  <2>1. Words \in Nat /\ Words > 0 /\ 0 \in Index /\ n - SingleEnd = Words * Words
        /\ Words * Words \in Nat
    BY Sizes DEF Index
  <2>2. PICK k \in Nat : k = n - SingleEnd
    BY <2>1
  <2>3. k = Words * Words + 0
    BY <2>1, <2>2
  <2>4. Words = k \div Words
    BY <2>1, <2>3, DivMod
  <2> QED BY <2>2, <2>4
<1> HIDE DEF q, i
<1>3. e.inode[f].location[Direct + 1] # NULL
  <2>1. Top \in Places /\ Top \in Filled(n)
    BY Sizes DEF Filled, Places, Top
  <2>2. t[f][Top] # NULL
    BY <1>1, <2>1 DEF Fills
  <2>3. Sound(e, t) /\ e.inode[f].operation
    BY <1>1
  <2> QED BY <2>2, <2>3, RootsOf
<1>4. Follow(e, e.inode[f].location[Direct + 1], q) = WILD
  <2>1. q \notin 0 .. Words - 1
    BY <1>2, Sizes
  <2> QED BY <2>1, Zenon DEF Follow
<1>5. UnderDouble(e, f, n).disk = Enter(d1, WILD, i, a) /\ UnderDouble(e, f, n).block = a
  <2>1. WILD # NULL
    BY BlocksFinite
  <2> QED BY <1>3, <1>4, <2>1 DEF UnderDouble, q, i
<1>6. Took(e, d1, a)
  BY <1>1, TookLemma
<1>7. d1 \in Disks /\ d1.inode = e.inode /\ a # NULL
  BY <1>6, BlocksFinite DEF Took
<1> HIDE DEF a, d1
<1>8. Enter(d1, WILD, i, a).fault = "index"
  BY <1>7, EnterFaults, BlocksFinite
<1>9. Enter(d1, WILD, i, a) \in Disks /\ Enter(d1, WILD, i, a).inode = d1.inode
  BY <1>7, EnterKeeps
<1> QED BY <1>5, <1>7, <1>8, <1>9 DEF Fell

\* A write has left the disk where it may: behind the largest file, or where a
\* row needed a block that was not counted.
AtEdge(d, f) ==
    /\ d \in Disks /\ d.fault # ""
    /\ \/ d.inode[f].block_number = Capacity
       \/ /\ d.inode[f].block_number > SingleEnd
          /\ (d.inode[f].block_number - SingleEnd) % Words = 0
          /\ d.freeBlock_number = Largest

\* What allocate_block does for data block n of a well-formed file f: it finds
\* too little free and does nothing, or the file has block n too, or the kernel
\* leaves the disk at an edge.
Allocated(d, t, f, n, r) ==
    \/ r.disk = d /\ r.block = NULL
    \/ Grew(d, t, f, n, r)
    \/ AtEdge(r.disk, f) /\ r.block # NULL

\* allocate_block, with the number of the new block named.
LEMMA AllocateIs ==
    ASSUME NEW d, NEW f, NEW n, d.inode[f].block_number + 1 = n
    PROVE  AllocateBlock(d, f) =
               IF n > max_file_size \div Words \/ ~Enough(d, n)
               THEN [disk |-> d, block |-> NULL]
               ELSE IF n < Direct
               THEN [disk |-> Located(Taken(Numbered(d, f, n)), f, n, NewBlock(d)),
                     block |-> NewBlock(d)]
               ELSE IF n < SingleEnd THEN UnderSingle(Numbered(d, f, n), f, n)
               ELSE UnderDouble(Numbered(d, f, n), f, n)
BY DEF AllocateBlock

\* allocate_block, called for the next block of a file, attaches it to the tree.
LEMMA AllocateLemma ==
    ASSUME NEW d, NEW t, NEW f \in Files, NEW n \in Nat, Grown(d, t, f, n)
    PROVE  Allocated(d, t, f, n, AllocateBlock(d, f))
<1> DEFINE r == AllocateBlock(d, f)
           e == Numbered(d, f, n)
<1>1. /\ Sane(d) /\ d.fault = "" /\ Sound(d, t) /\ d.inode[f].operation
      /\ d.inode[f].block_number + 1 = n /\ Fills(t, f, n) /\ d \in Disks /\ n <= Capacity
  BY DEF Grown, Sane, Fills
<1>5. n = d.inode[f].block_number + 1 /\ n <= Capacity /\ Capacity \in Nat
  BY <1>1, Sizes
<1>6. d \in Disks /\ n \in Int
  <2>1. d \in Disks
    BY <1>1, Zenon
  <2> QED BY <2>1
<1>7. r = IF n > max_file_size \div Words \/ ~Enough(d, n)
          THEN [disk |-> d, block |-> NULL]
          ELSE IF n < Direct
          THEN [disk |-> Located(Taken(e), f, n, NewBlock(d)), block |-> NewBlock(d)]
          ELSE IF n < SingleEnd THEN UnderSingle(e, f, n)
          ELSE UnderDouble(e, f, n)
  BY <1>1, AllocateIs, Zenon
<1>2. max_file_size \div Words = Capacity
  <2>1. max_file_size \in Nat /\ max_file_size = Capacity * Words + 0 /\ Capacity \in Nat
        /\ 0 \in Index
    <3>1. Capacity * Words \in Nat
      BY Sizes
    <3> QED BY <3>1, Sizes DEF Index
  <2> QED BY <2>1, DivMod
<1>3. CASE ~Enough(d, n)
  <2>1. r = [disk |-> d, block |-> NULL]
    BY <1>3, <1>7, Zenon
  <2> QED BY <2>1 DEF Allocated
<1>4. CASE Enough(d, n)
  <2>1. r = IF n < Direct
            THEN [disk |-> Located(Taken(e), f, n, NewBlock(d)), block |-> NewBlock(d)]
            ELSE IF n < SingleEnd THEN UnderSingle(e, f, n)
            ELSE UnderDouble(e, f, n)
    <3>1. ~(n > Capacity)
      BY <1>5
    <3>2. ~(n > max_file_size \div Words)
      BY <1>2, <3>1, Zenon
    <3> QED BY <1>4, <1>7, <3>2, Zenon
  <2>2. /\ d.freeBlock_number >= 1
        /\ n = Direct => d.freeBlock_number >= 2
        /\ n = SingleEnd => d.freeBlock_number >= 3
    BY <1>4 DEF Enough
  <2>3. /\ e \in Disks /\ \A g \in Files : g # f => e.inode[g] = d.inode[g]
        /\ e.inode[f].location = d.inode[f].location
        /\ e.inode[f].size = d.inode[f].size /\ e.inode[f].operation = d.inode[f].operation
        /\ e.inode[f].block_number = n /\ e.freeBlock_number = d.freeBlock_number
        /\ e.index = d.index /\ e.fault = d.fault /\ e.space = d.space
    BY <1>6, NumberedLemma
  <2>4. NewBlock(d) = NewBlock(e)
    BY <2>3 DEF NewBlock, FreeBlocks
  <2> HIDE DEF e, r
  <2>5. Sound(e, t) /\ \A g \in Files : \A m : Holds(d, t, g, m) => Holds(e, t, g, m)
    <3>1. Sound(d, t) /\ e.index = d.index /\ e.space = d.space
      BY <1>1, <2>3
    <3>2. \A g \in Files : /\ e.inode[g].operation = d.inode[g].operation
                           /\ e.inode[g].location = d.inode[g].location
      BY <2>3
    <3> QED BY <3>1, <3>2, SameTrees
  <2>6. Extends(d, t, e, t, f)
    <3>1. Lost(e, t) \subseteq Lost(d, t)
      BY <2>3 DEF Lost
    <3> QED BY <2>3, <2>5, <3>1 DEF Extends
  <2>7. Sane(e)
    BY <1>1, <2>3 DEF Sane
  <2>8. e.inode[f].operation
    BY <1>1, <2>3
  <2>9. Growing(e, t, f, n)
    <3>1. e.freeBlock_number >= 1
      BY <2>2, <2>3
    <3>2. e.inode[f].block_number = n /\ Fills(t, f, n) /\ e.fault = ""
      BY <1>1, <2>3
    <3> QED BY <2>5, <2>7, <2>8, <3>1, <3>2, Zenon DEF Growing
  <2>10. Grew(e, t, f, n, r) \/ Fell(e, f, n, r)
    <3>1. CASE n < Direct
      <4> DEFINE a == NewBlock(e)
                 d1 == Taken(e)
                 z == Located(d1, f, n, a)
      <4>1. r.disk = z /\ r.block = a
        BY <2>1, <2>4, <3>1
      <4>2. Took(e, d1, a) /\ Sane(d1) /\ d1.fault = ""
        <5>1. Sane(e) /\ e.freeBlock_number >= 1 /\ e.fault = ""
          BY <2>9 DEF Growing
        <5> QED BY <5>1, TookLemma
      <4> HIDE DEF a, d1
      <4>3. /\ n \in 0 .. Capacity - 1 /\ n \in Places /\ Root(n) /\ n = Slot(n)
            /\ n \in Slots
        BY <3>1, Sizes DEF Places, Root, Slot, Slots, Single, Top
      <4>4. t[f][n] = NULL /\ \A p \in Places : p \in Added(n) <=> p = n
        <5>1. \A p \in Places : p \in Added(n) <=> p = n
          BY <3>1, Sizes DEF Added
        <5>2. n \notin Filled(n)
          BY <4>3, <5>1, FilledLemma
        <5> QED BY <1>1, <4>3, <5>1, <5>2 DEF Fills
      <4>5. PICK u : Grow(e, t, f, n, a, z, u)
        BY <2>5, <2>8, <4>2, <4>3, <4>4, GrowRoot
      <4>6. a \in Blocks /\ a # NULL
        BY <4>2, BlocksFinite DEF Took
      <4>7. Sane(z) /\ z.fault = ""
        BY <4>2, <4>3, <4>6, TookLocated
      <4> HIDE DEF z
      <4>8. /\ u[f][n] = a /\ Sound(z, u) /\ Extends(e, t, z, u, f)
            /\ \A p \in Places : p # n => u[f][p] = t[f][p]
            /\ z.inode[f].block_number = n
        BY <2>3, <4>5 DEF Grow
      <4>9. \A p \in Places : u[f][p] # NULL <=> t[f][p] # NULL \/ p \in Added(n)
        BY <4>4, <4>6, <4>8
      <4>10. r.disk = z /\ r.block = u[f][n]
        BY <4>1, <4>8
      <4> QED BY <2>9, <4>3, <4>7, <4>8, <4>9, <4>10, LastStep
    <3>2. CASE n >= Direct /\ n < SingleEnd
      <4>1. r = UnderSingle(e, f, n) /\ n \in Direct .. SingleEnd - 1
        BY <2>1, <3>2, Sizes
      <4>2. n = Direct => e.freeBlock_number >= 2
        <5>1. e.freeBlock_number = d.freeBlock_number
          BY <2>3
        <5> QED BY <2>2, <5>1
      <4> QED BY <2>9, <4>1, <4>2, SingleGrows
    <3>3. CASE n >= SingleEnd
      <4>1. r = UnderDouble(e, f, n)
        BY <2>1, <3>3, Sizes
      <4>2. n = SingleEnd => e.freeBlock_number >= 3
        BY <2>2, <2>3
      <4>3. n = SingleEnd \/ n = Capacity \/ n \in SingleEnd + 1 .. Capacity - 1
        <5>1. n <= Capacity
          BY <1>5
        <5> QED BY <3>3, <5>1, Sizes
      <4> QED BY <2>9, <4>1, <4>2, <4>3, DoubleFirst, DoubleNext, DoubleLast
    <3> QED BY <3>1, <3>2, <3>3, Sizes
  <2>11. ASSUME Grew(e, t, f, n, r) PROVE Grew(d, t, f, n, r)
    <3>1. PICK u : /\ Grown(r.disk, u, f, n + 1) /\ Extends(e, t, r.disk, u, f)
                   /\ r.block = u[f][n]
      BY <2>11 DEF Grew
    <3>2. Extends(d, t, r.disk, u, f)
      BY <2>6, <3>1, ExtendsTransitive
    <3> QED BY <3>1, <3>2 DEF Grew
  <2>12. ASSUME Fell(e, f, n, r) PROVE Allocated(d, t, f, n, r)
    <3>1. r.disk.inode[f].block_number = n
      BY <2>3, <2>12 DEF Fell
    <3> QED BY <2>12, <3>1 DEF Fell, Allocated, AtEdge
  <2> QED BY <2>10, <2>11, <2>12 DEF Allocated, r
<1> QED BY <1>3, <1>4

-----------------------------------------------------------------------------
(* write_file, for a write at the end of a file.                           *)

\* Where a word of a file is.
LEMMA WordPlace ==
    ASSUME NEW j \in 0 .. max_file_size - 1
    PROVE  /\ j \div Words \in 0 .. Capacity - 1 /\ j \div Words \in Places /\ j \in Nat
           /\ j % Words \in Index /\ j = (j \div Words) * Words + (j % Words)
<1> DEFINE k == j \div Words
           i == j % Words
<1>1. j \in Nat /\ j < Capacity * Words
  BY Sizes
<1>2. k \in Nat /\ i \in Index /\ j = k * Words + i
  BY <1>1, DivMod
<1> HIDE DEF k, i
<1>3. k * Words <= j
  <2>1. k * Words \in Nat /\ i \in Nat
    BY <1>2, Sizes DEF Index
  <2> QED BY <1>2, <2>1
<1>4. k * Words < Capacity * Words
  <2>1. k * Words \in Nat /\ Capacity * Words \in Nat
    BY <1>2, Sizes
  <2> QED BY <1>1, <1>3, <2>1
<1>5. k < Capacity
  BY <1>2, <1>4, Sizes, Multiples
<1> QED BY <1>1, <1>2, <1>5, Sizes DEF k, i, Places

\* On disk e file f has what it has on disk d.
Agree(d, t, f, e) ==
    /\ e.inode[f] = d.inode[f]
    /\ \A p \in Places : t[f][p] \in Blocks => e.space[t[f][p]] = d.space[t[f][p]]

\* A pointer in its tree leads where it did.
LEMMA AgreeFollow ==
    ASSUME NEW d, NEW t, Sound(d, t), NEW f \in Files, NEW e, Agree(d, t, f, e),
           NEW p \in Places, t[f][p] # NULL, NEW i
    PROVE  Follow(e, t[f][p], i) = Follow(d, t[f][p], i)
<1>1. t[f][p] \in Blocks
  BY DEF Sound, Trees
<1>2. e.space[t[f][p]] = d.space[t[f][p]]
  BY <1>1 DEF Agree
<1> QED BY <1>2 DEF Follow

\* switchAddress finds the block that is at the place.
LEMMA SwitchSame ==
    ASSUME NEW d, NEW t, Sound(d, t), NEW f \in Files, d.inode[f].operation,
           NEW n \in 0 .. Capacity - 1, t[f][n] # NULL, NEW e, Agree(d, t, f, e)
    PROVE  SwitchAddress(e, f, n) = t[f][n]
<1>1. \A p \in Places : t[f][p] = Stored(d, t, f, p)
  BY DEF Sound
<1>2. n \in Places /\ n \in Nat /\ Single \in Places /\ Top \in Places
  BY Sizes DEF Places, Single, Top
<1>6. e.inode[f] = d.inode[f]
  BY DEF Agree
<1>3. CASE n < Direct
  <2>1. n \in 0 .. Direct - 1
    BY <1>2, <1>3, Sizes
  <2>2. d.inode[f].location[n] = t[f][n]
    BY <2>1, RootsOf
  <2> QED BY <1>3, <1>6, <2>2 DEF SwitchAddress
<1>4. CASE n >= Direct /\ n < SingleEnd
  <2>1. ~Root(n) /\ Holder(n) = Single /\ n \in Direct .. SingleEnd - 1
    BY <1>2, <1>4, Sizes DEF Root, Holder, Single, Top
  <2>2. t[f][Single] # NULL
    BY <1>1, <1>2, <2>1 DEF Stored
  <2>3. Follow(d, t[f][Single], n - Direct) = t[f][n]
    BY <2>1, <2>2, UnderSingleOf
  <2>4. d.inode[f].location[Direct] = t[f][Single]
    BY RootsOf
  <2>5. Follow(e, t[f][Single], n - Direct) = t[f][n]
    BY <1>2, <2>2, <2>3, AgreeFollow
  <2> QED BY <1>2, <1>4, <1>6, <2>2, <2>4, <2>5, Sizes DEF SwitchAddress
<1>5. CASE n >= SingleEnd
  <2> DEFINE q == (n - SingleEnd) \div Words
             i == (n - SingleEnd) % Words
  <2>1. q \in Index /\ n \in SingleEnd .. Capacity - 1
    BY <1>5, RowOf
  <2>2. ~Root(n) /\ Holder(n) = Row(q)
    <3> HIDE DEF q
    <3> QED BY <1>2, <1>5, Sizes DEF Root, Holder, Single, Top, q
  <2> HIDE DEF q
  <2>3. Row(q) \in Places /\ ~Root(Row(q)) /\ Holder(Row(q)) = Top
    BY <2>1, Sizes DEF Row, Index, Places, Root, Holder, Single, Top
  <2>4. t[f][Row(q)] # NULL
    BY <1>1, <1>2, <2>2 DEF Stored
  <2>5. t[f][Top] # NULL
    BY <1>1, <2>3, <2>4 DEF Stored
  <2>6. Follow(d, t[f][Top], q) = t[f][Row(q)]
    BY <2>1, <2>5, UnderTopOf
  <2>7. Follow(d, t[f][Row(q)], i) = t[f][n]
    BY <2>1, <2>4, UnderRowOf DEF q
  <2>8. d.inode[f].location[Direct + 1] = t[f][Top]
    BY RootsOf
  <2> HIDE DEF i
  <2>10. Follow(e, t[f][Top], q) = t[f][Row(q)]
    BY <1>2, <2>5, <2>6, AgreeFollow
  <2>11. Follow(e, t[f][Row(q)], i) = t[f][n]
    BY <2>3, <2>4, <2>7, AgreeFollow
  <2>9. SwitchAddress(e, f, n) =
            IF e.inode[f].location[Direct + 1] = NULL THEN NULL
            ELSE Follow(e, Follow(e, e.inode[f].location[Direct + 1], q), i)
    <3>1. ~(n < Direct) /\ ~(n < SingleEnd)
      BY <1>2, <1>5, Sizes
    <3> QED BY <3>1, Zenon DEF SwitchAddress, q, i
  <2> QED BY <1>6, <2>5, <2>8, <2>9, <2>10, <2>11
<1> QED BY <1>2, <1>3, <1>4, <1>5, Sizes

\* switchAddress finds the block of the tree.
LEMMA SwitchLemma ==
    ASSUME NEW d, NEW t, Sound(d, t), NEW f \in Files, d.inode[f].operation,
           NEW n \in 0 .. Capacity - 1, t[f][n] # NULL
    PROVE  SwitchAddress(d, f, n) = t[f][n]
<1>1. Agree(d, t, f, d)
  BY DEF Agree
<1> QED BY <1>1, SwitchSame

\* A word behind the others goes to the last block.
LEMMA WriteWord ==
    ASSUME NEW d, NEW t, NEW f \in Files, NEW n \in 1 .. Capacity, Grown(d, t, f, n),
           NEW i \in Index, NEW m, m = (n - 1) * Words + i, Holds(d, t, f, m),
           NEW b, b = t[f][n - 1], NEW e, e = Written(d, b, i, Data(f, m))
    PROVE  /\ Grown(e, t, f, n) /\ Extends(d, t, e, t, f) /\ Holds(e, t, f, m + 1)
           /\ b \in Blocks
<1> DEFINE w == Data(f, m)
<1>1. /\ Sane(d) /\ d.fault = "" /\ Sound(d, t) /\ d.inode[f].operation
      /\ d.inode[f].block_number + 1 = n /\ Fills(t, f, n) /\ d \in Disks
  BY DEF Grown, Sane
<1>2. n - 1 \in 0 .. Capacity - 1 /\ n - 1 \in Places /\ n - 1 \in Nat
  BY Sizes DEF Places
<1>3. (n - 1) * Words \in Nat /\ m \in Nat /\ i \in Nat
  <2>1. \A k \in Nat : k * Words \in Nat
    BY Sizes
  <2>2. (n - 1) * Words \in Nat
    BY <1>2, <2>1
  <2> QED BY <2>2 DEF Index
<1>4. b \in Blocks /\ b \in d.index
  <2>1. n - 1 \in Filled(n)
    BY <1>2 DEF Filled
  <2>2. b # NULL
    BY <1>1, <1>2, <2>1 DEF Fills
  <2>3. d.index \in SUBSET Blocks
    BY <1>1 DEF Disks
  <2>4. b \in d.index
    BY <1>1, <1>2, <2>2 DEF Sound
  <2> QED BY <2>3, <2>4
<1>5. w \in Word
  BY <1>3 DEF Word
<1> HIDE DEF w
<1>6. /\ e \in Disks /\ e.inode = d.inode /\ e.freeBlock_number = d.freeBlock_number
      /\ e.index = d.index /\ e.fault = d.fault
      /\ e.space[b] = [d.space[b] EXCEPT ![i] = w]
      /\ \A x \in Blocks : x # b => e.space[x] = d.space[x]
  <2>1. e = Written(d, b, i, w)
    BY DEF w
  <2>2. d \in Disks
    BY <1>1, Zenon
  <2> QED BY <1>4, <1>5, <2>1, <2>2, WrittenLemma
<1>7. d.space[b] \in [Index -> Word]
  <2>1. d \in Disks
    BY <1>1, Zenon
  <2> QED BY <1>4, <2>1 DEF Disks
<1>8. t \in Trees /\ Separate(t) /\ \A x \in Blocks \ d.index : d.space[x] = ZeroBlock
  BY <1>1 DEF Sound
<1>9. ASSUME NEW g \in Files, NEW p \in Places, p < 0, t[g][p] # NULL
      PROVE  e.space[t[g][p]] = d.space[t[g][p]]
  <2>1. t[g][p] \in Blocks
    BY <1>8, <1>9 DEF Trees
  <2>2. p # n - 1
    BY <1>2, <1>9
  <2>3. \A q, r \in Places : t[g][q] = t[f][r] /\ t[g][q] # NULL => g = f /\ q = r
    BY <1>8 DEF Separate
  <2>4. t[g][p] # b
    BY <1>2, <1>9, <2>2, <2>3
  <2> QED BY <1>6, <2>1, <2>4
<1>10. Sound(e, t)
  <2>1. ASSUME NEW g \in Files, NEW p \in Places PROVE Stored(e, t, g, p) = Stored(d, t, g, p)
    <3>1. CASE Root(p)
      BY <1>6, <3>1 DEF Stored
    <3>2. CASE ~Root(p) /\ t[g][Holder(p)] = NULL
      BY <3>2 DEF Stored
    <3>3. CASE ~Root(p) /\ t[g][Holder(p)] # NULL
      <4>1. Holder(p) \in Places /\ Holder(p) < 0
        BY <3>3, PlaceLemma
      <4>2. e.space[t[g][Holder(p)]] = d.space[t[g][Holder(p)]]
        BY <1>9, <3>3, <4>1
      <4>3. Follow(e, t[g][Holder(p)], Slot(p)) = Follow(d, t[g][Holder(p)], Slot(p))
        BY <4>2 DEF Follow
      <4> QED BY <3>3, <4>3 DEF Stored
    <3> QED BY <3>1, <3>2, <3>3
  <2>2. \A g \in Files, p \in Places :
           t[g][p] = IF e.inode[g].operation THEN Stored(e, t, g, p) ELSE NULL
    <3> SUFFICES ASSUME NEW g \in Files, NEW p \in Places
                 PROVE  t[g][p] = IF e.inode[g].operation THEN Stored(e, t, g, p) ELSE NULL
      OBVIOUS
    <3>1. t[g][p] = IF d.inode[g].operation THEN Stored(d, t, g, p) ELSE NULL
      BY <1>1 DEF Sound
    <3>2. e.inode = d.inode /\ Stored(e, t, g, p) = Stored(d, t, g, p)
      BY <1>6, <2>1
    <3> QED BY <3>1, <3>2, Zenon
  <2>3. \A x \in Blocks \ e.index : e.space[x] = ZeroBlock
    BY <1>4, <1>6, <1>8
  <2>4. \A g \in Files, p \in Places : t[g][p] # NULL => t[g][p] \in e.index
    BY <1>1, <1>6 DEF Sound
  <2> QED BY <1>8, <2>2, <2>3, <2>4 DEF Sound
<1>11. Grown(e, t, f, n)
  <2>1. Sane(e)
    BY <1>1, <1>6 DEF Sane
  <2>2. e.inode[f].operation /\ e.inode[f].block_number + 1 = n /\ Fills(t, f, n)
        /\ e.fault = ""
    BY <1>1, <1>6
  <2> QED BY <1>10, <2>1, <2>2 DEF Grown
<1>12. ASSUME NEW g \in Files, NEW j \in 0 .. max_file_size - 1,
              t[g][j \div Words] \in Blocks,
              \/ g = f /\ j = m
              \/ d.space[t[g][j \div Words]][j % Words] = Data(g, j)
       PROVE  e.space[t[g][j \div Words]][j % Words] = Data(g, j)
  <2> DEFINE k == j \div Words
             l == j % Words
  <2>1. k \in Places /\ k \in Nat /\ l \in Index /\ j = k * Words + l /\ j \in Nat
    BY WordPlace
  <2>2. g = f /\ j = m => k = n - 1 /\ l = i
    <3>1. j = m => j = (n - 1) * Words + i
      OBVIOUS
    <3> QED BY <1>2, <2>1, <3>1, DivMod
  <2> HIDE DEF k, l
  <2>3. t[g][k] \in Blocks /\ ((g = f /\ j = m) \/ d.space[t[g][k]][l] = Data(g, j))
    BY <1>12 DEF k, l
  <2>4. CASE t[g][k] # b
    <3>1. ~(g = f /\ j = m)
      BY <2>2, <2>4
    <3> QED BY <1>6, <2>3, <2>4, <3>1 DEF k, l
  <2>5. CASE t[g][k] = b
    <3>1. g = f /\ k = n - 1
      <4>1. \A q, r \in Places : t[g][q] = t[f][r] /\ t[g][q] # NULL => g = f /\ q = r
        BY <1>8 DEF Separate
      <4>2. t[g][k] # NULL
        BY <2>3, BlocksFinite
      <4> QED BY <1>2, <2>1, <2>5, <4>1, <4>2
    <3>2. CASE l = i
      <4>1. j = m
        BY <2>1, <3>1, <3>2
      <4>2. e.space[b][l] = w
        BY <1>6, <1>7, <3>2
      <4> QED BY <2>5, <3>1, <4>1, <4>2 DEF w, k, l
    <3>3. CASE l # i
      <4>1. j # m
        BY <2>2, <3>1, <3>3
      <4>2. e.space[b][l] = d.space[b][l]
        BY <1>6, <1>7, <2>1, <3>3
      <4>3. d.space[t[g][k]][l] = Data(g, j)
        BY <2>3, <4>1
      <4> QED BY <2>5, <4>2, <4>3 DEF k, l
    <3> QED BY <3>2, <3>3
  <2> QED BY <2>4, <2>5
<1>13. ASSUME NEW g \in Files, NEW x \in 0 .. max_file_size, Holds(d, t, g, x)
       PROVE  Holds(e, t, g, x)
  <2>1. \A j \in 0 .. x - 1 : j \in 0 .. max_file_size - 1
    BY Sizes
  <2> QED BY <1>12, <1>13, <2>1 DEF Holds
<1>14. m \in 0 .. max_file_size - 1
  <2>1. (n - 1) * Words + Words <= Capacity * Words
    BY <1>2, Sizes, Multiples
  <2>2. max_file_size = Capacity * Words /\ Words \in Nat /\ max_file_size \in Nat
        /\ Words > 0
    BY Sizes
  <2>3. i < Words
    BY <2>2 DEF Index
  <2> HIDE DEF max_file_size
  <2> QED BY <1>3, <2>1, <2>2, <2>3
<1>15. Holds(e, t, f, m + 1)
  <2> SUFFICES ASSUME NEW j \in 0 .. m
               PROVE  /\ t[f][j \div Words] \in Blocks
                      /\ e.space[t[f][j \div Words]][j % Words] = Data(f, j)
    BY <1>3 DEF Holds
  <2>1. j \in 0 .. max_file_size - 1
    BY <1>3, <1>14, Sizes
  <2>2. CASE j = m
    <3>1. t[f][m \div Words] = b
      <4>1. n - 1 = m \div Words
        BY <1>2, <1>3, DivMod
      <4> QED BY <4>1
    <3> QED BY <1>4, <1>12, <2>1, <2>2, <3>1
  <2>3. CASE j # m
    <3>1. j \in 0 .. m - 1
      BY <1>3, <2>3
    <3>2. /\ t[f][j \div Words] \in Blocks
          /\ d.space[t[f][j \div Words]][j % Words] = Data(f, j)
      BY <3>1 DEF Holds
    <3> QED BY <1>12, <2>1, <3>2
  <2> QED BY <2>2, <2>3
<1>16. Extends(d, t, e, t, f)
  <2>1. Lost(e, t) \subseteq Lost(d, t)
    BY <1>6 DEF Lost
  <2> QED BY <1>6, <1>13, <2>1 DEF Extends
<1> QED BY <1>4, <1>11, <1>15, <1>16

\* The state of write_file between two words, and at an early end.
Put(D, f, B, O, K) ==
    [disk |-> D, file |-> f, block |-> B, offset |-> O, done |-> K, stopped |-> FALSE]
Halt(D, f, B, O, K) ==
    [disk |-> D, file |-> f, block |-> B, offset |-> O, done |-> K, stopped |-> TRUE]

\* The kernel is on the disk still, and what allocate_block gives.
Up(D) == D.fault = ""
Gives(D, f, e, b) == AllocateBlock(D, f).disk = e /\ AllocateBlock(D, f).block = b

\* The kernel has left the disk, or the write has ended.
LEMMA PutStays ==
    ASSUME NEW w, w.stopped \/ w.disk.fault # "", NEW word
    PROVE  PutWord(w, word) = w
BY DEF PutWord

\* What Put is made of.
LEMMA PutParts ==
    ASSUME NEW D, NEW f, NEW B, NEW O, NEW K, NEW w, w = Put(D, f, B, O, K)
    PROVE  /\ w.disk = D /\ w.file = f /\ w.block = B /\ w.offset = O /\ w.done = K
           /\ ~w.stopped
BY DEF Put

\* A word goes to the block that is there.
LEMMA PutNext ==
    ASSUME NEW D, NEW f, NEW B, NEW O, NEW K, NEW word, Up(D), O # Words, B \in Blocks
    PROVE  PutWord(Put(D, f, B, O, K), word) = Put(Written(D, B, O, word), f, B, O + 1, K + 1)
<1> DEFINE w == Put(D, f, B, O, K)
           X == Written(D, B, O, word)
<1>1. /\ w.disk = D /\ w.file = f /\ w.block = B /\ w.offset = O /\ w.done = K
      /\ ~w.stopped
  BY DEF Put
<1>2. PutWord(w, word) = [w EXCEPT !.disk = X, !.block = B, !.offset = O + 1, !.done = K + 1]
  BY <1>1 DEF PutWord, Written, Up
<1> HIDE DEF X
<1> QED BY <1>2 DEF Put, X

\* There is no block: the first word of a write behind the end of the file.
LEMMA PutNowhere ==
    ASSUME NEW D, NEW f, NEW B, NEW O, NEW K, NEW word, Up(D), O # Words, B \notin Blocks
    PROVE  PutWord(Put(D, f, B, O, K), word).disk = Fault(D, "write")
<1> DEFINE w == Put(D, f, B, O, K)
           e == Fault(D, "write")
<1>1. /\ w.disk = D /\ w.file = f /\ w.block = B /\ w.offset = O /\ w.done = K
      /\ ~w.stopped
  BY DEF Put
<1>2. PutWord(w, word) = [w EXCEPT !.disk = e]
  BY <1>1 DEF PutWord, Up
<1> HIDE DEF e
<1>3. [w EXCEPT !.disk = e].disk = e
  BY DEF Put
<1> QED BY <1>2, <1>3 DEF e

\* Too little is free for another block.
LEMMA PutStops ==
    ASSUME NEW D, NEW f, NEW B, NEW K, NEW word, Up(D), NEW e, Gives(D, f, e, NULL)
    PROVE  PutWord(Put(D, f, B, Words, K), word) = Halt(D, f, B, Words, K)
<1> DEFINE w == Put(D, f, B, Words, K)
<1>1. /\ w.disk = D /\ w.file = f /\ w.block = B /\ w.offset = Words /\ w.done = K
      /\ ~w.stopped
  BY DEF Put
<1>2. PutWord(w, word) = [w EXCEPT !.stopped = TRUE]
  BY <1>1 DEF PutWord, Up, Gives
<1> QED BY <1>2 DEF Put, Halt

\* The block given next is not on the disk.
LEMMA PutFalls ==
    ASSUME NEW D, NEW f, NEW B, NEW K, NEW word, Up(D), NEW e, NEW b, Gives(D, f, e, b),
           b # NULL, b \notin Blocks
    PROVE  PutWord(Put(D, f, B, Words, K), word).disk = Fault(e, "write")
<1> DEFINE w == Put(D, f, B, Words, K)
           r == AllocateBlock(D, f)
           x == Fault(r.disk, "write")
<1>1. /\ w.disk = D /\ w.file = f /\ w.block = B /\ w.offset = Words /\ w.done = K
      /\ ~w.stopped
  BY DEF Put
<1>4. r.disk = e /\ r.block = b
  BY DEF Gives
<1>2. PutWord(w, word) = [w EXCEPT !.disk = x]
  <2>1. r.block # NULL /\ r.block \notin Blocks /\ r = AllocateBlock(w.disk, w.file)
        /\ w.disk.fault = "" /\ w.offset = Words /\ ~w.stopped
    BY <1>1, <1>4 DEF Up
  <2> HIDE DEF r, w
  <2> QED BY <2>1 DEF PutWord
<1> HIDE DEF x
<1>3. [w EXCEPT !.disk = x].disk = x
  BY DEF Put
<1> HIDE DEF r
<1> QED BY <1>2, <1>3, <1>4 DEF x

\* The disk with a first word in its new block b, unless the kernel left it.
Begun(D, b, word) == IF D.fault # "" THEN D ELSE Written(D, b, 0, word)

\* For leaves that are not about numbers.
LEMMA OneIs == 0 + 1 = 1
OBVIOUS

\* A word goes to the block given next.
LEMMA PutGrows ==
    ASSUME NEW D, NEW f, NEW B, NEW K, NEW word, Up(D), NEW e, NEW b, Gives(D, f, e, b),
           b \in Blocks
    PROVE  PutWord(Put(D, f, B, Words, K), word) = Put(Begun(e, b, word), f, b, 1, K + 1)
<1> DEFINE w == Put(D, f, B, Words, K)
           r == AllocateBlock(D, f)
           X == Begun(r.disk, r.block, word)
<1>1. b # NULL
  BY BlocksFinite
<1>5. r.disk = e /\ r.block = b
  BY DEF Gives
<1>2. /\ w.disk = D /\ w.file = f /\ w.block = B /\ w.offset = Words /\ w.done = K
      /\ ~w.stopped
  BY DEF Put
<1>3. X = IF r.disk.fault # "" THEN r.disk ELSE [r.disk EXCEPT !.space[r.block][0] = word]
  BY DEF Written, Begun
<1>4. PutWord(w, word) = [w EXCEPT !.disk = X, !.block = r.block, !.offset = 0 + 1,
                                   !.done = K + 1]
  <2>1. r.block # NULL /\ r.block \in Blocks /\ r = AllocateBlock(w.disk, w.file)
        /\ w.disk.fault = "" /\ w.offset = Words /\ ~w.stopped /\ w.done = K
    BY <1>1, <1>2, <1>5 DEF Up
  <2> HIDE DEF r, w, X
  <2> QED BY <1>3, <2>1 DEF PutWord
<1>6. X = Begun(e, b, word)
  BY <1>5, Zenon
<1> HIDE DEF X, r
<1>7. PutWord(w, word) = Put(X, f, r.block, 1, K + 1)
  BY <1>4, OneIs, Zenon DEF Put
<1> HIDE DEF w
<1>8. PutWord(w, word) = Put(Begun(e, b, word), f, b, 1, K + 1)
  BY <1>5, <1>6, <1>7
<1> QED BY <1>8 DEF w

\* The state after k words of a write at pos, the end of file f on disk d: the
\* file on disk D has n data blocks, the words go to the last one.
At(d, t, f, pos, n, D, u, O, K) ==
    /\ n \in 1 .. Capacity /\ O \in 0 .. Words /\ K \in Nat
    /\ Grown(D, u, f, n) /\ Extends(d, t, D, u, f) /\ Holds(D, u, f, pos + K)
    /\ (n - 1) * Words + O = pos + K

Going(w, d, t, f, pos, k) == \E n, D, u, O, K :
    /\ At(d, t, f, pos, n, D, u, O, K)
    /\ \/ w = Put(D, f, u[f][n - 1], O, K) /\ K = k /\ (O = 0 => K = 0)
       \/ w = Halt(D, f, u[f][n - 1], O, K) /\ O # 0

\* One more word of a write in order: it is where it belongs, or the kernel is at
\* an edge.
LEMMA PutGoing ==
    ASSUME NEW w, NEW d, NEW t, NEW f \in Files, NEW pos \in Nat, NEW k \in Nat,
           Going(w, d, t, f, pos, k), NEW word, word = Data(f, pos + k)
    PROVE  Going(PutWord(w, word), d, t, f, pos, k + 1) \/ AtEdge(PutWord(w, word).disk, f)
<1>1. PICK n, D, u, O, K :
          /\ At(d, t, f, pos, n, D, u, O, K)
          /\ \/ w = Put(D, f, u[f][n - 1], O, K) /\ K = k /\ (O = 0 => K = 0)
             \/ w = Halt(D, f, u[f][n - 1], O, K) /\ O # 0
  BY Zenon DEF Going
<1> DEFINE B == u[f][n - 1]
           r == AllocateBlock(D, f)
           v == PutWord(w, word)
           base == (n - 1) * Words
<1>2. /\ Grown(D, u, f, n) /\ Extends(d, t, D, u, f) /\ Holds(D, u, f, pos + K)
      /\ base + O = pos + K /\ n \in 1 .. Capacity /\ O \in 0 .. Words /\ K \in Nat
  BY <1>1 DEF At
<1>3. D \in Disks /\ D.fault = "" /\ r = AllocateBlock(D, f)
  BY <1>2 DEF Grown, Sane
<1>4. base \in Nat /\ n \in Nat /\ n - 1 \in Nat /\ Words \in Nat /\ Words > 0
  <2>1. \A j \in Nat : j * Words \in Nat
    BY Sizes
  <2>2. n \in Nat /\ n - 1 \in Nat
    BY <1>2
  <2> QED BY <2>1, <2>2, Sizes
<1>8. v = PutWord(w, word)
  OBVIOUS
<1> HIDE DEF B, r, v, base
<1>5. CASE w = Halt(D, f, B, O, K) /\ O # 0
  <2>1. w.stopped
    BY <1>5 DEF Halt
  <2>2. v = w
    BY <1>8, <2>1, PutStays
  <2>3. v = Halt(D, f, u[f][n - 1], O, K) /\ O # 0
    BY <1>5, <2>2 DEF B
  <2>4. Going(v, d, t, f, pos, k + 1)
    BY <1>1, <2>3, Zenon DEF Going
  <2> QED BY <1>8, <2>4
<1>6. CASE w = Put(D, f, B, O, K) /\ K = k /\ O # Words
  <2>1. O \in Index /\ O + 1 \in 0 .. Words /\ O + 1 # 0 /\ O \in Nat /\ K + 1 \in Nat
        /\ K + 1 = k + 1
    BY <1>2, <1>4, <1>6 DEF Index
  <2> DEFINE e == Written(D, B, O, word)
  <2>2. /\ Grown(e, u, f, n) /\ Extends(D, u, e, u, f) /\ Holds(e, u, f, pos + K + 1)
        /\ B \in Blocks
    <3>1. pos + K = (n - 1) * Words + O /\ B = u[f][n - 1] /\ e = Written(D, B, O, Data(f, pos + K))
      BY <1>2, <1>6 DEF B, base
    <3> HIDE DEF e
    <3> QED BY <1>2, <2>1, <3>1, WriteWord
  <2>3. v = Put(e, f, B, O + 1, K + 1)
    <3>1. Up(D) /\ O # Words /\ B \in Blocks /\ w = Put(D, f, B, O, K)
      BY <1>3, <1>6, <2>2 DEF Up
    <3>2. PutWord(Put(D, f, B, O, K), word) = Put(e, f, B, O + 1, K + 1)
      BY <3>1, PutNext
    <3> QED BY <1>8, <3>1, <3>2
  <2> HIDE DEF e
  <2>4. Extends(d, t, e, u, f)
    BY <1>2, <2>2, ExtendsTransitive
  <2>5. (n - 1) * Words + (O + 1) = pos + (K + 1) /\ pos + K + 1 = pos + (K + 1)
    BY <1>2, <1>4, <2>1 DEF base
  <2>6. Holds(e, u, f, pos + (K + 1))
    BY <2>2, <2>5
  <2>7. At(d, t, f, pos, n, e, u, O + 1, K + 1)
    BY <1>2, <2>1, <2>2, <2>4, <2>5, <2>6 DEF At
  <2>8. v = Put(e, f, u[f][n - 1], O + 1, K + 1) /\ (O + 1 = 0 => K + 1 = 0)
    BY <2>1, <2>3 DEF B
  <2>9. Going(v, d, t, f, pos, k + 1)
    BY <2>1, <2>7, <2>8, Zenon DEF Going
  <2> QED BY <1>8, <2>9
<1>7. CASE w = Put(D, f, B, O, K) /\ K = k /\ O = Words
  <2>1. O # 0 /\ O \in Nat
    BY <1>4, <1>7
  <2>2. Allocated(D, u, f, n, r)
    BY <1>2, <1>4, AllocateLemma DEF r
  <2>3. Up(D) /\ Gives(D, f, r.disk, r.block)
    BY <1>3 DEF Up, Gives
  <2> DEFINE E == r.disk
             b == r.block
  <2>4. Up(D) /\ Gives(D, f, E, b)
    BY <2>3
  <2>5. w = Put(D, f, B, Words, K)
    BY <1>7
  <2>6. CASE b = NULL
    <3>1. Gives(D, f, E, NULL)
      BY <2>4, <2>6
    <3> HIDE DEF E, b
    <3>2. PutWord(Put(D, f, B, Words, K), word) = Halt(D, f, B, Words, K)
      BY <2>4, <3>1, PutStops
    <3>3. v = Halt(D, f, u[f][n - 1], O, K)
      BY <1>7, <1>8, <2>5, <3>2 DEF B
    <3>4. Going(v, d, t, f, pos, k + 1)
      BY <1>1, <2>1, <3>3, Zenon DEF Going
    <3> QED BY <1>8, <3>4
  <2>7. CASE AtEdge(E, f) /\ b # NULL
    <3>1. E \in Disks /\ E.fault # ""
      BY <2>7 DEF AtEdge
    <3>2. CASE b \in Blocks
      <4> HIDE DEF E, b
      <4>1. PutWord(Put(D, f, B, Words, K), word) = Put(Begun(E, b, word), f, b, 1, K + 1)
        BY <2>4, <3>2, PutGrows
      <4>2. Begun(E, b, word) = E
        BY <3>1 DEF Begun
      <4>3. v = Put(E, f, b, 1, K + 1)
        BY <1>8, <2>5, <4>1, <4>2
      <4>4. v.disk = E
        BY <4>3 DEF Put
      <4> QED BY <1>8, <2>7, <4>4
    <3>3. CASE b \notin Blocks
      <4> HIDE DEF E, b
      <4>1. PutWord(Put(D, f, B, Words, K), word).disk = Fault(E, "write")
        BY <2>4, <2>7, <3>3, PutFalls
      <4>2. v.disk = Fault(E, "write")
        BY <1>8, <2>5, <4>1
      <4>3. /\ v.disk \in Disks /\ v.disk.fault # "" /\ v.disk.inode = E.inode
            /\ v.disk.freeBlock_number = E.freeBlock_number
        BY <3>1, <4>2 DEF Fault, Disks
      <4>4. AtEdge(v.disk, f)
        BY <2>7, <4>3 DEF AtEdge
      <4> QED BY <1>8, <4>4
    <3> QED BY <3>2, <3>3
  <2>8. CASE Grew(D, u, f, n, r) /\ b # NULL
    <3>1. PICK s : Grown(E, s, f, n + 1) /\ Extends(D, u, E, s, f) /\ b = s[f][n]
      BY <2>8 DEF Grew
    <3> HIDE DEF E, b
    <3> DEFINE e == Written(E, b, 0, word)
    <3>2. n + 1 \in 1 .. Capacity /\ n + 1 - 1 = n /\ n * Words = base + Words /\ 0 \in Index
      <4>1. n + 1 <= Capacity
        BY <3>1 DEF Grown, Fills
      <4>2. n * Words = base + Words
        <5>1. \A j \in Nat : j * Words + Words = (j + 1) * Words
          BY <1>4
        <5>2. n - 1 + 1 = n
          BY <1>4
        <5> QED BY <1>4, <5>1, <5>2 DEF base
      <4> QED BY <1>4, <4>1, <4>2, Sizes DEF Index
    <3>3. pos + K = (n + 1 - 1) * Words + 0 /\ pos + K = n * Words
      BY <1>2, <1>4, <1>7, <3>2
    <3>4. Holds(E, s, f, pos + K)
      <4>1. pos + K \in 0 .. max_file_size
        <5>1. n <= Capacity
          BY <1>2, <1>4
        <5>2. n * Words <= Capacity * Words
          BY <1>4, <5>1, Sizes, Multiples
        <5>3. n * Words \in Nat
          BY <1>4, <3>2
        <5> HIDE DEF max_file_size
        <5> QED BY <3>3, <5>2, <5>3, Sizes
      <4> QED BY <1>2, <3>1, <4>1 DEF Extends
    <3>5. /\ Grown(e, s, f, n + 1) /\ Extends(E, s, e, s, f) /\ Holds(e, s, f, pos + K + 1)
          /\ b \in Blocks
      <4> DEFINE m == n + 1
      <4>1. /\ b = s[f][m - 1] /\ e = Written(E, b, 0, Data(f, pos + K)) /\ m \in 1 .. Capacity
            /\ pos + K = (m - 1) * Words + 0
        <5>5. K = k
          BY <1>7, Zenon
        <5>6. n + 1 - 1 = n /\ n + 1 \in 1 .. Capacity /\ pos + K = (n + 1 - 1) * Words + 0
          BY <3>2, <3>3
        <5>7. n \in Nat /\ K \in Nat /\ Words \in Nat /\ base \in Nat
          BY <1>2, <1>4
        <5>1. pos + K = pos + k /\ m - 1 = n
          BY <5>5, <5>7
        <5>2. b = s[f][m - 1]
          BY <3>1, <5>1
        <5>3. e = Written(E, b, 0, Data(f, pos + K))
          BY <5>1, Zenon
        <5>4. m \in 1 .. Capacity /\ pos + K = (m - 1) * Words + 0
          BY <5>6, <5>7
        <5> QED BY <5>2, <5>3, <5>4
      <4>2. Grown(E, s, f, m)
        BY <3>1
      <4> HIDE DEF e, m
      <4>3. /\ Grown(e, s, f, m) /\ Extends(E, s, e, s, f) /\ Holds(e, s, f, pos + K + 1)
            /\ b \in Blocks
        BY <3>2, <3>4, <4>1, <4>2, WriteWord
      <4> QED BY <4>3 DEF m
    <3>6. v = Put(e, f, b, 1, K + 1)
      <4>1. E.fault = ""
        BY <3>1 DEF Grown
      <4>2. Begun(E, b, word) = e
        BY <4>1 DEF Begun
      <4> HIDE DEF e
      <4>3. PutWord(Put(D, f, B, Words, K), word) = Put(Begun(E, b, word), f, b, 1, K + 1)
        BY <2>4, <3>5, PutGrows
      <4> QED BY <1>8, <2>5, <4>2, <4>3
    <3> HIDE DEF e
    <3>7. Extends(d, t, e, s, f)
      <4>1. Extends(d, t, E, s, f)
        BY <1>2, <3>1, ExtendsTransitive
      <4> QED BY <3>5, <4>1, ExtendsTransitive
    <3>8. /\ (n + 1 - 1) * Words + 1 = pos + (K + 1) /\ pos + K + 1 = pos + (K + 1)
          /\ K + 1 \in Nat /\ K + 1 = k + 1 /\ 1 \in 0 .. Words /\ 1 # 0
      <4>1. n * Words \in Nat
        BY <1>4, <3>2
      <4> QED BY <1>2, <1>4, <1>7, <3>2, <3>3, <4>1
    <3>9. v = Put(e, f, s[f][n + 1 - 1], 1, K + 1) /\ (1 = 0 => K + 1 = 0)
      BY <3>1, <3>2, <3>6
    <3>10. Holds(e, s, f, pos + (K + 1))
      BY <3>5, <3>8
    <3> DEFINE m == n + 1
               L == K + 1
               one == 1
    <3>11. At(d, t, f, pos, m, e, s, one, L)
      <4>1. /\ m \in 1 .. Capacity /\ one \in 0 .. Words /\ L \in Nat
            /\ Grown(e, s, f, m) /\ Extends(d, t, e, s, f) /\ Holds(e, s, f, pos + L)
            /\ (m - 1) * Words + one = pos + L
        <5>1. m \in 1 .. Capacity /\ one \in 0 .. Words /\ L \in Nat
          BY <3>2, <3>8, Zenon
        <5>2. (m - 1) * Words + one = pos + L
          <6>1. /\ (n + 1 - 1) * Words + 1 = pos + (K + 1)
                /\ n \in Nat /\ K \in Nat /\ Words \in Nat
            BY <1>2, <1>4, <3>8
          <6> QED BY <6>1
        <5>3. Grown(e, s, f, m) /\ Extends(d, t, e, s, f) /\ Holds(e, s, f, pos + L)
          BY <3>5, <3>7, <3>10, Zenon
        <5> QED BY <5>1, <5>2, <5>3
      <4> HIDE DEF m, L, one
      <4> QED BY <4>1, Zenon DEF At
    <3>12. /\ v = Put(e, f, s[f][m - 1], one, L) /\ L = k + 1
           /\ (one = 0 => L = 0)
      <4>1. K + 1 = k + 1 /\ v = Put(e, f, s[f][n + 1 - 1], 1, K + 1) /\ ~(1 = 0)
        BY <3>8, <3>9
      <4>2. n \in Nat /\ K \in Nat
        BY <1>2, <1>4
      <4>3. L = k + 1 /\ (one = 0 => L = 0)
        BY <4>1, <4>2
      <4>4. s[f][m - 1] = s[f][n + 1 - 1] /\ L = K + 1 /\ one = 1
        BY <4>2
      <4> HIDE DEF m, L, one
      <4> QED BY <4>1, <4>3, <4>4
    <3> HIDE DEF m, L, one
    <3>13. Going(v, d, t, f, pos, k + 1)
      BY <3>11, <3>12, Zenon DEF Going
    <3> QED BY <1>8, <3>13
  <2> QED BY <2>2, <2>6, <2>7, <2>8 DEF Allocated
<1> QED BY <1>1, <1>5, <1>6, <1>7 DEF B

\* All words of a write.
LEMMA PutAll ==
    ASSUME NEW w, NEW d, NEW t, NEW f \in Files, NEW pos \in Nat, NEW n \in Nat,
           Going(w, d, t, f, pos, 0),
           NEW words, words = [i \in 1 .. n |-> Data(f, pos + i - 1)]
    PROVE  Going(PutWords(w, words), d, t, f, pos, n) \/ AtEdge(PutWords(w, words).disk, f)
<1> DEFINE x == [kind |-> "words"]
<1>1. PICK tr : Trace(tr, x, w, words, n) /\ FoldOf(x, w, words) = tr[n]
  <2>1. DOMAIN words = 1 .. n
    OBVIOUS
  <2> QED BY <2>1, FoldTrace
<1>2. PutWords(w, words) = tr[n]
  BY <1>1 DEF FoldOf, PutWords
<1>3. tr[0] = w /\ \A k \in 1 .. n : tr[k] = PutWord(tr[k - 1], words[k])
  BY <1>1 DEF Trace, Turn
<1> DEFINE P == {k \in 0 .. n : Going(tr[k], d, t, f, pos, k) \/ AtEdge(tr[k].disk, f)}
<1>4. 0 \in P
  BY <1>3
<1>5. ASSUME NEW k \in 0 .. n - 1, k \in P PROVE k + 1 \in P
  <2>1. /\ k \in Nat /\ k + 1 \in 1 .. n /\ k + 1 \in 0 .. n /\ k + 1 - 1 = k
        /\ pos + (k + 1) - 1 = pos + k
    OBVIOUS
  <2>2. words[k + 1] = Data(f, pos + k)
    BY <2>1
  <2>3. tr[k + 1] = PutWord(tr[k], words[k + 1])
    BY <1>3, <2>1
  <2>4. CASE Going(tr[k], d, t, f, pos, k)
    BY <2>1, <2>2, <2>3, <2>4, PutGoing
  <2>5. CASE AtEdge(tr[k].disk, f)
    <3>1. tr[k].disk.fault # ""
      BY <2>5 DEF AtEdge
    <3>2. tr[k + 1] = tr[k]
      BY <2>3, <3>1 DEF PutWord
    <3> QED BY <2>1, <2>5, <3>2
  <2> QED BY <1>5, <2>4, <2>5
<1>6. \A k \in 0 .. n : k \in P
  <2> HIDE DEF P
  <2> QED BY <1>4, <1>5, Upwards
<1> QED BY <1>2, <1>6

\* The data blocks of a file of that many words.
BlocksOf(size) == IF size % Words = 0 THEN size \div Words ELSE size \div Words + 1

\* File f is all on the disk, and its inode says what it has.
GoodFile(d, t, f) ==
    /\ d.inode[f].size \in 0 .. max_file_size
    /\ Holds(d, t, f, d.inode[f].size) /\ Fills(t, f, BlocksOf(d.inode[f].size))
    /\ d.inode[f].operation =>
          d.inode[f].block_number = IF d.inode[f].size = 0 THEN -1
                                    ELSE d.inode[f].size \div Words
    /\ ~d.inode[f].operation => d.inode[f].size = 0 /\ d.inode[f].block_number = 0

\* The disk as calls leave it, as long as no write is out of order.
Good(d, t) ==
    /\ Sane(d) /\ d.fault = "" /\ Sound(d, t)
    /\ \A f \in Files : GoodFile(d, t, f)

\* The blocks of a file of q * Words + r words.
LEMMA BlocksLemma ==
    /\ BlocksOf(0) = 0 /\ 0 \div Words = 0 /\ 0 % Words = 0
    /\ \A n \in Nat : n % Words # 0 => BlocksOf(n) = n \div Words + 1
    /\ \A q \in Nat \ {0} : \A r \in 1 .. Words : \A m : m = (q - 1) * Words + r =>
          BlocksOf(m) = q /\ m \div Words \in {q - 1, q} /\ m % Words \in Index
<1>1. BlocksOf(0) = 0 /\ 0 \div Words = 0 /\ 0 % Words = 0
  <2>1. 0 = 0 * Words + 0 /\ 0 \in Index /\ 0 \in Nat
    BY Sizes DEF Index
  <2>2. 0 = 0 \div Words /\ 0 = 0 % Words
    BY <2>1, DivMod
  <2> QED BY <2>2 DEF BlocksOf
<1>2. ASSUME NEW q \in Nat \ {0}, NEW r \in 1 .. Words, NEW m, m = (q - 1) * Words + r
      PROVE  BlocksOf(m) = q /\ m \div Words \in {q - 1, q} /\ m % Words \in Index
  <2> DEFINE a == (q - 1) * Words
  <2>1. a \in Nat /\ q - 1 \in Nat /\ Words \in Nat /\ Words > 0 /\ r \in Nat /\ q \in Nat
        /\ a + Words = q * Words
    <3>1. \A j \in Nat : j * Words \in Nat
      BY Sizes
    <3>2. q - 1 \in Nat /\ Words \in Nat /\ Words > 0 /\ r \in Nat /\ q \in Nat
      BY Sizes
    <3>3. \A j \in Nat : j * Words + Words = (j + 1) * Words
      BY <3>2
    <3>4. q - 1 + 1 = q
      BY <3>2
    <3> QED BY <3>1, <3>2, <3>3, <3>4
  <2> HIDE DEF a
  <2>2. m = a + r /\ m \in Nat
    BY <1>2, <2>1 DEF a
  <2>3. CASE r = Words
    <3>1. m = q * Words + 0 /\ 0 \in Index
      BY <2>1, <2>2, <2>3 DEF Index
    <3>2. m \div Words = q /\ m % Words = 0
      BY <2>1, <2>2, <3>1, DivMod
    <3> QED BY <3>1, <3>2 DEF BlocksOf
  <2>4. CASE r # Words
    <3>1. m = (q - 1) * Words + r /\ r \in Index /\ r # 0
      BY <1>2, <2>1, <2>4 DEF Index
    <3>2. m \div Words = q - 1 /\ m % Words = r
      BY <2>1, <2>2, <3>1, DivMod
    <3>3. q - 1 + 1 = q
      BY <2>1
    <3> QED BY <3>1, <3>2, <3>3 DEF BlocksOf
  <2> QED BY <2>3, <2>4
<1> QED BY <1>1, <1>2 DEF BlocksOf

\* The parts of write_file: the first block of the file, where the write begins,
\* and what is done when the words are written.
FirstBlock(d, f) ==
    IF d.inode[f].location[0] = NULL THEN AllocateBlock(d, f)
    ELSE [disk |-> d, block |-> d.inode[f].location[0]]

Opens(d, f, pos, e, b) ==
    /\ FirstBlock(d, f).block # NULL
    /\ WriteStart(FirstBlock(d, f).disk, f, pos).disk = e
    /\ WriteStart(FirstBlock(d, f).disk, f, pos).block = b

Finished(end, f) ==
    IF end.disk.fault # "" THEN [disk |-> end.disk, ret |-> -1]
    ELSE [disk |-> Sized(end.disk, f, end.disk.inode[f].size + end.done), ret |-> end.done]

\* write_file is its first block, its start, its words and its end, one after the
\* other.
LEMMA WriteIs ==
    ASSUME NEW d, NEW f, NEW pos, NEW words, NEW e, NEW b, Opens(d, f, pos, e, b)
    PROVE  WriteFile(d, f, pos, words) =
               Finished(PutWords(Put(e, f, b, pos % Words, 0), words), f)
<1> DEFINE first == FirstBlock(d, f)
           start == WriteStart(first.disk, f, pos)
           end == PutWords(Put(start.disk, f, start.block, pos % Words, 0), words)
<1>1. first.block # NULL /\ start.disk = e /\ start.block = b
  BY DEF Opens
<1>2. WriteFile(d, f, pos, words) = IF first.block = NULL THEN [disk |-> d, ret |-> -1]
                                    ELSE Finished(end, f)
  BY DEF WriteFile, Put, FirstBlock, Finished
<1>3. end = PutWords(Put(e, f, b, pos % Words, 0), words)
  BY <1>1
<1> HIDE DEF first, end
<1> QED BY <1>1, <1>2, <1>3

\* With no first block nothing is written.
LEMMA WriteFails ==
    ASSUME NEW d, NEW f, NEW pos, NEW words, FirstBlock(d, f).block = NULL
    PROVE  WriteFile(d, f, pos, words) = [disk |-> d, ret |-> -1]
BY DEF WriteFile, FirstBlock

\* What write_file leaves in the inode.
LEMMA SizedLemma ==
    ASSUME NEW d \in Disks, NEW f \in Files, NEW size \in Nat
    PROVE  /\ Sized(d, f, size) \in Disks
           /\ \A g \in Files : g # f => Sized(d, f, size).inode[g] = d.inode[g]
           /\ Sized(d, f, size).inode[f].location = d.inode[f].location
           /\ Sized(d, f, size).inode[f].operation = d.inode[f].operation
           /\ Sized(d, f, size).inode[f].size = size
           /\ Sized(d, f, size).inode[f].block_number = size \div Words
           /\ Sized(d, f, size).freeBlock_number = d.freeBlock_number
           /\ Sized(d, f, size).index = d.index
           /\ Sized(d, f, size).fault = d.fault
           /\ Sized(d, f, size).space = d.space
<1> DEFINE q == size \div Words
           r == size % Words
           x == [d.inode[f] EXCEPT !.size = size, !.block_number = q, !.last_block_offset = r]
           y == [d.inode EXCEPT ![f] = x]
<1>1. q \in Int /\ r \in Index
  BY DivMod
<1>2. Sized(d, f, size) = [d EXCEPT !.inode[f] =
          [d.inode[f] EXCEPT !.size = size, !.block_number = q, !.last_block_offset = r]]
  BY DEF Sized, BlockNumberAfter, Disks
<1>3. Sized(d, f, size) = [d EXCEPT !.inode = y]
  BY <1>2 DEF Disks
<1>4. q = size \div Words
  OBVIOUS
<1> HIDE DEF q, r
<1>5. /\ x \in Inodes /\ x.size = size /\ x.block_number = q
      /\ x.location = d.inode[f].location /\ x.operation = d.inode[f].operation
  BY <1>1 DEF Disks, Inodes
<1> HIDE DEF x
<1>6. y \in [Files -> Inodes] /\ y[f] = x /\ \A g \in Files : g # f => y[g] = d.inode[g]
  BY <1>5 DEF Disks
<1> HIDE DEF y
<1>7. /\ [d EXCEPT !.inode = y] \in Disks
      /\ [d EXCEPT !.inode = y].inode = y
      /\ [d EXCEPT !.inode = y].freeBlock_number = d.freeBlock_number
      /\ [d EXCEPT !.inode = y].index = d.index
      /\ [d EXCEPT !.inode = y].fault = d.fault
      /\ [d EXCEPT !.inode = y].space = d.space
  BY <1>6 DEF Disks
<1> QED BY <1>3, <1>4, <1>5, <1>6, <1>7

\* From d and t to e and u a call on file f has kept what other files have.
Kept(d, t, e, u, f) ==
    /\ \A g \in Files : g # f => e.inode[g] = d.inode[g] /\ u[g] = t[g]
    /\ Lost(e, u) \subseteq Lost(d, t)

\* There file f has m words.
Ends(d, t, f, m, e, u) ==
    /\ e.inode[f].size = m /\ e.inode[f].operation /\ Good(e, u) /\ Kept(d, t, e, u, f)

\* What a write in order comes to: nothing, words at the end of the file, or the
\* edge of the disk.
Appended(d, t, f, pos, w) ==
    \/ w.disk = d /\ w.ret = -1
    \/ AtEdge(w.disk, f)
    \/ w.ret \in Nat /\ \E u : Ends(d, t, f, pos + w.ret, w.disk, u)

\* File f is open for a write at its end.
Ready(d, t, f, pos) == Good(d, t) /\ d.inode[f].operation /\ pos = d.inode[f].size

\* The words are written: the inode is brought up to date.
LEMMA AppendEnds ==
    ASSUME NEW d, NEW t, NEW f \in Files, NEW pos, Ready(d, t, f, pos),
           NEW n, NEW D, NEW u, NEW O, NEW K, At(d, t, f, pos, n, D, u, O, K), O # 0,
           NEW e, e = Sized(D, f, pos + K)
    PROVE  Ends(d, t, f, pos + K, e, u)
<1> USE DEF Ready
<1> DEFINE m == pos + K
<1>1. /\ n \in 1 .. Capacity /\ O \in 1 .. Words /\ K \in Nat /\ (n - 1) * Words + O = m
      /\ n \in Nat \ {0} /\ n <= Capacity
  <2>1. n \in 1 .. Capacity /\ O \in 0 .. Words /\ K \in Nat /\ (n - 1) * Words + O = pos + K
    BY DEF At
  <2>2. n \in Nat \ {0} /\ n <= Capacity /\ O \in 1 .. Words
    BY <2>1, Sizes
  <2> QED BY <2>1, <2>2
<1>2. /\ Sane(D) /\ D.fault = "" /\ Sound(D, u) /\ D.inode[f].operation /\ Fills(u, f, n)
      /\ Extends(d, t, D, u, f) /\ Holds(D, u, f, m)
  BY DEF At, Grown
<1>3. pos \in 0 .. max_file_size /\ pos \in Nat
  <2>1. pos \in 0 .. max_file_size
    BY Zenon DEF Good, GoodFile
  <2> QED BY <2>1
<1>4. m \in Nat
  BY <1>1, <1>3
<1>5. m <= max_file_size
  <2> DEFINE a == (n - 1) * Words
             b == n * Words
             c == Capacity * Words
  <2>1. /\ a \in Nat /\ b \in Nat /\ a + Words = b /\ b <= c /\ c = max_file_size /\ c \in Nat
        /\ Words \in Nat
    <3>1. n - 1 \in Nat /\ n - 1 + 1 = n
      BY <1>1
    <3>2. \A j \in Nat : j * Words \in Nat /\ j * Words + Words = (j + 1) * Words
      BY Sizes
    <3>3. b <= c
      BY <1>1, Sizes, Multiples
    <3> QED BY <1>1, <3>1, <3>2, <3>3, Sizes
  <2>2. a + O = m
    BY <1>1
  <2> HIDE DEF a, b, c, m, max_file_size
  <2> QED BY <1>1, <2>1, <2>2
<1> HIDE DEF m
<1>6. /\ BlocksOf(m) = n /\ m # 0 /\ m \in 0 .. max_file_size
  <2>1. BlocksOf(m) = n
    BY <1>1, BlocksLemma
  <2>2. (n - 1) * Words \in Nat
    <3>1. n - 1 \in Nat
      BY <1>1
    <3> QED BY <3>1, Sizes
  <2>3. m # 0
    BY <1>1, <2>2
  <2> QED BY <1>4, <1>5, <2>1, <2>3, Sizes
<1>7. e = Sized(D, f, m)
  BY DEF m
<1>8. /\ e \in Disks
      /\ \A g \in Files : g # f => e.inode[g] = D.inode[g]
      /\ e.inode[f].location = D.inode[f].location
      /\ e.inode[f].operation = D.inode[f].operation
      /\ e.inode[f].size = m
      /\ e.inode[f].block_number = m \div Words
      /\ e.freeBlock_number = D.freeBlock_number
      /\ e.index = D.index /\ e.fault = D.fault /\ e.space = D.space
  <2>1. D \in Disks
    BY <1>2 DEF Sane
  <2> QED BY <1>4, <1>7, <2>1, SizedLemma
<1>9. Sane(e) /\ e.fault = ""
  BY <1>2, <1>8 DEF Sane
<1>10. Sound(e, u) /\ \A g \in Files : \A k : Holds(D, u, g, k) => Holds(e, u, g, k)
  <2>1. \A g \in Files : /\ e.inode[g].operation = D.inode[g].operation
                         /\ e.inode[g].location = D.inode[g].location
    BY <1>8
  <2> QED BY <1>2, <1>8, <2>1, SameTrees, ZenonT(40)
<1>11. GoodFile(e, u, f)
  <2>1. Holds(e, u, f, m) /\ Fills(u, f, BlocksOf(m)) /\ e.inode[f].operation
    BY <1>2, <1>6, <1>8, <1>10
  <2> QED BY <1>6, <1>8, <2>1 DEF GoodFile
<1>12. ASSUME NEW g \in Files, g # f PROVE GoodFile(e, u, g)
  <2>1. GoodFile(d, t, g)
    BY DEF Good
  <2>2. e.inode[g] = d.inode[g] /\ u[g] = t[g]
    BY <1>2, <1>8, <1>12 DEF Extends
  <2> DEFINE k == d.inode[g].size
  <2>3. k \in 0 .. max_file_size /\ Holds(d, t, g, k) /\ Fills(t, g, BlocksOf(k))
    BY <2>1 DEF GoodFile
  <2>4. Holds(e, u, g, k)
    BY <1>2, <1>10, <2>3 DEF Extends
  <2>5. Fills(u, g, BlocksOf(k))
    BY <2>2, <2>3 DEF Fills
  <2> QED BY <2>1, <2>2, <2>3, <2>4, <2>5 DEF GoodFile
<1>13. Good(e, u)
  BY <1>9, <1>10, <1>11, <1>12 DEF Good
<1>14. Kept(d, t, e, u, f)
  <2>1. Lost(e, u) = Lost(D, u)
    BY <1>8 DEF Lost
  <2> QED BY <1>2, <1>8, <2>1 DEF Kept, Extends
<1> QED BY <1>2, <1>8, <1>9, <1>13, <1>14 DEF m, Ends

\* From a state of the writing to the end of the write.
LEMMA AppendLemma ==
    ASSUME NEW d, NEW t, NEW f \in Files, NEW pos, Ready(d, t, f, pos), NEW n \in Nat, n # 0,
           NEW w, Going(w, d, t, f, pos, 0),
           NEW words, words = [i \in 1 .. n |-> Data(f, pos + i - 1)],
           NEW end, end = PutWords(w, words),
           NEW x, x = Finished(end, f)
    PROVE  Appended(d, t, f, pos, x)
<1>1. pos \in Nat
  <2>1. pos \in 0 .. max_file_size
    BY Zenon DEF Ready, Good, GoodFile
  <2> QED BY <2>1
<1>2. Going(end, d, t, f, pos, n) \/ AtEdge(end.disk, f)
  BY <1>1, PutAll
<1>3. CASE AtEdge(end.disk, f)
  <2>1. end.disk.fault # ""
    BY <1>3 DEF AtEdge
  <2>2. x.disk = end.disk
    BY <2>1 DEF Finished
  <2> QED BY <1>3, <2>2 DEF Appended
<1>4. CASE Going(end, d, t, f, pos, n)
  <2>1. PICK m, D, u, O, K :
          /\ At(d, t, f, pos, m, D, u, O, K)
          /\ \/ end = Put(D, f, u[f][m - 1], O, K) /\ K = n /\ (O = 0 => K = 0)
             \/ end = Halt(D, f, u[f][m - 1], O, K) /\ O # 0
    BY <1>4, Zenon DEF Going
  <2>2. O # 0
    <3>1. (K = n /\ (O = 0 => K = 0)) \/ O # 0
      BY <2>1, Zenon
    <3> QED BY <3>1
  <2>3. end.disk = D /\ end.done = K
    <3>1. CASE end = Put(D, f, u[f][m - 1], O, K)
      BY <3>1 DEF Put
    <3>2. CASE end = Halt(D, f, u[f][m - 1], O, K)
      BY <3>2 DEF Halt
    <3> QED BY <2>1, <3>1, <3>2
  <2>4. D.fault = "" /\ D.inode[f].size = pos /\ K \in Nat
    BY <2>1 DEF At, Grown, Extends, Ready
  <2> DEFINE e == Sized(D, f, pos + K)
  <2>5. x = [disk |-> e, ret |-> K]
    BY <2>3, <2>4 DEF Finished
  <2>6. e = Sized(D, f, pos + K)
    OBVIOUS
  <2> HIDE DEF e
  <2>7. Ends(d, t, f, pos + K, e, u)
    BY <2>1, <2>2, <2>6, AppendEnds
  <2>8. x.disk = e /\ x.ret = K
    BY <2>5
  <2> QED BY <2>4, <2>7, <2>8 DEF Appended
<1> QED BY <1>2, <1>3, <1>4

\* Data block k of a file is there.
HasAt(d, t, f, k) ==
    t[f][k] # NULL /\ t[f][k] \in Blocks /\ SwitchAddress(d, f, k) = t[f][k]

\* A file that has n data blocks has each block with a number less than that.
LEMMA HasBlock ==
    ASSUME NEW d, NEW t, NEW f \in Files, NEW n \in 1 .. Capacity, Grown(d, t, f, n),
           NEW k \in 0 .. n - 1
    PROVE  HasAt(d, t, f, k)
<1>1. Sound(d, t) /\ d.inode[f].operation /\ Fills(t, f, n)
  BY DEF Grown
<1>2. k \in 0 .. Capacity - 1 /\ k \in Places /\ k < n /\ k >= 0
  BY Sizes DEF Places
<1>3. k \in Filled(n)
  BY <1>2 DEF Filled
<1>4. t[f][k] # NULL
  BY <1>1, <1>2, <1>3 DEF Fills
<1>5. t[f][k] \in Blocks
  BY <1>1, <1>2, <1>4 DEF Sound, Trees
<1>6. SwitchAddress(d, f, k) = t[f][k]
  BY <1>1, <1>2, <1>4, SwitchLemma
<1> QED BY <1>4, <1>5, <1>6 DEF HasAt

\* A file that has a block has a first one.
LEMMA HasFirst ==
    ASSUME NEW d, NEW t, NEW f \in Files, NEW n \in 1 .. Capacity, Grown(d, t, f, n)
    PROVE  d.inode[f].location[0] # NULL
<1>1. Sound(d, t) /\ d.inode[f].operation
  BY DEF Grown
<1>2. 0 \in 0 .. Direct - 1 /\ 0 \in 0 .. n - 1
  BY Sizes
<1>3. d.inode[f].location[0] = t[f][0]
  BY <1>1, <1>2, RootsOf
<1>4. t[f][0] # NULL
  BY <1>2, HasBlock DEF HasAt
<1> QED BY <1>3, <1>4

\* The first words after the start of a write go to data block n - 1.
LEMMA StartGoing ==
    ASSUME NEW d, NEW t, NEW f \in Files, NEW pos \in Nat,
           NEW n \in 1 .. Capacity, NEW D, NEW u, Grown(D, u, f, n), Extends(d, t, D, u, f),
           NEW O \in Index, (n - 1) * Words + O = pos, Holds(D, u, f, pos),
           NEW b, b = u[f][n - 1]
    PROVE  Going(Put(D, f, b, O, 0), d, t, f, pos, 0)
<1>1. /\ n \in 1 .. Capacity /\ O \in 0 .. Words /\ 0 \in Nat /\ pos + 0 = pos
  BY Sizes DEF Index
<1>2. At(d, t, f, pos, n, D, u, O, 0)
  BY <1>1 DEF At
<1>3. Put(D, f, b, O, 0) = Put(D, f, u[f][n - 1], O, 0) /\ 0 = 0 /\ (O = 0 => 0 = 0)
  OBVIOUS
<1> QED BY <1>2, <1>3, Zenon DEF Going

\* Nothing has changed.
LEMMA ExtendsSame ==
    ASSUME NEW d, NEW t, NEW f
    PROVE  Extends(d, t, d, t, f)
BY DEF Extends

\* The file has words, and its last block has room.
LEMMA AppendInside ==
    ASSUME NEW d, NEW t, NEW f \in Files, NEW pos, Ready(d, t, f, pos), pos % Words # 0,
           NEW n \in Nat, n # 0,
           NEW words, words = [i \in 1 .. n |-> Data(f, pos + i - 1)]
    PROVE  Appended(d, t, f, pos, WriteFile(d, f, pos, words))
<1> DEFINE q == pos \div Words
           m == q + 1
           O == pos % Words
<1>1. /\ GoodFile(d, t, f) /\ d.inode[f].operation /\ pos = d.inode[f].size
      /\ Sane(d) /\ d.fault = "" /\ Sound(d, t)
  BY DEF Ready, Good
<1>2. pos \in 0 .. max_file_size
  BY <1>1, Zenon DEF GoodFile
<1>3. pos \in Nat /\ q \in Nat /\ O \in Index /\ pos = q * Words + O /\ pos # 0
  <2>1. pos \in Nat
    BY <1>2
  <2>2. pos # 0
    BY BlocksLemma
  <2> QED BY <2>1, <2>2, DivMod
<1>4. BlocksOf(pos) = m /\ m - 1 = q /\ m >= 1 /\ m \in Nat
  BY <1>3, BlocksLemma
<1> HIDE DEF q, O, m
<1>5. Fills(t, f, m) /\ Holds(d, t, f, pos) /\ d.inode[f].block_number = q
  BY <1>1, <1>3, <1>4 DEF GoodFile, q
<1>6. m \in 1 .. Capacity
  BY <1>4, <1>5, Sizes DEF Fills
<1>7. Grown(d, t, f, m)
  <2>1. q + 1 = m
    BY DEF m
  <2> QED BY <1>1, <1>5, <2>1 DEF Grown
<1> DEFINE b == t[f][q]
<1>8. /\ b # NULL /\ SwitchAddress(d, f, q) = b
      /\ d.inode[f].location[0] # NULL
  <2>1. q \in 0 .. m - 1 /\ 0 \in 0 .. m - 1
    BY <1>3, <1>4
  <2>2. t[f][q] # NULL /\ SwitchAddress(d, f, q) = t[f][q]
    <3>1. q \in 0 .. m - 1
      BY <2>1
    <3>2. HasAt(d, t, f, q)
      BY <1>6, <1>7, <3>1, HasBlock
    <3> QED BY <3>2 DEF HasAt
  <2>3. d.inode[f].location[0] # NULL
    BY <1>6, <1>7, HasFirst
  <2> QED BY <2>2, <2>3, Zenon
<1>9. Opens(d, f, pos, d, b)
  <2> DEFINE first == FirstBlock(d, f)
             start == WriteStart(first.disk, f, pos)
  <2>1. first = [disk |-> d, block |-> d.inode[f].location[0]]
    BY <1>8 DEF FirstBlock
  <2>2. first.block # NULL /\ first.disk = d
    BY <1>8, <2>1
  <2>3. start = [disk |-> d, block |-> b]
    <3>1. b # NULL /\ SwitchAddress(d, f, pos \div Words) = b
      BY <1>8 DEF q
    <3> HIDE DEF b, first
    <3> QED BY <2>2, <3>1 DEF WriteStart
  <2>4. start.disk = d /\ start.block = b
    BY <2>3
  <2> QED BY <2>2, <2>4 DEF Opens
<1> DEFINE w == Put(d, f, b, O, 0)
           end == PutWords(w, words)
           x == Finished(end, f)
<1>14. Going(w, d, t, f, pos, 0)
  <2>1. b = t[f][m - 1] /\ (m - 1) * Words + O = pos
    BY <1>3, <1>4
  <2>2. Extends(d, t, d, t, f)
    BY ExtendsSame
  <2> HIDE DEF b, w
  <2>3. Going(Put(d, f, b, O, 0), d, t, f, pos, 0)
    BY <1>3, <1>5, <1>6, <1>7, <2>1, <2>2, StartGoing
  <2> QED BY <2>3 DEF w
<1> HIDE DEF b
<1>16. WriteFile(d, f, pos, words) = x
  <2>1. WriteFile(d, f, pos, words) =
            Finished(PutWords(Put(d, f, b, pos % Words, 0), words), f)
    BY <1>9, WriteIs
  <2> QED BY <2>1, Zenon DEF O
<1>17. end = PutWords(w, words) /\ x = Finished(end, f)
  OBVIOUS
<1> HIDE DEF w, end, x
<1>18. Appended(d, t, f, pos, x)
  BY <1>14, <1>17, AppendLemma
<1> QED BY <1>16, <1>18

\* The first pointer of an inode.
LEMMA FirstIs ==
    ASSUME NEW d, NEW t, Sound(d, t), NEW f \in Files, d.inode[f].operation
    PROVE  d.inode[f].location[0] = t[f][0]
<1>1. 0 \in 0 .. Direct - 1
  BY Sizes
<1> QED BY <1>1, RootsOf

\* The first block of a file is a direct one: with a block free nothing can go
\* wrong, with none left there is none.
LEMMA FirstLemma ==
    ASSUME NEW d, NEW t, NEW f \in Files, Grown(d, t, f, 0)
    PROVE  LET r == AllocateBlock(d, f) IN
           (r.disk = d /\ r.block = NULL) \/ Grew(d, t, f, 0, r)
<1> DEFINE r == AllocateBlock(d, f)
           e == Numbered(d, f, 0)
           a == NewBlock(d)
<1>1. Sane(d) /\ d \in Disks /\ d.fault = "" /\ d.inode[f].block_number + 1 = 0
  BY DEF Grown, Sane
<1>2. Allocated(d, t, f, 0, r)
  BY AllocateLemma
<1>3. r = IF 0 > max_file_size \div Words \/ ~Enough(d, 0)
          THEN [disk |-> d, block |-> NULL]
          ELSE IF 0 < Direct
          THEN [disk |-> Located(Taken(e), f, 0, a), block |-> a]
          ELSE IF 0 < SingleEnd THEN UnderSingle(e, f, 0)
          ELSE UnderDouble(e, f, 0)
  BY <1>1, AllocateIs
<1>4. ~AtEdge(r.disk, f)
  <2>1. CASE 0 > max_file_size \div Words \/ ~Enough(d, 0)
    <3>1. r = [disk |-> d, block |-> NULL]
      BY <1>3, <2>1
    <3>2. r.disk = d
      BY <3>1
    <3> QED BY <1>1, <3>2 DEF AtEdge
  <2>2. CASE ~(0 > max_file_size \div Words \/ ~Enough(d, 0))
    <3>1. r = [disk |-> Located(Taken(e), f, 0, a), block |-> a]
      BY <1>3, <2>2, Sizes
    <3>2. r.disk = Located(Taken(e), f, 0, a)
      BY <3>1
    <3>3. a \in Blocks
      <4>1. d.freeBlock_number >= 1
        BY <2>2 DEF Enough
      <4> QED BY <1>1, <4>1, TakenLemma
    <3>4. e \in Disks /\ e.fault = "" /\ Sane(e)
      <4>1. /\ e \in Disks /\ e.fault = d.fault /\ e.index = d.index
            /\ e.freeBlock_number = d.freeBlock_number
        <5>1. 0 \in Int
          OBVIOUS
        <5> HIDE DEF a, r
        <5> QED BY <1>1, <5>1, NumberedLemma
      <4> QED BY <1>1, <4>1 DEF Sane
    <3>5. Taken(e) \in Disks /\ Taken(e).fault = ""
      BY <3>4, TakenLemma
    <3>6. 0 \in Slots
      BY Sizes DEF Slots
    <3>7. Located(Taken(e), f, 0, a).fault = Taken(e).fault
      <4> HIDE DEF a, e, r
      <4> DEFINE y == Taken(e)
      <4>1. y \in Disks
        BY <3>5
      <4> HIDE DEF y
      <4>2. Located(y, f, 0, a).fault = y.fault
        BY <3>3, <3>6, <4>1, LocatedLemma
      <4> QED BY <4>2 DEF y
    <3> HIDE DEF a, e, r
    <3>8. r.disk.fault = ""
      BY <3>2, <3>5, <3>7
    <3> QED BY <3>8 DEF AtEdge
  <2> QED BY <2>1, <2>2
<1> QED BY <1>2, <1>4 DEF Allocated

\* The file is empty.
LEMMA AppendFirst ==
    ASSUME NEW d, NEW t, NEW f \in Files, NEW pos, Ready(d, t, f, pos), pos = 0,
           NEW n \in Nat, n # 0,
           NEW words, words = [i \in 1 .. n |-> Data(f, pos + i - 1)]
    PROVE  Appended(d, t, f, pos, WriteFile(d, f, pos, words))
<1>1. /\ GoodFile(d, t, f) /\ d.inode[f].operation /\ pos = d.inode[f].size
      /\ Sane(d) /\ d.fault = "" /\ Sound(d, t)
  BY DEF Ready, Good
<1>2. pos = 0 /\ pos \in Nat /\ BlocksOf(pos) = 0 /\ pos \div Words = 0 /\ pos % Words = 0
  BY BlocksLemma
<1>3. Fills(t, f, 0) /\ Holds(d, t, f, pos) /\ d.inode[f].block_number = -1
  BY <1>1, <1>2 DEF GoodFile
<1>4. Grown(d, t, f, 0)
  <2>1. -1 + 1 = 0
    OBVIOUS
  <2> QED BY <1>1, <1>3, <2>1 DEF Grown
<1>5. d.inode[f].location[0] = NULL
  <2>1. 0 \in 0 .. Direct - 1 /\ 0 \in Places /\ 0 \notin Filled(0)
    BY Sizes DEF Places, Filled, Single, Top
  <2>2. d.inode[f].location[0] = t[f][0]
    BY <1>1, FirstIs
  <2> QED BY <1>3, <2>1, <2>2 DEF Fills
<1> DEFINE r == AllocateBlock(d, f)
<1>6. FirstBlock(d, f) = r
  BY <1>5 DEF FirstBlock
<1>7. (r.disk = d /\ r.block = NULL) \/ Grew(d, t, f, 0, r)
  BY <1>4, FirstLemma
<1> HIDE DEF r
<1>8. CASE r.disk = d /\ r.block = NULL
  <2>1. WriteFile(d, f, pos, words) = [disk |-> d, ret |-> -1]
    BY <1>6, <1>8, WriteFails
  <2> DEFINE x == WriteFile(d, f, pos, words)
  <2>2. x = [disk |-> d, ret |-> -1]
    BY <2>1
  <2> HIDE DEF x
  <2>3. x.disk = d /\ x.ret = -1
    BY <2>2
  <2>4. Appended(d, t, f, pos, x)
    BY <2>3 DEF Appended
  <2> QED BY <2>4 DEF x
<1>9. CASE Grew(d, t, f, 0, r)
  <2> DEFINE e == r.disk
             b == r.block
             one == 1
  <2>1. PICK u : Grown(e, u, f, one) /\ Extends(d, t, e, u, f) /\ b = u[f][0]
    <3>1. 0 + 1 = 1
      OBVIOUS
    <3> QED BY <1>9, <3>1 DEF Grew
  <2>2. one \in 1 .. Capacity /\ one - 1 = 0 /\ (one - 1) * Words + 0 = pos /\ 0 \in Index
        /\ 0 \in 0 .. one - 1
    BY <1>2, Sizes DEF Index
  <2> HIDE DEF e, b, one
  <2>3. b # NULL /\ b \in Blocks /\ SwitchAddress(e, f, 0) = b
    <3>1. HasAt(e, u, f, 0)
      BY <2>1, <2>2, HasBlock
    <3> QED BY <2>1, <3>1 DEF HasAt
  <2>4. Opens(d, f, pos, e, b)
    <3> DEFINE start == WriteStart(e, f, pos)
    <3>1. start = [disk |-> e, block |-> b]
      BY <1>2, <2>3 DEF WriteStart
    <3>2. start.disk = e /\ start.block = b
      BY <3>1
    <3>3. FirstBlock(d, f).disk = e /\ FirstBlock(d, f).block = b
      BY <1>6 DEF e, b
    <3> QED BY <2>3, <3>2, <3>3 DEF Opens
  <2> DEFINE w == Put(e, f, b, 0, 0)
             end == PutWords(w, words)
             x == Finished(end, f)
  <2>5. WriteFile(d, f, pos, words) = x
    <3>1. WriteFile(d, f, pos, words) =
              Finished(PutWords(Put(e, f, b, pos % Words, 0), words), f)
      BY <2>4, WriteIs
    <3> QED BY <1>2, <3>1
  <2>6. Going(w, d, t, f, pos, 0)
    <3>1. b = u[f][one - 1] /\ Holds(e, u, f, pos)
      BY <1>2, <2>1, <2>2 DEF Holds
    <3>2. Going(Put(e, f, b, 0, 0), d, t, f, pos, 0)
      BY <1>2, <2>1, <2>2, <3>1, StartGoing
    <3> QED BY <3>2 DEF w
  <2>7. end = PutWords(w, words) /\ x = Finished(end, f)
    OBVIOUS
  <2> HIDE DEF w, end, x
  <2>8. Appended(d, t, f, pos, x)
    BY <2>6, <2>7, AppendLemma
  <2> QED BY <2>5, <2>8
<1> QED BY <1>7, <1>8, <1>9

\* A write at the end of a file, where that is not a block's edge, or in an
\* empty file.
LEMMA OrderlyWrite ==
    ASSUME NEW d, NEW t, NEW f \in Files, NEW pos, Ready(d, t, f, pos),
           pos % Words = 0 => pos = 0, NEW n \in Nat, n # 0,
           NEW words, words = [i \in 1 .. n |-> Data(f, pos + i - 1)]
    PROVE  Appended(d, t, f, pos, WriteFile(d, f, pos, words))
<1>1. CASE pos % Words # 0
  BY <1>1, AppendInside
<1>2. CASE pos = 0
  BY <1>2, AppendFirst
<1> QED BY <1>1, <1>2

-----------------------------------------------------------------------------
(* write_file, for a write out of order.                                   *)

\* The words of block b lead to blocks of S, nowhere, or off the disk.
Tame(d, S, b) == \A i \in Index : Follow(d, b, i) \in S \cup {NULL, WILD}

\* The last block of file f has number m, its index blocks and the free blocks
\* are in S and lead into S, and the rest of the disk is that of c.
Rough(c, d, f, S, m) ==
    /\ Sane(d) /\ d.fault = "" /\ S \subseteq Blocks /\ d.inode[f].block_number = m
    /\ \A b \in Blocks \ d.index : b \in S /\ Tame(d, S, b)
    /\ d.inode[f].location[Direct] \in S \cup {NULL}
    /\ d.inode[f].location[Direct + 1] \in S \cup {NULL}
    /\ d.inode[f].location[Direct + 1] # NULL => Tame(d, S, d.inode[f].location[Direct + 1])
    /\ d.inode[f].size = c.inode[f].size
    /\ \A g \in Files : g # f => d.inode[g] = c.inode[g]
    /\ \A x \in Blocks : x \notin S => d.space[x] = c.space[x]

\* The kernel has left the disk, or it is as above.
Rougher(c, d, f, S, m) == d \in Disks /\ (d.fault = "" => Rough(c, d, f, S, m))

\* Where a block leads depends on its words.
LEMMA TameSame ==
    ASSUME NEW d, NEW e, NEW S, NEW b, e.space = d.space, Tame(d, S, b)
    PROVE  Tame(e, S, b)
<1> SUFFICES ASSUME NEW i \in Index PROVE Follow(e, b, i) \in S \cup {NULL, WILD}
  BY DEF Tame
<1>1. Follow(d, b, i) \in S \cup {NULL, WILD}
  BY DEF Tame
<1>2. Follow(e, b, i) = Follow(d, b, i)
  BY DEF Follow
<1> QED BY <1>1, <1>2

\* The last block gets another number.
LEMMA RoughNumbered ==
    ASSUME NEW c, NEW d, NEW f \in Files, NEW S, NEW k, Rough(c, d, f, S, k), NEW m \in Int
    PROVE  Rough(c, Numbered(d, f, m), f, S, m)
<1> DEFINE e == Numbered(d, f, m)
<1>1. d \in Disks /\ Sane(d) /\ d.fault = ""
  BY DEF Rough, Sane
<1>2. /\ e \in Disks /\ \A g \in Files : g # f => e.inode[g] = d.inode[g]
      /\ e.inode[f].location = d.inode[f].location /\ e.inode[f].size = d.inode[f].size
      /\ e.inode[f].block_number = m /\ e.freeBlock_number = d.freeBlock_number
      /\ e.index = d.index /\ e.fault = d.fault /\ e.space = d.space
  BY <1>1, NumberedLemma, ZenonT(40)
<1> HIDE DEF e
<1>3. Sane(e) /\ e.fault = ""
  BY <1>1, <1>2 DEF Sane
<1>4. \A b : Tame(d, S, b) => Tame(e, S, b)
  BY <1>2, TameSame
<1>5. Rough(c, e, f, S, m)
  BY <1>2, <1>3, <1>4 DEF Rough
<1> QED BY <1>5 DEF e

\* A free block is taken.
LEMMA RoughTaken ==
    ASSUME NEW c, NEW d, NEW f \in Files, NEW S, NEW m, Rough(c, d, f, S, m),
           d.freeBlock_number >= 1
    PROVE  /\ Rough(c, Taken(d), f, S, m)
           /\ NewBlock(d) \in S /\ NewBlock(d) \in Blocks /\ Tame(d, S, NewBlock(d))
<1> DEFINE e == Taken(d)
           a == NewBlock(d)
<1>1. d \in Disks /\ Sane(d) /\ d.fault = ""
  BY DEF Rough, Sane
<1>2. /\ e.inode = d.inode /\ e.space = d.space /\ e.fault = d.fault /\ Sane(e)
      /\ a \in Blocks /\ a \notin d.index /\ e.index = d.index \cup {a}
  BY <1>1, TakenLemma
<1> HIDE DEF e, a
<1>3. a \in S /\ Tame(d, S, a)
  BY <1>2 DEF Rough
<1>4. \A b : Tame(d, S, b) => Tame(e, S, b)
  BY <1>2, TameSame
<1>5. Rough(c, e, f, S, m)
  BY <1>1, <1>2, <1>4 DEF Rough
<1> QED BY <1>2, <1>3, <1>5 DEF e, a

\* A pointer of the inode is set to a block that leads into S.
LEMMA RoughLocated ==
    ASSUME NEW c, NEW d, NEW f \in Files, NEW S, NEW m, Rough(c, d, f, S, m),
           NEW i \in Slots, NEW a, a \in S, Tame(d, S, a)
    PROVE  Rough(c, Located(d, f, i, a), f, S, m)
<1> DEFINE e == Located(d, f, i, a)
<1>1. d \in Disks /\ Sane(d) /\ d.fault = "" /\ a \in Blocks
  BY DEF Rough, Sane
<1>2. /\ e \in Disks /\ \A g \in Files : g # f => e.inode[g] = d.inode[g]
      /\ \A j \in Slots : e.inode[f].location[j] = IF j = i THEN a ELSE d.inode[f].location[j]
      /\ e.inode[f].size = d.inode[f].size
      /\ e.inode[f].block_number = d.inode[f].block_number
      /\ e.freeBlock_number = d.freeBlock_number
      /\ e.index = d.index /\ e.fault = d.fault /\ e.space = d.space
  <2>0. d \in Disks /\ a \in Blocks
    BY <1>1
  <2>1. e \in Disks /\ \A g \in Files : g # f => e.inode[g] = d.inode[g]
    BY <2>0, LocatedLemma
  <2>2. \A j \in Slots : e.inode[f].location[j] = IF j = i THEN a ELSE d.inode[f].location[j]
    BY <2>0, LocatedLemma
  <2>3. /\ e.inode[f].size = d.inode[f].size
        /\ e.inode[f].block_number = d.inode[f].block_number
    BY <2>0, LocatedLemma
  <2>4. /\ e.freeBlock_number = d.freeBlock_number
        /\ e.index = d.index /\ e.fault = d.fault /\ e.space = d.space
    BY <2>0, LocatedLemma
  <2> QED BY <2>1, <2>2, <2>3, <2>4
<1> HIDE DEF e
<1>3. Sane(e) /\ e.fault = ""
  BY <1>1, <1>2 DEF Sane
<1>4. \A b : Tame(d, S, b) => Tame(e, S, b)
  BY <1>2, TameSame
<1>5. Direct \in Slots /\ Direct + 1 \in Slots
  BY Sizes DEF Slots
<1> DEFINE p == e.inode[f].location[Direct]
           q == e.inode[f].location[Direct + 1]
<1>6. p \in S \cup {NULL} /\ q \in S \cup {NULL} /\ (q # NULL => Tame(e, S, q))
  <2>1. p = a \/ p = d.inode[f].location[Direct]
    BY <1>2, <1>5
  <2>2. q = a \/ q = d.inode[f].location[Direct + 1]
    BY <1>2, <1>5
  <2> HIDE DEF p, q
  <2>3. p \in S \cup {NULL}
    BY <2>1 DEF Rough
  <2>4. q \in S \cup {NULL} /\ (q # NULL => Tame(e, S, q))
    BY <1>4, <2>2 DEF Rough
  <2> QED BY <2>3, <2>4
<1>7. Rough(c, e, f, S, m)
  BY <1>2, <1>3, <1>4, <1>6 DEF Rough
<1> QED BY <1>7 DEF e

\* A word of a block of S is set: to what is no pointer, or to one into S.
LEMMA RoughWord ==
    ASSUME NEW c, NEW d, NEW f \in Files, NEW S, NEW m, Rough(c, d, f, S, m),
           NEW b \in S, NEW i \in Index, NEW w, w.kind # "pointer" \/ w.block \in S,
           NEW e \in Disks, e.inode = d.inode, e.freeBlock_number = d.freeBlock_number,
           e.index = d.index, e.fault = d.fault,
           e.space[b] = [d.space[b] EXCEPT ![i] = w],
           \A x \in Blocks : x # b => e.space[x] = d.space[x]
    PROVE  Rough(c, e, f, S, m)
<1>1. d \in Disks /\ Sane(d) /\ d.fault = "" /\ b \in Blocks /\ S \subseteq Blocks
  BY DEF Rough, Sane
<1>2. Sane(e) /\ e.fault = ""
  BY <1>1 DEF Sane
<1>3. ASSUME NEW x \in Blocks, Tame(d, S, x) PROVE Tame(e, S, x)
  <2> SUFFICES ASSUME NEW k \in Index PROVE Follow(e, x, k) \in S \cup {NULL, WILD}
    BY DEF Tame
  <2>1. Follow(d, x, k) \in S \cup {NULL, WILD}
    BY <1>3 DEF Tame
  <2>2. CASE x = b /\ k = i
    <3>1. e.space[x][k] = w
      BY <1>1, <2>2 DEF Disks
    <3>2. Follow(e, x, k) = IF w.kind = "pointer" THEN w.block
                            ELSE IF w.kind = "zero" THEN NULL ELSE WILD
      BY <3>1, Zenon DEF Follow, Index
    <3> QED BY <3>2
  <2>3. CASE ~(x = b /\ k = i)
    <3>1. e.space[x][k] = d.space[x][k]
      <4>1. x # b => e.space[x] = d.space[x]
        OBVIOUS
      <4>2. x = b => k # i
        BY <2>3
      <4>3. d.space[b] \in [Index -> Word]
        BY <1>1 DEF Disks
      <4>4. x = b => e.space[x][k] = d.space[x][k]
        BY <4>2, <4>3
      <4> QED BY <4>1, <4>4
    <3>2. Follow(e, x, k) = Follow(d, x, k)
      BY <3>1, Zenon DEF Follow
    <3> QED BY <2>1, <3>2
  <2> QED BY <2>2, <2>3
<1>4. \A x \in Blocks \ e.index : x \in S /\ Tame(e, S, x)
  BY <1>3 DEF Rough
<1> DEFINE q == e.inode[f].location[Direct + 1]
<1>5. q \in S \cup {NULL} /\ (q # NULL => Tame(e, S, q))
  BY <1>1, <1>3 DEF Rough
<1>6. \A x \in Blocks : x \notin S => e.space[x] = c.space[x]
  BY DEF Rough
<1> QED BY <1>1, <1>2, <1>4, <1>5, <1>6 DEF Rough

\* A pointer is entered, or the kernel leaves the disk.
LEMMA RoughEnter ==
    ASSUME NEW c, NEW d, NEW f \in Files, NEW S, NEW m, Rougher(c, d, f, S, m),
           NEW b, b \in S \cup {NULL, WILD}, NEW i, NEW a, a \in S \cup {NULL, WILD}
    PROVE  Rougher(c, Enter(d, b, i, a), f, S, m) /\ Enter(d, b, i, a).inode = d.inode
<1> DEFINE e == Enter(d, b, i, a)
<1>1. d \in Disks
  BY DEF Rougher
<1>2. /\ e \in Disks /\ e.inode = d.inode /\ e.freeBlock_number = d.freeBlock_number
      /\ e.index = d.index
  BY <1>1, EnterKeeps
<1>3. CASE b \in Blocks /\ a \in Blocks /\ i \in Index
  <2>1. /\ e.fault = d.fault
        /\ e.space[b] = [d.space[b] EXCEPT ![i] = Pointer(a)]
        /\ \A x \in Blocks : x # b => e.space[x] = d.space[x]
    BY <1>1, <1>3, EnterLemma
  <2> HIDE DEF e
  <2>2. ASSUME e.fault = "" PROVE Rough(c, e, f, S, m)
    <3>1. Rough(c, d, f, S, m)
      BY <2>1, <2>2 DEF Rougher
    <3>2. b \in S /\ a \in S /\ i \in Index
      BY <1>3, BlocksFinite
    <3> DEFINE w == Pointer(a)
    <3>3. w.kind # "pointer" \/ w.block \in S
      BY <3>2 DEF Pointer
    <3>4. e.space[b] = [d.space[b] EXCEPT ![i] = w]
      BY <2>1
    <3> HIDE DEF w
    <3> QED BY <1>2, <2>1, <3>1, <3>2, <3>3, <3>4, RoughWord, SMTT(40)
  <2> QED BY <1>2, <2>2 DEF Rougher, e
<1>4. CASE ~(b \in Blocks /\ a \in Blocks /\ i \in Index)
  <2>1. e.fault = "index"
    BY <1>1, <1>4, EnterFaults
  <2> HIDE DEF e
  <2>2. e.fault # ""
    BY <2>1
  <2> QED BY <1>2, <2>2 DEF Rougher, e
<1> QED BY <1>3, <1>4

\* A pointer that is not a block cannot be entered.
LEMMA WildEnter ==
    ASSUME NEW c, NEW d \in Disks, NEW f, NEW S, NEW m, NEW b, NEW i, NEW a,
           b = WILD \/ a = WILD
    PROVE  Rougher(c, Enter(d, b, i, a), f, S, m)
<1> DEFINE e == Enter(d, b, i, a)
<1>1. ~(b \in Blocks /\ a \in Blocks /\ i \in Index)
  BY BlocksFinite
<1>2. e \in Disks
  BY EnterKeeps
<1>3. e.fault = "index"
  BY <1>1, EnterFaults
<1> HIDE DEF e
<1>4. e.fault # ""
  BY <1>3
<1> QED BY <1>2, <1>4 DEF Rougher, e

\* Whatever allocate_bitmap finds, a disk it is.
LEMMA TakenDisk ==
    ASSUME NEW d \in Disks
    PROVE  Taken(d) \in Disks /\ Taken(d).inode = d.inode /\ Taken(d).space = d.space
<1> DEFINE a == NewBlock(d)
           x == d.index \cup ({a} \ {WILD})
           n == (d.freeBlock_number - 1) % (Largest + 1)
<1>1. a \in Blocks \cup {WILD}
  <2>1. FreeBlocks(d) \in SUBSET Blocks
    BY DEF FreeBlocks
  <2> QED BY <2>1, MinIs DEF NewBlock
<1>2. x \in SUBSET Blocks
  BY <1>1 DEF Disks
<1>3. n \in Int
  <2>1. d.freeBlock_number \in Int
    BY DEF Disks
  <2>2. \A k \in Int : (k - 1) % (Largest + 1) \in Int
    BY LargestIs
  <2> QED BY <2>1, <2>2
<1>4. Taken(d) = [d EXCEPT !.index = x, !.freeBlock_number = n]
  BY DEF Taken
<1> HIDE DEF x, n, a
<1> QED BY <1>2, <1>3, <1>4 DEF Disks

\* What allocate_block gives: with the kernel on the disk still, a block of S.
Gave(c, f, S, m, r) ==
    Rougher(c, r.disk, f, S, m) /\ (r.disk.fault = "" => r.block \in S)

\* A block more is taken, if there is one.
LEMMA RoughSecond ==
    ASSUME NEW c, NEW d, NEW f \in Files, NEW S, NEW m, Rough(c, d, f, S, m)
    PROVE  /\ \/ NewBlock(d) = WILD
              \/ /\ NewBlock(d) \in S /\ Rough(c, Taken(d), f, S, m)
                 /\ Tame(d, S, NewBlock(d))
           /\ Taken(d) \in Disks /\ Taken(d).inode = d.inode /\ Taken(d).space = d.space
<1>1. Sane(d) /\ d \in Disks
  BY DEF Rough, Sane
<1> DEFINE e == Taken(d)
           a == NewBlock(d)
           P == \/ a = WILD
                \/ a \in S /\ Rough(c, e, f, S, m) /\ Tame(d, S, a)
<1>2. ASSUME d.freeBlock_number >= 1 PROVE P
  <2>1. a \in S /\ Rough(c, e, f, S, m) /\ Tame(d, S, a)
    BY <1>2, RoughTaken
  <2> QED BY <2>1
<1>3. ASSUME ~(d.freeBlock_number >= 1) PROVE P
  <2>1. a = WILD
    BY <1>1, <1>3, TakenLemma
  <2> QED BY <2>1
<1>4. Taken(d) \in Disks /\ Taken(d).inode = d.inode /\ Taken(d).space = d.space
  BY <1>1, TakenDisk
<1>5. P
  <2> HIDE DEF P
  <2> QED BY <1>2, <1>3
<1> QED BY <1>4, <1>5

\* A single-indirect block of a write out of order comes from the free ones.
LEMMA RoughSingle ==
    ASSUME NEW c, NEW d, NEW f \in Files, NEW S, NEW m, Rough(c, d, f, S, m),
           d.freeBlock_number >= 1
    PROVE  Gave(c, f, S, m, UnderSingle(d, f, m))
<1> DEFINE loc == d.inode[f].location[Direct]
           a == NewBlock(d)
           d1 == Taken(d)
           b == NewBlock(d1)
           d2 == Taken(d1)
           x == Located(d2, f, Direct, a)
           r == UnderSingle(d, f, m)
<1>1. Rough(c, d1, f, S, m) /\ a \in S /\ a \in Blocks /\ Tame(d, S, a)
  BY RoughTaken
<1>2. loc \in S \cup {NULL} /\ d \in Disks
  BY DEF Rough, Sane
<1>3. d1.space = d.space
  BY <1>2, TakenDisk
<1>4. Direct \in Slots
  BY Sizes DEF Slots
<1>5. CASE loc = NULL
  <2>1. r = [disk |-> Enter(x, a, 0, b), block |-> b]
    BY <1>5 DEF UnderSingle
  <2> DEFINE y == Enter(x, a, 0, b)
  <2>2. r.disk = y /\ r.block = b
    BY <2>1
  <2>3. /\ \/ b = WILD
           \/ b \in S /\ Rough(c, d2, f, S, m)
        /\ d2 \in Disks /\ d2.space = d1.space
    BY <1>1, RoughSecond
  <2>4. CASE b = WILD
    <3>1. x \in Disks
      BY <1>1, <1>4, <2>3, LocatedLemma
    <3>2. Rougher(c, y, f, S, m) /\ y.fault # ""
      <4> HIDE DEF x, b
      <4>1. ~(a \in Blocks /\ b \in Blocks /\ 0 \in Index)
        BY <2>4, BlocksFinite
      <4>2. y.fault = "index"
        BY <3>1, <4>1, EnterFaults
      <4>3. Rougher(c, y, f, S, m)
        BY <2>4, <3>1, WildEnter
      <4> QED BY <4>2, <4>3
    <3> HIDE DEF r, y
    <3> QED BY <2>2, <3>2 DEF Gave, r
  <2>5. CASE b \in S /\ Rough(c, d2, f, S, m)
    <3>1. Tame(d2, S, a)
      BY <1>1, <1>3, <2>3, TameSame
    <3>2. Rough(c, x, f, S, m)
      <4> HIDE DEF d2, a
      <4> QED BY <1>1, <1>4, <2>5, <3>1, RoughLocated
    <3>3. Rougher(c, x, f, S, m)
      BY <3>2 DEF Rougher, Rough, Sane
    <3>4. Rougher(c, y, f, S, m)
      <4> HIDE DEF x, a, b
      <4> QED BY <1>1, <2>5, <3>3, RoughEnter
    <3> HIDE DEF r, y, b
    <3> QED BY <2>2, <2>5, <3>4 DEF Gave, r
  <2> QED BY <2>3, <2>4, <2>5
<1>6. CASE loc # NULL
  <2> DEFINE y == Enter(d1, loc, SlotOf(m), a)
  <2>1. r = [disk |-> y, block |-> a]
    BY <1>6 DEF UnderSingle
  <2>2. r.disk = y /\ r.block = a
    BY <2>1
  <2>3. Rougher(c, d1, f, S, m)
    BY <1>1 DEF Rougher, Rough, Sane
  <2>4. Rougher(c, y, f, S, m)
    <3> HIDE DEF d1, a, loc
    <3> QED BY <1>1, <1>2, <2>3, RoughEnter
  <2> HIDE DEF r, y, a
  <2> QED BY <1>1, <2>2, <2>4 DEF Gave, r
<1> QED BY <1>5, <1>6

\* The first of the double-indirect pointers.
LEMMA RoughTop ==
    ASSUME NEW c, NEW d, NEW f \in Files, NEW S, NEW m, Rough(c, d, f, S, m),
           d.freeBlock_number >= 1, d.inode[f].location[Direct + 1] = NULL,
           NEW r, r = UnderDouble(d, f, m)
    PROVE  /\ Gave(c, f, S, m, r)
           /\ r.disk.fault = "" => r.disk.inode[f].location[Direct + 1] # NULL
<1> DEFINE a == NewBlock(d)
           d1 == Taken(d)
           b == NewBlock(d1)
           d2 == Taken(d1)
           g == NewBlock(d2)
           d3 == Taken(d2)
           x == Located(d3, f, Direct + 1, a)
           y == Enter(x, a, 0, b)
           z == Enter(y, b, 0, g)
<1>1. Rough(c, d1, f, S, m) /\ a \in S /\ a \in Blocks /\ Tame(d, S, a)
  BY RoughTaken
<1>2. d1.space = d.space /\ d1 \in Disks
  BY TakenDisk DEF Rough, Sane
<1>3. r = [disk |-> z, block |-> g]
  BY DEF UnderDouble
<1>4. r.disk = z /\ r.block = g
  BY <1>3
<1>5. /\ \/ b = WILD
         \/ b \in S /\ Rough(c, d2, f, S, m)
      /\ d2 \in Disks /\ d2.space = d1.space
  BY <1>1, RoughSecond
<1>6. d3 \in Disks /\ d3.space = d2.space
  BY <1>5, TakenDisk
<1>7. Direct + 1 \in Slots
  BY Sizes DEF Slots
<1>8. x \in Disks /\ x.inode[f].location[Direct + 1] = a
  <2>1. x \in Disks
    BY <1>1, <1>6, <1>7, LocatedLemma
  <2>2. \A j \in Slots : x.inode[f].location[j] = IF j = Direct + 1 THEN a
                                                  ELSE d3.inode[f].location[j]
    BY <1>1, <1>6, <1>7, LocatedLemma
  <2> HIDE DEF x, a
  <2> QED BY <1>7, <2>1, <2>2
<1> HIDE DEF x, a
<1>9. y \in Disks /\ y.inode = x.inode
  BY <1>8, EnterKeeps
<1>10. z \in Disks /\ z.inode = y.inode
  <2> HIDE DEF y
  <2> QED BY <1>9, EnterKeeps
<1>11. z.inode[f].location[Direct + 1] # NULL
  <2> HIDE DEF y, z
  <2>1. a # NULL
    BY <1>1, BlocksFinite
  <2> QED BY <1>8, <1>9, <1>10, <2>1
<1>12. CASE b = WILD \/ g = WILD
  <2>1. ~(b \in Blocks /\ g \in Blocks /\ 0 \in Index)
    BY <1>12, BlocksFinite
  <2> HIDE DEF y, b, g
  <2>2. z.fault = "index"
    BY <1>9, <2>1, EnterFaults
  <2>3. Rougher(c, z, f, S, m)
    BY <1>9, <1>12, WildEnter
  <2> HIDE DEF z
  <2>4. z.fault # ""
    BY <2>2
  <2> QED BY <1>4, <2>3, <2>4 DEF Gave
<1>13. CASE b # WILD /\ g # WILD
  <2>1. b \in S /\ Rough(c, d2, f, S, m)
    BY <1>5, <1>13
  <2>2. g \in S /\ Rough(c, d3, f, S, m)
    <3> HIDE DEF d2
    <3>1. \/ NewBlock(d2) = WILD
          \/ NewBlock(d2) \in S /\ Rough(c, Taken(d2), f, S, m)
      BY <2>1, RoughSecond
    <3> QED BY <1>13, <3>1
  <2> HIDE DEF g, b
  <2>3. Tame(d3, S, a)
    BY <1>1, <1>2, <1>5, <1>6, TameSame
  <2>4. Rough(c, x, f, S, m)
    <3> HIDE DEF d3
    <3> QED BY <1>1, <1>7, <2>2, <2>3, RoughLocated DEF x
  <2>5. Rougher(c, x, f, S, m)
    BY <2>4 DEF Rougher, Rough, Sane
  <2>6. Rougher(c, y, f, S, m)
    BY <1>1, <2>1, <2>5, RoughEnter
  <2> HIDE DEF y
  <2>7. Rougher(c, z, f, S, m)
    BY <2>1, <2>2, <2>6, RoughEnter
  <2> HIDE DEF z
  <2> QED BY <1>4, <1>11, <2>2, <2>7 DEF Gave
<1> HIDE DEF z, g, b
<1> QED BY <1>4, <1>11, <1>12, <1>13

\* A later one.
LEMMA RoughUnder ==
    ASSUME NEW c, NEW d, NEW f \in Files, NEW S, NEW m, Rough(c, d, f, S, m),
           d.freeBlock_number >= 1, d.inode[f].location[Direct + 1] # NULL,
           NEW r, r = UnderDouble(d, f, m)
    PROVE  /\ Gave(c, f, S, m, r)
           /\ r.disk.fault = "" => /\ r.disk.inode[f].location[Direct + 1] # NULL
                                   /\ (m - SingleEnd) \div Words \in Index
<1> DEFINE top == d.inode[f].location[Direct + 1]
           q == (m - SingleEnd) \div Words
           k == (m - SingleEnd) % Words
           row == Follow(d, top, q)
           a == NewBlock(d)
           d1 == Taken(d)
           b == NewBlock(d1)
           d2 == Taken(d1)
<1>1. Rough(c, d1, f, S, m) /\ a \in S /\ a \in Blocks
  BY RoughTaken
<1>2. d1 \in Disks /\ d1.inode = d.inode /\ Rougher(c, d1, f, S, m)
  BY <1>1, TakenDisk DEF Rougher, Rough, Sane
<1>3. top \in S /\ top # NULL
  BY DEF Rough
<1>4. /\ row \in S \cup {NULL, WILD}
      /\ ~(q \in Index) => row = WILD
  <2>1. q \in Index => row \in S \cup {NULL, WILD}
    BY DEF Rough, Tame
  <2>2. ~(q \in Index) => row = WILD
    BY DEF Follow, Index
  <2> HIDE DEF row, q
  <2> QED BY <2>1, <2>2
<1> HIDE DEF q, k
<1>5. CASE row = NULL
  <2> DEFINE y == Enter(d2, top, q, a)
             z == Enter(y, a, 0, b)
  <2>1. r = [disk |-> z, block |-> b]
    BY <1>3, <1>5 DEF UnderDouble, q, k
  <2>2. r.disk = z /\ r.block = b
    BY <2>1
  <2>3. /\ \/ b = WILD
           \/ b \in S /\ Rough(c, d2, f, S, m)
        /\ d2 \in Disks /\ d2.inode = d1.inode
    BY <1>1, RoughSecond
  <2> HIDE DEF top, row, a, b, d2, d1
  <2>4. y \in Disks /\ y.inode = d2.inode
    BY <2>3, EnterKeeps
  <2> HIDE DEF y
  <2>5. z \in Disks /\ z.inode = y.inode
    BY <2>4, EnterKeeps
  <2>6. z.inode[f].location[Direct + 1] # NULL /\ q \in Index
    <3> HIDE DEF z
    <3>1. z.inode = d.inode
      BY <1>2, <2>3, <2>4, <2>5
    <3>2. row # WILD
      BY <1>5, BlocksFinite
    <3> QED BY <1>3, <1>4, <3>1, <3>2 DEF top
  <2>7. CASE b = WILD
    <3>1. ~(a \in Blocks /\ b \in Blocks /\ 0 \in Index)
      BY <2>7, BlocksFinite
    <3>2. z.fault = "index"
      BY <2>4, <3>1, EnterFaults
    <3>3. Rougher(c, z, f, S, m)
      BY <2>4, <2>7, WildEnter
    <3> HIDE DEF z
    <3>4. z.fault # ""
      BY <3>2
    <3> QED BY <2>2, <3>3, <3>4 DEF Gave
  <2>8. CASE b \in S /\ Rough(c, d2, f, S, m)
    <3>1. Rougher(c, d2, f, S, m)
      BY <2>8 DEF Rougher, Rough, Sane
    <3>2. Rougher(c, y, f, S, m)
      BY <1>1, <1>3, <3>1, RoughEnter DEF y
    <3>3. Rougher(c, z, f, S, m)
      BY <1>1, <2>8, <3>2, RoughEnter
    <3> HIDE DEF z
    <3> QED BY <2>2, <2>6, <2>8, <3>3 DEF Gave, q
  <2> HIDE DEF z
  <2> QED BY <2>2, <2>3, <2>6, <2>7, <2>8 DEF q
<1>6. CASE row # NULL
  <2> DEFINE z == Enter(d1, row, k, a)
  <2>1. r = [disk |-> z, block |-> a]
    BY <1>3, <1>6 DEF UnderDouble, q, k
  <2>2. r.disk = z /\ r.block = a
    BY <2>1
  <2> HIDE DEF top, row, a, d1
  <2>3. Rougher(c, z, f, S, m) /\ z.inode = d1.inode
    <3>1. Rougher(c, d1, f, S, m) /\ row \in S \cup {NULL, WILD} /\ a \in S \cup {NULL, WILD}
      BY <1>1, <1>2, <1>4
    <3>2. Rougher(c, z, f, S, m)
      BY <3>1, RoughEnter
    <3>3. z.inode = d1.inode
      BY <1>2, EnterKeeps
    <3> HIDE DEF z
    <3> QED BY <3>2, <3>3
  <2>4. ASSUME ~(q \in Index) PROVE z.fault # ""
    <3>1. ~(row \in Blocks /\ a \in Blocks /\ k \in Index)
      BY <1>4, <2>4, BlocksFinite
    <3>2. z.fault = "index"
      BY <1>2, <3>1, EnterFaults
    <3> HIDE DEF z
    <3> QED BY <3>2
  <2> HIDE DEF z
  <2>5. z.inode[f].location[Direct + 1] # NULL
    BY <1>2, <1>3, <2>3 DEF top
  <2> QED BY <1>1, <2>2, <2>3, <2>4, <2>5 DEF Gave, q
<1> QED BY <1>5, <1>6

\* The write is in block P of the file, of which block m is the last.
Behind(d, f, m, P) ==
    /\ P \in Nat /\ P < Capacity /\ P <= m /\ m \in Int /\ m <= Capacity
    /\ P = m /\ m >= SingleEnd => d.inode[f].location[Direct + 1] # NULL

\* What a call of allocate_block in a write out of order may give.
Roughly(c, d, f, S, m, P, r) ==
    \/ r.block = NULL /\ r.disk \in Disks
    \/ r.disk \in Disks /\ r.disk.fault # ""
    \/ Rough(c, r.disk, f, S, m + 1) /\ Behind(r.disk, f, m + 1, P + 1) /\ r.block \in S

\* The largest file has Capacity blocks.
LEMMA LargestFile == max_file_size \div Words = Capacity
<1>1. max_file_size \in Nat /\ max_file_size = Capacity * Words + 0 /\ Capacity \in Nat
      /\ 0 \in Index
  <2>1. Capacity * Words \in Nat
    BY Sizes
  <2> QED BY <2>1, Sizes DEF Index
<1> QED BY <1>1, DivMod

\* It is full behind the last row.
LEMMA NoRow == (Capacity - SingleEnd) \div Words = Words
<1>1. Capacity - SingleEnd \in Nat /\ Capacity - SingleEnd = Words * Words + 0 /\ 0 \in Index
      /\ Words \in Nat
  BY Sizes DEF Index
<1> QED BY <1>1, DivMod

\* allocate_block in a write out of order touches nothing of another file.
LEMMA RoughAllocate ==
    ASSUME NEW c, NEW d, NEW f \in Files, NEW S, NEW m, Rough(c, d, f, S, m),
           NEW P, Behind(d, f, m, P), NEW r, r = AllocateBlock(d, f)
    PROVE  Roughly(c, d, f, S, m, P, r)
<1> DEFINE n == m + 1
           e == Numbered(d, f, n)
<1>1. d \in Disks /\ d.inode[f].block_number + 1 = n
  BY DEF Rough, Sane
<1>2. P \in Nat /\ P < Capacity /\ P <= m /\ m \in Int /\ m <= Capacity
  BY DEF Behind
<1>3. n \in Int /\ n = m + 1
  BY <1>2
<1>4. r = IF n > max_file_size \div Words \/ ~Enough(d, n)
          THEN [disk |-> d, block |-> NULL]
          ELSE IF n < Direct
          THEN [disk |-> Located(Taken(e), f, n, NewBlock(d)), block |-> NewBlock(d)]
          ELSE IF n < SingleEnd THEN UnderSingle(e, f, n)
          ELSE UnderDouble(e, f, n)
  BY <1>1, AllocateIs, Zenon
<1> HIDE DEF n
<1>5. CASE n > max_file_size \div Words \/ ~Enough(d, n)
  <2>1. r = [disk |-> d, block |-> NULL]
    BY <1>4, <1>5
  <2>2. r.block = NULL /\ r.disk \in Disks
    BY <1>1, <2>1
  <2> QED BY <2>2 DEF Roughly
<1>6. CASE ~(n > max_file_size \div Words) /\ Enough(d, n)
  <2>1. r = IF n < Direct
            THEN [disk |-> Located(Taken(e), f, n, NewBlock(d)), block |-> NewBlock(d)]
            ELSE IF n < SingleEnd THEN UnderSingle(e, f, n)
            ELSE UnderDouble(e, f, n)
    BY <1>4, <1>6, Zenon
  <2>2. n <= Capacity /\ d.freeBlock_number >= 1
    <3>1. ~(n > Capacity)
      BY <1>6, LargestFile
    <3>2. d.freeBlock_number >= 1
      BY <1>6 DEF Enough
    <3> QED BY <1>3, <3>1, <3>2, Sizes
  <2>3. /\ e.inode[f].location = d.inode[f].location
        /\ e.freeBlock_number = d.freeBlock_number /\ e.index = d.index
    <3>1. e.inode[f].location = d.inode[f].location
      BY <1>1, <1>3, NumberedLemma
    <3>2. e.freeBlock_number = d.freeBlock_number /\ e.index = d.index
      BY <1>1, <1>3, NumberedLemma
    <3> QED BY <3>1, <3>2
  <2>4. NewBlock(d) = NewBlock(e)
    BY <2>3 DEF NewBlock, FreeBlocks
  <2>5. Rough(c, e, f, S, n)
    BY <1>3, RoughNumbered
  <2>6. e.freeBlock_number >= 1
    BY <2>2, <2>3
  <2>7. P + 1 \in Nat /\ P + 1 <= n
    BY <1>2, <1>3
  <2> HIDE DEF e
  <2>8. CASE n < Direct
    <3> DEFINE a == NewBlock(e)
               d1 == Taken(e)
               z == Located(d1, f, n, a)
    <3>1. r.disk = z /\ r.block = a
      BY <2>1, <2>4, <2>8
    <3>2. Rough(c, d1, f, S, n) /\ a \in S /\ Tame(e, S, a)
      BY <2>5, <2>6, RoughTaken
    <3>3. d1.space = e.space
      BY <2>5, TakenDisk DEF Rough, Sane
    <3> HIDE DEF a, d1
    <3>4. n \in Slots
      <4>1. n >= 0
        BY <2>7, <1>3
      <4> QED BY <1>3, <2>8, <4>1, Sizes DEF Slots
    <3>5. Tame(d1, S, a)
      BY <3>2, <3>3, TameSame
    <3>6. Rough(c, z, f, S, n)
      BY <3>2, <3>4, <3>5, RoughLocated
    <3> HIDE DEF z
    <3>7. P + 1 < Capacity /\ ~(n >= SingleEnd)
      BY <1>3, <2>7, <2>8, Sizes
    <3>8. Behind(z, f, n, P + 1)
      BY <1>3, <2>2, <2>7, <3>7 DEF Behind
    <3> QED BY <3>1, <3>2, <3>6, <3>8 DEF Roughly, n
  <2>9. CASE ~(n < Direct) /\ n < SingleEnd
    <3>1. r = UnderSingle(e, f, n)
      BY <2>1, <2>9
    <3>2. Gave(c, f, S, n, r)
      BY <2>5, <2>6, <3>1, RoughSingle
    <3>3. P + 1 < Capacity /\ ~(n >= SingleEnd)
      BY <1>3, <2>7, <2>9, Sizes
    <3>4. Behind(r.disk, f, n, P + 1)
      BY <1>3, <2>2, <2>7, <3>3 DEF Behind
    <3> QED BY <3>2, <3>4 DEF Gave, Rougher, Roughly, n
  <2>10. CASE ~(n < Direct) /\ ~(n < SingleEnd)
    <3> DEFINE top == d.inode[f].location[Direct + 1]
    <3>1. r = UnderDouble(e, f, n) /\ e.inode[f].location[Direct + 1] = top
      BY <2>1, <2>3, <2>10
    <3>2. /\ Gave(c, f, S, n, r)
          /\ r.disk.fault = "" => r.disk.inode[f].location[Direct + 1] # NULL
      <4>1. CASE e.inode[f].location[Direct + 1] = NULL
        BY <2>5, <2>6, <3>1, <4>1, RoughTop
      <4>2. CASE e.inode[f].location[Direct + 1] # NULL
        BY <2>5, <2>6, <3>1, <4>2, RoughUnder
      <4> QED BY <4>1, <4>2
    <3>3. ASSUME r.disk.fault = "" PROVE P + 1 < Capacity
      <4>1. CASE n < Capacity
        BY <1>3, <2>7, <4>1, Sizes
      <4>2. CASE n = Capacity /\ P < m
        BY <1>2, <1>3, <4>2, Sizes
      <4>3. CASE n = Capacity /\ P = m
        <5>1. CASE m >= SingleEnd
          <6>1. top # NULL
            BY <4>3, <5>1 DEF Behind
          <6>2. (n - SingleEnd) \div Words \in Index
            BY <2>5, <2>6, <3>1, <3>3, <6>1, RoughUnder
          <6>3. ~(Words \in Index)
            BY Sizes DEF Index
          <6> QED BY <4>3, <6>2, <6>3, NoRow
        <5>2. CASE ~(m >= SingleEnd)
          BY <1>2, <1>3, <2>10, <4>3, <5>2, Sizes
        <5> QED BY <5>1, <5>2
      <4> QED BY <1>2, <1>3, <2>2, <4>1, <4>2, <4>3, Sizes
    <3>4. ASSUME r.disk.fault = "" PROVE Behind(r.disk, f, n, P + 1)
      BY <1>3, <2>2, <2>7, <3>2, <3>3, <3>4 DEF Behind
    <3> QED BY <3>2, <3>4 DEF Gave, Rougher, Roughly, n
  <2> QED BY <2>8, <2>9, <2>10
<1> QED BY <1>5, <1>6

\* The state after K words of a write at pos, in block B, which is number P of
\* the file.
Near(c, f, S, pos, m, P, D, B, O, K) ==
    /\ Rough(c, D, f, S, m) /\ Behind(D, f, m, P) /\ B \in S
    /\ O \in 0 .. Words /\ K \in Nat /\ P * Words + O = pos + K

Drifts(w, c, f, S, pos) ==
    \/ w.disk.fault # ""
    \/ \E m, P, D, B, O, K : /\ Near(c, f, S, pos, m, P, D, B, O, K)
                             /\ w = Put(D, f, B, O, K) \/ w = Halt(D, f, B, O, K)

\* A word that is no pointer.
Plain(word) == word \in Word /\ word.kind # "pointer"

\* Nor does a word written to one of the file's own blocks.
LEMMA RoughWritten ==
    ASSUME NEW c, NEW d, NEW f \in Files, NEW S, NEW m, Rough(c, d, f, S, m), NEW b \in S,
           NEW i \in Index, NEW word, Plain(word), NEW P, Behind(d, f, m, P)
    PROVE  /\ Rough(c, Written(d, b, i, word), f, S, m)
           /\ Behind(Written(d, b, i, word), f, m, P)
<1> DEFINE e == Written(d, b, i, word)
<1>1. d \in Disks /\ b \in Blocks /\ word \in Word
  BY DEF Rough, Sane, Plain
<1>2. e \in Disks
  BY <1>1, WrittenLemma
<1>3. /\ e.inode = d.inode /\ e.freeBlock_number = d.freeBlock_number
      /\ e.index = d.index /\ e.fault = d.fault
  BY <1>1 DEF Written, Disks
<1>4. /\ e.space[b] = [d.space[b] EXCEPT ![i] = word]
      /\ \A x \in Blocks : x # b => e.space[x] = d.space[x]
  BY <1>1, WrittenLemma
<1> HIDE DEF e
<1>5. word.kind # "pointer" \/ word.block \in S
  BY DEF Plain
<1>6. Rough(c, e, f, S, m)
  BY <1>2, <1>3, <1>4, <1>5, RoughWord
<1>7. Behind(e, f, m, P)
  BY <1>3 DEF Behind
<1> QED BY <1>6, <1>7 DEF e

\* The word is written, or the write ends, or the kernel leaves the disk.
LEMMA DriftWord ==
    ASSUME NEW c, NEW f \in Files, NEW S, NEW pos \in Nat, NEW w, Drifts(w, c, f, S, pos),
           NEW word, Plain(word)
    PROVE  Drifts(PutWord(w, word), c, f, S, pos)
<1> DEFINE v == PutWord(w, word)
<1>1. CASE w.disk.fault # ""
  <2>1. v = w
    BY <1>1, PutStays
  <2> HIDE DEF v
  <2> QED BY <1>1, <2>1 DEF Drifts, v
<1>2. CASE \E m, P, D, B, O, K : /\ Near(c, f, S, pos, m, P, D, B, O, K)
                                 /\ w = Put(D, f, B, O, K) \/ w = Halt(D, f, B, O, K)
  <2>1. PICK m, P, D, B, O, K : /\ Near(c, f, S, pos, m, P, D, B, O, K)
                                /\ w = Put(D, f, B, O, K) \/ w = Halt(D, f, B, O, K)
    BY <1>2, Zenon
  <2>2. /\ Rough(c, D, f, S, m) /\ Behind(D, f, m, P) /\ B \in S /\ B \in Blocks
        /\ O \in 0 .. Words /\ K \in Nat /\ P * Words + O = pos + K /\ P \in Nat /\ Up(D)
    BY <2>1 DEF Near, Behind, Rough, Up
  <2>3. Words \in Nat /\ Words > 0 /\ O \in Nat /\ P * Words \in Nat
    BY <2>2, Sizes
  <2>4. CASE w = Halt(D, f, B, O, K)
    <3>1. w.stopped
      BY <2>4 DEF Halt
    <3>2. v = w
      BY <3>1, PutStays
    <3> QED BY <3>2
  <2>5. CASE w = Put(D, f, B, O, K) /\ O # Words
    <3> DEFINE e == Written(D, B, O, word)
    <3>1. O \in Index /\ O + 1 \in 0 .. Words /\ K + 1 \in Nat
      BY <2>2, <2>3, <2>5 DEF Index
    <3>2. PutWord(Put(D, f, B, O, K), word) = Put(e, f, B, O + 1, K + 1)
      BY <2>2, <2>5, PutNext
    <3>3. Rough(c, e, f, S, m) /\ Behind(e, f, m, P)
      BY <2>2, <3>1, RoughWritten
    <3> HIDE DEF e
    <3>4. P * Words + (O + 1) = pos + (K + 1)
      BY <2>2, <2>3
    <3>5. Near(c, f, S, pos, m, P, e, B, O + 1, K + 1)
      BY <2>2, <3>1, <3>3, <3>4 DEF Near
    <3>6. v = Put(e, f, B, O + 1, K + 1)
      BY <2>5, <3>2
    <3> HIDE DEF v
    <3>7. Drifts(v, c, f, S, pos)
      BY <3>5, <3>6, Zenon DEF Drifts
    <3> QED BY <3>7 DEF v
  <2>6. CASE w = Put(D, f, B, O, K) /\ O = Words
    <3> DEFINE r == AllocateBlock(D, f)
               E == r.disk
               b == r.block
    <3>1. Gives(D, f, E, b)
      BY DEF Gives
    <3>2. r = AllocateBlock(D, f)
      OBVIOUS
    <3> HIDE DEF r
    <3>3. Roughly(c, D, f, S, m, P, r)
      BY <2>2, <3>2, RoughAllocate
    <3>4. w = Put(D, f, B, Words, K)
      BY <2>6
    <3>5. CASE b = NULL
      <4>1. Gives(D, f, E, NULL)
        BY <3>1, <3>5
      <4> HIDE DEF E, b
      <4>2. PutWord(Put(D, f, B, Words, K), word) = Halt(D, f, B, Words, K)
        BY <2>2, <4>1, PutStops
      <4>3. v = Halt(D, f, B, O, K)
        BY <2>6, <3>4, <4>2
      <4> HIDE DEF v
      <4>4. Drifts(v, c, f, S, pos)
        BY <2>1, <4>3, Zenon DEF Drifts
      <4> QED BY <4>4 DEF v
    <3>6. CASE E \in Disks /\ E.fault # "" /\ b # NULL
      <4> HIDE DEF E, b
      <4>1. v.disk.fault # ""
        <5>1. CASE b \in Blocks
          <6>0. Up(D) /\ Gives(D, f, E, b) /\ b \in Blocks
            BY <2>2, <3>1, <5>1
          <6>1. PutWord(Put(D, f, B, Words, K), word) = Put(Begun(E, b, word), f, b, 1, K + 1)
            BY <6>0, PutGrows
          <6>2. Begun(E, b, word) = E
            BY <3>6 DEF Begun
          <6>3. v = Put(E, f, b, 1, K + 1)
            BY <3>4, <6>1, <6>2
          <6>4. v.disk = E
            BY <6>3 DEF Put
          <6> QED BY <3>6, <6>4
        <5>2. CASE b \notin Blocks
          <6>0. Up(D) /\ Gives(D, f, E, b) /\ b # NULL /\ b \notin Blocks
            BY <2>2, <3>1, <3>6, <5>2
          <6>1. PutWord(Put(D, f, B, Words, K), word).disk = Fault(E, "write")
            BY <6>0, PutFalls
          <6>2. v.disk = Fault(E, "write")
            BY <3>4, <6>1
          <6>3. Fault(E, "write").fault = "write"
            BY <3>6 DEF Fault, Disks
          <6> QED BY <6>2, <6>3
        <5> QED BY <5>1, <5>2
      <4> HIDE DEF v
      <4> QED BY <4>1 DEF Drifts, v
    <3>7. CASE Rough(c, E, f, S, m + 1) /\ Behind(E, f, m + 1, P + 1) /\ b \in S
      <4> HIDE DEF E, b
      <4> DEFINE e == Written(E, b, 0, word)
      <4>1. b \in Blocks /\ E.fault = ""
        BY <3>7 DEF Rough
      <4>2. PutWord(Put(D, f, B, Words, K), word) = Put(Begun(E, b, word), f, b, 1, K + 1)
        <5>1. Up(D) /\ Gives(D, f, E, b) /\ b \in Blocks
          BY <2>2, <3>1, <4>1
        <5> QED BY <5>1, PutGrows
      <4>3. Begun(E, b, word) = e
        BY <4>1 DEF Begun
      <4>4. 0 \in Index /\ 1 \in 0 .. Words /\ K + 1 \in Nat
        BY <2>2, <2>3 DEF Index
      <4>5. Rough(c, e, f, S, m + 1) /\ Behind(e, f, m + 1, P + 1)
        BY <3>7, <4>4, RoughWritten
      <4> HIDE DEF e
      <4>6. (P + 1) * Words + 1 = pos + (K + 1)
        <5>1. (P + 1) * Words = P * Words + Words
          BY <2>2, <2>3
        <5>2. P * Words + Words = pos + K
          BY <2>2, <2>6
        <5> QED BY <2>2, <2>3, <5>1, <5>2
      <4> DEFINE M == m + 1
                 Q == P + 1
                 one == 1
                 L == K + 1
      <4>7. Near(c, f, S, pos, M, Q, e, b, one, L)
        <5>1. /\ Rough(c, e, f, S, M) /\ Behind(e, f, M, Q) /\ b \in S
          BY <3>7, <4>5, Zenon
        <5>2. one \in 0 .. Words /\ L \in Nat
          BY <4>4, Zenon
        <5>3. Q * Words + one = pos + L
          BY <4>6, Zenon
        <5> HIDE DEF M, Q, one, L
        <5> QED BY <5>1, <5>2, <5>3, Zenon DEF Near
      <4>8. v = Put(e, f, b, one, L)
        BY <3>4, <4>2, <4>3
      <4> HIDE DEF v, M, Q, one, L
      <4>9. Drifts(v, c, f, S, pos)
        BY <4>7, <4>8, Zenon DEF Drifts
      <4> QED BY <4>9 DEF v
    <3> QED BY <3>3, <3>5, <3>6, <3>7 DEF Roughly
  <2> QED BY <2>1, <2>4, <2>5, <2>6
<1> QED BY <1>1, <1>2 DEF Drifts

\* All words of a write, behind the first.
LEMMA DriftAll ==
    ASSUME NEW c, NEW f \in Files, NEW S, NEW pos \in Nat, NEW n \in Nat, n # 0, NEW w,
           NEW words, DOMAIN words = 1 .. n, \A k \in 1 .. n : Plain(words[k]),
           Drifts(PutWord(w, words[1]), c, f, S, pos)
    PROVE  Drifts(PutWords(w, words), c, f, S, pos)
<1> DEFINE x == [kind |-> "words"]
<1>1. PICK tr : Trace(tr, x, w, words, n) /\ FoldOf(x, w, words) = tr[n]
  BY FoldTrace
<1>2. PutWords(w, words) = tr[n]
  BY <1>1 DEF FoldOf, PutWords
<1>3. tr[0] = w /\ \A k \in 1 .. n : tr[k] = PutWord(tr[k - 1], words[k])
  BY <1>1 DEF Trace, Turn
<1> DEFINE Q == {k \in 0 .. n : k = 0 \/ Drifts(tr[k], c, f, S, pos)}
<1>4. 0 \in Q
  OBVIOUS
<1>5. ASSUME NEW k \in 0 .. n - 1, k \in Q PROVE k + 1 \in Q
  <2>1. /\ k \in Nat /\ k + 1 \in 1 .. n /\ k + 1 \in 0 .. n /\ k + 1 - 1 = k
    OBVIOUS
  <2>2. tr[k + 1] = PutWord(tr[k], words[k + 1]) /\ Plain(words[k + 1])
    BY <1>3, <2>1
  <2>3. CASE k = 0
    <3>1. tr[k + 1] = PutWord(w, words[1])
      BY <1>3, <2>2, <2>3
    <3> QED BY <2>1, <3>1
  <2>4. CASE Drifts(tr[k], c, f, S, pos)
    <3>1. Drifts(PutWord(tr[k], words[k + 1]), c, f, S, pos)
      BY <2>2, <2>4, DriftWord
    <3> QED BY <2>1, <2>2, <3>1
  <2> QED BY <1>5, <2>3, <2>4
<1>6. \A k \in 0 .. n : k \in Q
  <2> HIDE DEF Q
  <2> QED BY <1>4, <1>5, Upwards
<1> QED BY <1>2, <1>6

\* The blocks that are at no place of another file.
Own(t, f) == Blocks \ {t[g][p] : g \in Files \ {f}, p \in Places}

\* A write out of order begins on a good disk.
LEMMA RoughStart ==
    ASSUME NEW c, NEW t, Good(c, t), NEW f \in Files, c.inode[f].operation
    PROVE  Rough(c, c, f, Own(t, f), c.inode[f].block_number)
<1> DEFINE S == Own(t, f)
<1>1. Sane(c) /\ c.fault = "" /\ Sound(c, t) /\ c \in Disks
  BY DEF Good, Sane
<1>2. S \subseteq Blocks
  BY DEF Own
<1>3. ASSUME NEW b \in Blocks \ c.index PROVE b \in S /\ Tame(c, S, b)
  <2>0. b # NULL /\ \A g \in Files, p \in Places : t[g][p] # NULL => t[g][p] \in c.index
    BY <1>1, BlocksFinite DEF Sound
  <2>1. b \in S
    BY <2>0 DEF Own
  <2>2. c.space[b] = ZeroBlock
    BY <1>1, <1>3 DEF Sound
  <2>3. ASSUME NEW i \in Index PROVE Follow(c, b, i) = NULL
    BY <1>3, <2>2, <2>3 DEF Follow, ZeroBlock, Zero, Index
  <2> QED BY <2>1, <2>3 DEF Tame
<1>4. ASSUME NEW p \in Places PROVE t[f][p] \in S \cup {NULL}
  <2>1. t[f][p] \in Blocks \cup {NULL}
    BY <1>1 DEF Sound, Trees
  <2>2. ASSUME t[f][p] # NULL, NEW g \in Files \ {f}, NEW q \in Places PROVE t[g][q] # t[f][p]
    BY <1>1, <2>2, ZenonT(40) DEF Sound, Separate
  <2> QED BY <2>1, <2>2 DEF Own
<1>5. Single \in Places /\ Top \in Places /\ \A i \in Index : Row(i) \in Places
  BY Sizes DEF Places, Single, Top, Row, Index
<1>6. /\ c.inode[f].location[Direct] = t[f][Single]
      /\ c.inode[f].location[Direct + 1] = t[f][Top]
  <2>1. Sound(c, t)
    BY <1>1
  <2> QED BY <2>1, RootsOf
<1>7. ASSUME t[f][Top] # NULL PROVE Tame(c, S, t[f][Top])
  <2>1. ASSUME NEW i \in Index PROVE Follow(c, t[f][Top], i) = t[f][Row(i)]
    BY <1>1, <1>7, UnderTopOf
  <2> HIDE DEF S
  <2> QED BY <1>4, <1>5, <2>1 DEF Tame
<1> HIDE DEF S
<1>8. Rough(c, c, f, S, c.inode[f].block_number)
  BY <1>1, <1>2, <1>3, <1>4, <1>5, <1>6, <1>7 DEF Rough
<1> QED BY <1>8 DEF S

\* Where a file has no block, switchAddress finds none.
LEMMA BeyondLemma ==
    ASSUME NEW d, NEW t, Sound(d, t), NEW f \in Files, d.inode[f].operation,
           NEW n \in 0 .. Capacity - 1, t[f][n] = NULL
    PROVE  SwitchAddress(d, f, n) \in {NULL, WILD}
<1>1. n \in Nat /\ NULL \notin Blocks
  BY BlocksFinite
<1>2. CASE n < Direct
  <2>1. n \in 0 .. Direct - 1
    BY <1>1, <1>2, Sizes
  <2>2. d.inode[f].location[n] = t[f][n]
    BY <2>1, RootsOf
  <2> QED BY <1>2, <2>2 DEF SwitchAddress
<1>3. CASE n >= Direct /\ n < SingleEnd
  <2>1. n \in Direct .. SingleEnd - 1
    BY <1>1, <1>3, Sizes
  <2>2. d.inode[f].location[Direct] = t[f][Single]
    BY RootsOf
  <2>3. CASE t[f][Single] = NULL
    <3>1. SwitchAddress(d, f, n) = NULL
      BY <1>1, <1>3, <2>2, <2>3, Sizes DEF SwitchAddress
    <3> QED BY <3>1
  <2>4. CASE t[f][Single] # NULL
    <3>1. Follow(d, t[f][Single], n - Direct) = t[f][n]
      BY <2>1, <2>4, UnderSingleOf
    <3>2. SwitchAddress(d, f, n) = NULL
      BY <1>1, <1>3, <2>2, <2>4, <3>1, Sizes DEF SwitchAddress
    <3> QED BY <3>2
  <2> QED BY <2>3, <2>4
<1>4. CASE n >= SingleEnd
  <2> DEFINE q == (n - SingleEnd) \div Words
             i == (n - SingleEnd) % Words
             top == d.inode[f].location[Direct + 1]
  <2>1. q \in Index /\ n \in SingleEnd .. Capacity - 1
    BY <1>4, RowOf
  <2>2. top = t[f][Top]
    BY RootsOf
  <2>3. SwitchAddress(d, f, n) = IF top = NULL THEN NULL ELSE Follow(d, Follow(d, top, q), i)
    <3>1. ~(n < Direct) /\ ~(n < SingleEnd)
      BY <1>1, <1>4, Sizes
    <3> QED BY <3>1, Zenon DEF SwitchAddress
  <2>4. CASE top = NULL
    BY <2>3, <2>4
  <2>5. CASE top # NULL
    <3>1. Follow(d, top, q) = t[f][Row(q)]
      <4> HIDE DEF q
      <4> QED BY <2>1, <2>2, <2>5, UnderTopOf
    <3>2. CASE t[f][Row(q)] = NULL
      <4> HIDE DEF q, i, top
      <4>1. Follow(d, NULL, i) = WILD
        BY <1>1 DEF Follow
      <4> QED BY <2>3, <2>5, <3>1, <3>2, <4>1
    <3>3. CASE t[f][Row(q)] # NULL
      <4>1. Follow(d, t[f][Row(q)], i) = t[f][n]
        BY <2>1, <3>3, UnderRowOf
      <4> HIDE DEF q, i, top
      <4> QED BY <2>3, <2>5, <3>1, <4>1
    <3> QED BY <3>2, <3>3
  <2> QED BY <2>4, <2>5
<1> QED BY <1>1, <1>2, <1>3, <1>4, Sizes

\* There is no row for the block behind the largest file.
LEMMA BehindAll ==
    ASSUME NEW d, NEW f
    PROVE  SwitchAddress(d, f, Capacity) \in {NULL, WILD}
<1> DEFINE q == (Capacity - SingleEnd) \div Words
           i == (Capacity - SingleEnd) % Words
           top == d.inode[f].location[Direct + 1]
<1>1. SwitchAddress(d, f, Capacity) =
          IF top = NULL THEN NULL ELSE Follow(d, Follow(d, top, q), i)
  <2>1. ~(Capacity < Direct) /\ ~(Capacity < SingleEnd)
    BY Sizes
  <2> QED BY <2>1, Zenon DEF SwitchAddress
<1>2. q = Words
  BY NoRow
<1> HIDE DEF q, i, top
<1>3. Follow(d, top, q) = WILD
  <2>1. Words \notin 0 .. Words - 1
    BY Sizes
  <2> QED BY <1>2, <2>1, Zenon DEF Follow
<1>4. Follow(d, WILD, i) = WILD
  BY BlocksFinite, Zenon DEF Follow
<1> QED BY <1>1, <1>3, <1>4

\* What a write out of order comes to: the kernel has left the disk, or the
\* file is any file, and the others have what they had.
Astray(c, t, f, pos, w) ==
    \/ w.disk.fault # ""
    \/ /\ w.ret \in Nat /\ pos + w.ret <= max_file_size
       /\ Sane(w.disk) /\ w.disk.fault = ""
       /\ w.disk.inode[f].block_number = w.disk.inode[f].size \div Words
       /\ \A g \in Files : g # f => w.disk.inode[g] = c.inode[g] /\ Agree(c, t, g, w.disk)

\* File f has words, and is open for a write somewhere before or at their end.
Behold(c, t, f, pos) ==
    /\ Good(c, t) /\ c.inode[f].operation /\ pos \in Nat /\ pos <= c.inode[f].size

\* A file of some words has a first block.
LEMMA FirstThere ==
    ASSUME NEW c, NEW t, Good(c, t), NEW f \in Files, c.inode[f].operation,
           NEW pos \in Nat, pos < c.inode[f].size
    PROVE  /\ t[f][pos \div Words] # NULL /\ t[f][pos \div Words] \in Blocks
           /\ pos \div Words \in 0 .. Capacity - 1
           /\ SwitchAddress(c, f, pos \div Words) = t[f][pos \div Words]
<1> DEFINE size == c.inode[f].size
           k == pos \div Words
<1>1. Sound(c, t) /\ GoodFile(c, t, f)
  BY DEF Good
<1>2. size \in 0 .. max_file_size /\ Holds(c, t, f, size)
  BY <1>1 DEF GoodFile
<1>3. pos \in 0 .. max_file_size - 1 /\ pos \in 0 .. size - 1
  BY <1>2, Sizes
<1>4. k \in 0 .. Capacity - 1
  BY <1>3, WordPlace
<1>5. t[f][k] \in Blocks
  BY <1>2, <1>3 DEF Holds
<1> HIDE DEF k, size
<1>6. t[f][k] # NULL
  BY <1>5, BlocksFinite
<1>7. SwitchAddress(c, f, k) = t[f][k]
  BY <1>1, <1>4, <1>6, SwitchLemma
<1> QED BY <1>4, <1>5, <1>6, <1>7 DEF k

\* The first block of the file is there.
LEMMA OpensFirst ==
    ASSUME NEW c, NEW t, Good(c, t), NEW f \in Files, c.inode[f].operation,
           0 < c.inode[f].size
    PROVE  FirstBlock(c, f).disk = c /\ FirstBlock(c, f).block # NULL
<1>1. t[f][0] # NULL
  BY FirstThere, BlocksLemma
<1>2. Sound(c, t)
  BY DEF Good
<1>3. c.inode[f].location[0] = t[f][0]
  BY <1>2, FirstIs
<1>4. FirstBlock(c, f) = [disk |-> c, block |-> c.inode[f].location[0]]
  BY <1>1, <1>3 DEF FirstBlock
<1> QED BY <1>1, <1>3, <1>4

\* The write begins in a block of the file.
LEMMA StrayInside ==
    ASSUME NEW c, NEW t, NEW f \in Files, NEW pos, Behold(c, t, f, pos), pos < c.inode[f].size
    PROVE  \E b : /\ Opens(c, f, pos, c, b)
                  /\ Drifts(Put(c, f, b, pos % Words, 0), c, f, Own(t, f), pos)
<1> DEFINE P == pos \div Words
           O == pos % Words
           size == c.inode[f].size
           m == c.inode[f].block_number
           b == t[f][P]
           S == Own(t, f)
<1>1. Good(c, t) /\ c.inode[f].operation /\ pos \in Nat /\ pos < size /\ pos <= size
  BY DEF Behold
<1>2. b # NULL /\ b \in Blocks /\ P \in 0 .. Capacity - 1 /\ SwitchAddress(c, f, P) = b
  BY <1>1, FirstThere
<1>3. P \in Nat /\ O \in Index /\ pos = P * Words + O
  BY <1>1, DivMod
<1>4. GoodFile(c, t, f) /\ Sound(c, t)
  BY <1>1 DEF Good
<1>5. size \in Nat /\ size <= max_file_size /\ Fills(t, f, BlocksOf(size))
  BY <1>4 DEF GoodFile
<1>6. m = size \div Words
  BY <1>1, <1>4, <1>5 DEF GoodFile
<1>7. m \in Nat /\ size % Words \in Index /\ size = m * Words + (size % Words)
  BY <1>5, <1>6, DivMod
<1>8. 0 < size
  BY <1>1, <1>5
<1>9. Rough(c, c, f, S, m)
  BY <1>1, RoughStart
<1> HIDE DEF P, O, size, m
<1>10. P <= m
  <2>1. CASE m < P
    <3>1. Words \in Nat /\ Words > 0 /\ m * Words \in Nat /\ P * Words \in Nat
      BY <1>3, <1>7, Sizes
    <3>2. m * Words + Words <= P * Words
      BY <1>3, <1>7, <2>1, <3>1, Multiples
    <3> QED BY <1>1, <1>3, <1>5, <1>7, <3>1, <3>2 DEF Index
  <2> QED BY <1>3, <1>7, <2>1
<1>11. m <= Capacity
  <2>1. CASE Capacity < m
    <3>1. Words \in Nat /\ Words > 0 /\ m * Words \in Nat /\ max_file_size \in Nat
          /\ max_file_size = Capacity * Words /\ Capacity \in Nat
      BY <1>7, Sizes
    <3>2. Capacity * Words + Words <= m * Words
      BY <1>7, <2>1, <3>1, Multiples
    <3> QED BY <1>5, <1>7, <3>1, <3>2 DEF Index
  <2> QED BY <1>7, <2>1, Sizes
<1>12. ASSUME P = m, m >= SingleEnd PROVE c.inode[f].location[Direct + 1] # NULL
  <2>1. size % Words # 0
    <3>1. m * Words \in Nat
      BY <1>7, Sizes
    <3> QED BY <1>1, <1>3, <1>7, <1>12, <3>1 DEF Index
  <2>2. BlocksOf(size) = m + 1
    BY <1>6, <2>1 DEF BlocksOf
  <2>3. m + 1 > SingleEnd
    BY <1>7, <1>12, Sizes
  <2>4. Top \in Filled(BlocksOf(size)) /\ Top \in Places
    BY <2>2, <2>3, Sizes DEF Filled, Top, Places, Single
  <2>5. t[f][Top] # NULL
    BY <1>5, <2>4 DEF Fills
  <2>6. c.inode[f].location[Direct + 1] = t[f][Top]
    BY <1>1, <1>4, RootsOf
  <2> QED BY <2>5, <2>6
<1>13. Behind(c, f, m, P)
  <2>1. P \in Nat /\ P < Capacity /\ m \in Int
    BY <1>2, <1>3, <1>7, Sizes
  <2> QED BY <1>10, <1>11, <1>12, <2>1 DEF Behind
<1>14. b \in S
  <2>1. P \in Places
    BY <1>2, Sizes DEF Places
  <2>2. ASSUME NEW g \in Files \ {f}, NEW q \in Places PROVE t[g][q] # t[f][P]
    BY <1>2, <1>4, <2>1 DEF Sound, Separate
  <2> QED BY <1>2, <2>2 DEF Own
<1>15. Near(c, f, S, pos, m, P, c, b, O, 0)
  <2>1. O \in 0 .. Words /\ 0 \in Nat /\ P * Words + O = pos + 0
    BY <1>1, <1>3, Sizes DEF Index
  <2> HIDE DEF b, S
  <2> QED BY <1>9, <1>13, <1>14, <2>1, Zenon DEF Near
<1>16. Opens(c, f, pos, c, b)
  <2> DEFINE start == WriteStart(c, f, pos)
  <2>1. start = [disk |-> c, block |-> b]
    <3>1. b # NULL /\ SwitchAddress(c, f, pos \div Words) = b
      BY <1>2 DEF P
    <3> HIDE DEF b
    <3> QED BY <3>1 DEF WriteStart
  <2>2. start.disk = c /\ start.block = b
    BY <2>1
  <2>3. FirstBlock(c, f).disk = c /\ FirstBlock(c, f).block # NULL
    BY <1>1, <1>8, OpensFirst DEF size
  <2> QED BY <2>2, <2>3 DEF Opens
<1> HIDE DEF b, S
<1>17. Drifts(Put(c, f, b, O, 0), c, f, S, pos)
  BY <1>15, Zenon DEF Drifts
<1> QED BY <1>16, <1>17 DEF O, S

\* The first word of a write out of order is written, or leads off the disk.
Begins(c, t, f, pos, e, b) ==
    /\ Opens(c, f, pos, e, b)
    /\ \A word : Plain(word) =>
          Drifts(PutWord(Put(e, f, b, pos % Words, 0), word), c, f, Own(t, f), pos)

\* There is nowhere to put it.
LEMMA DriftsOff ==
    ASSUME NEW c, NEW f, NEW S, NEW pos, NEW e \in Disks, NEW b, b \notin Blocks,
           NEW O, O # Words, NEW word
    PROVE  Drifts(PutWord(Put(e, f, b, O, 0), word), c, f, S, pos)
<1> DEFINE v == PutWord(Put(e, f, b, O, 0), word)
<1>1. CASE Up(e)
  <2>1. v.disk = Fault(e, "write")
    BY <1>1, PutNowhere
  <2>2. Fault(e, "write").fault = "write"
    BY DEF Fault, Disks
  <2>3. v.disk.fault # ""
    BY <2>1, <2>2
  <2> QED BY <2>3 DEF Drifts
<1>2. CASE ~Up(e)
  <2> DEFINE w == Put(e, f, b, O, 0)
  <2>1. w.disk.fault # ""
    BY <1>2 DEF Up, Put
  <2>2. PutWord(w, word) = w
    BY <2>1, PutStays
  <2>3. v.disk.fault # ""
    BY <2>1, <2>2
  <2> QED BY <2>3 DEF Drifts
<1> QED BY <1>1, <1>2

\* The write begins at the end of the file, at the edge of a block.
LEMMA StrayEdge ==
    ASSUME NEW c, NEW t, NEW f \in Files, NEW pos, Behold(c, t, f, pos), pos = c.inode[f].size,
           pos % Words = 0, pos # 0
    PROVE  \E e, b : Begins(c, t, f, pos, e, b)
<1> DEFINE q == pos \div Words
           S == Own(t, f)
<1>1. Good(c, t) /\ c.inode[f].operation /\ pos \in Nat /\ pos <= max_file_size
      /\ 0 < c.inode[f].size
  <2>1. Good(c, t) /\ c.inode[f].operation /\ pos \in Nat
    BY DEF Behold
  <2>2. GoodFile(c, t, f)
    BY <2>1 DEF Good
  <2>3. pos \in 0 .. max_file_size
    BY <2>2 DEF GoodFile
  <2> QED BY <2>1, <2>3, Sizes
<1>2. q \in Nat /\ pos = q * Words + 0
  BY <1>1, DivMod
<1>3. q # 0 /\ q - 1 \in Nat
  <2> HIDE DEF q
  <2>1. 0 * Words = 0
    BY Sizes
  <2>2. q # 0
    BY <1>2, <2>1
  <2> QED BY <1>2, <2>2
<1>4. GoodFile(c, t, f) /\ Sound(c, t) /\ c \in Disks
  BY <1>1 DEF Good, Sane
<1>5. c.inode[f].block_number = q /\ Fills(t, f, q)
  BY <1>1, <1>4 DEF GoodFile, BlocksOf
<1>6. q <= Capacity
  BY <1>5 DEF Fills
<1>7. Rough(c, c, f, S, q)
  BY <1>1, <1>5, RoughStart
<1>8. FirstBlock(c, f).disk = c /\ FirstBlock(c, f).block # NULL
  BY <1>1, OpensFirst
<1>9. SwitchAddress(c, f, q) \in {NULL, WILD}
  <2> HIDE DEF q
  <2>1. CASE q = Capacity
    BY <2>1, BehindAll
  <2>2. CASE q # Capacity
    <3>1. q \in 0 .. Capacity - 1 /\ q \in Places /\ q >= 0
      BY <1>2, <1>6, <2>2, Sizes DEF Places
    <3>2. q \notin Filled(q)
      BY <1>2, <3>1 DEF Filled, Single, Top
    <3>3. t[f][q] = NULL
      BY <1>5, <3>1, <3>2 DEF Fills
    <3> QED BY <1>1, <1>4, <3>1, <3>3, BeyondLemma
  <2> QED BY <2>1, <2>2
<1>10. WILD \notin Blocks /\ NULL \notin Blocks /\ WILD # NULL /\ 0 # Words
  BY BlocksFinite, Sizes
<1> DEFINE a == SwitchAddress(c, f, pos \div Words)
           start == WriteStart(c, f, pos)
<1>11. a \in {NULL, WILD}
  BY <1>9
<1>12. start = IF a = NULL THEN AllocateBlock(c, f) ELSE [disk |-> c, block |-> a]
  BY DEF WriteStart
<1>13. ASSUME NEW e, NEW b, start.disk = e, start.block = b PROVE Opens(c, f, pos, e, b)
  BY <1>8, <1>13 DEF Opens
<1> HIDE DEF a, start, q, S
<1>14. CASE a = WILD
  <2>1. start = [disk |-> c, block |-> WILD]
    BY <1>10, <1>12, <1>14
  <2>2. Opens(c, f, pos, c, WILD)
    BY <1>13, <2>1
  <2>3. ASSUME NEW word PROVE Drifts(PutWord(Put(c, f, WILD, 0, 0), word), c, f, S, pos)
    BY <1>4, <1>10, DriftsOff
  <2>4. Begins(c, t, f, pos, c, WILD)
    BY <2>2, <2>3 DEF Begins, S
  <2> QED BY <2>4
<1>15. CASE a = NULL
  <2> DEFINE e == start.disk
             b == start.block
             P == q - 1
  <2>1. start = AllocateBlock(c, f)
    BY <1>12, <1>15
  <2>2. Behind(c, f, q, P)
    BY <1>2, <1>3, <1>6, Sizes DEF Behind
  <2>3. Roughly(c, c, f, S, q, P, start)
    <3> HIDE DEF P
    <3> QED BY <1>7, <2>1, <2>2, RoughAllocate
  <2>4. Opens(c, f, pos, e, b)
    BY <1>13
  <2> HIDE DEF e, b
  <2>5. ASSUME NEW word, Plain(word)
        PROVE  Drifts(PutWord(Put(e, f, b, 0, 0), word), c, f, S, pos)
    <3>1. CASE b = NULL /\ e \in Disks
      <4>1. b \notin Blocks
        BY <1>10, <3>1
      <4> QED BY <1>10, <3>1, <4>1, DriftsOff
    <3>2. CASE e.fault # ""
      <4> DEFINE w == Put(e, f, b, 0, 0)
      <4>1. w.disk.fault # ""
        BY <3>2 DEF Put
      <4>2. PutWord(w, word) = w
        BY <4>1, PutStays
      <4> HIDE DEF w
      <4> QED BY <4>1, <4>2 DEF Drifts, w
    <3>3. CASE Rough(c, e, f, S, q + 1) /\ Behind(e, f, q + 1, P + 1) /\ b \in S
      <4> DEFINE m == q + 1
                 zero == 0
      <4>1. P + 1 = q /\ zero \in 0 .. Words /\ zero \in Nat
        BY <1>2, Sizes
      <4>2. Rough(c, e, f, S, m) /\ Behind(e, f, m, q) /\ b \in S
        BY <3>3, <4>1
      <4>3. q * Words + zero = pos + zero
        BY <1>1, <1>2
      <4> HIDE DEF m, zero
      <4>4. Near(c, f, S, pos, m, q, e, b, zero, zero)
        BY <4>1, <4>2, <4>3, Zenon DEF Near
      <4>5. Drifts(Put(e, f, b, zero, zero), c, f, S, pos)
        BY <4>4, Zenon DEF Drifts
      <4>6. Drifts(PutWord(Put(e, f, b, zero, zero), word), c, f, S, pos)
        BY <1>1, <2>5, <4>5, DriftWord
      <4> QED BY <4>6 DEF zero
    <3> QED BY <2>3, <3>1, <3>2, <3>3 DEF Roughly, e, b
  <2>6. Begins(c, t, f, pos, e, b)
    BY <2>4, <2>5 DEF Begins, S
  <2> QED BY <2>6
<1> QED BY <1>11, <1>14, <1>15

\* The words are written, or the kernel has left the disk.
LEMMA StrayEnds ==
    ASSUME NEW c, NEW t, NEW f \in Files, NEW pos, Behold(c, t, f, pos),
           NEW w, Drifts(w, c, f, Own(t, f), pos)
    PROVE  Astray(c, t, f, pos, Finished(w, f))
<1> DEFINE S == Own(t, f)
           x == Finished(w, f)
<1>1. Good(c, t) /\ pos \in Nat /\ c \in Disks /\ t \in Trees
  BY DEF Behold, Good, Sane, Sound
<1>2. CASE w.disk.fault # ""
  <2>1. x = [disk |-> w.disk, ret |-> -1]
    BY <1>2 DEF Finished
  <2> HIDE DEF x
  <2>4. x.disk = w.disk
    BY <2>1
  <2>2. x.disk.fault # ""
    BY <1>2, <2>4, Zenon
  <2>3. Astray(c, t, f, pos, x)
    BY <2>2 DEF Astray
  <2> QED BY <2>3 DEF x
<1>3. CASE w.disk.fault = ""
  <2>1. PICK m, P, D, B, O, K : /\ Near(c, f, S, pos, m, P, D, B, O, K)
                                /\ w = Put(D, f, B, O, K) \/ w = Halt(D, f, B, O, K)
    BY <1>3, Zenon DEF Drifts
  <2>2. w.disk = D /\ w.done = K
    BY <2>1 DEF Put, Halt
  <2>3. /\ P \in Nat /\ P < Capacity /\ O \in 0 .. Words /\ K \in Nat /\ P * Words + O = pos + K
        /\ Rough(c, D, f, S, m)
    BY <2>1 DEF Near, Behind
  <2>4. /\ Sane(D) /\ D \in Disks /\ D.fault = "" /\ D.inode[f].size = c.inode[f].size
        /\ \A g \in Files : g # f => D.inode[g] = c.inode[g]
        /\ \A b \in Blocks : b \notin S => D.space[b] = c.space[b]
    BY <2>3 DEF Rough, Sane
  <2> DEFINE size == D.inode[f].size + K
             e == Sized(D, f, size)
  <2>5. size \in Nat
    <3>1. c.inode[f].size \in Nat
      BY <1>1 DEF Disks, Inodes
    <3>2. D.inode[f].size \in Nat
      BY <2>4, <3>1
    <3> DEFINE n == D.inode[f].size
    <3> HIDE DEF n
    <3>3. n + K \in Nat
      BY <2>3, <3>2 DEF n
    <3> QED BY <3>3 DEF n
  <2>6. x = [disk |-> e, ret |-> K]
    BY <1>3, <2>2 DEF Finished
  <2> HIDE DEF size
  <2>7. /\ e \in Disks /\ \A g \in Files : g # f => e.inode[g] = D.inode[g]
    BY <2>4, <2>5, SizedLemma
  <2>8. e.inode[f].size = size /\ e.inode[f].block_number = size \div Words
    BY <2>4, <2>5, SizedLemma
  <2>9. e.freeBlock_number = D.freeBlock_number /\ e.index = D.index
    BY <2>4, <2>5, SizedLemma
  <2>10. e.fault = D.fault /\ e.space = D.space
    BY <2>4, <2>5, SizedLemma
  <2> HIDE DEF e
  <2>11. Sane(e) /\ e.fault = ""
    BY <2>4, <2>7, <2>9, <2>10 DEF Sane
  <2>12. pos + K <= max_file_size
    <3>1. P * Words + Words <= Capacity * Words /\ max_file_size = Capacity * Words
      <4>1. Capacity \in Nat /\ Words \in Nat /\ Words > 0
        BY Sizes
      <4> QED BY <2>3, <4>1, Multiples, Sizes
    <3>2. P * Words \in Nat /\ Words \in Nat /\ Capacity * Words \in Nat
      BY <2>3, Sizes
    <3> QED BY <2>3, <3>1, <3>2
  <2>13. ASSUME NEW g \in Files, g # f PROVE e.inode[g] = c.inode[g] /\ Agree(c, t, g, e)
    <3>1. e.inode[g] = c.inode[g]
      BY <2>4, <2>7, <2>13
    <3>2. ASSUME NEW p \in Places, t[g][p] \in Blocks PROVE e.space[t[g][p]] = c.space[t[g][p]]
      <4>1. t[g][p] \notin S
        BY <2>13, <3>2 DEF Own
      <4>2. D.space[t[g][p]] = c.space[t[g][p]]
        BY <2>4, <3>2, <4>1
      <4> QED BY <2>10, <4>2
    <3> QED BY <3>1, <3>2 DEF Agree
  <2>14. x.disk = e /\ x.ret = K
    BY <2>6
  <2> HIDE DEF x
  <2>15. Astray(c, t, f, pos, x)
    BY <2>3, <2>8, <2>11, <2>12, <2>13, <2>14 DEF Astray
  <2> QED BY <2>15 DEF x
<1> QED BY <1>2, <1>3

\* The write ends so, once its first word is written.
LEMMA StrayAll ==
    ASSUME NEW c, NEW t, NEW f \in Files, NEW pos, Behold(c, t, f, pos),
           NEW e, NEW b, Begins(c, t, f, pos, e, b), NEW n \in Nat, n # 0,
           NEW words, DOMAIN words = 1 .. n, \A k \in 1 .. n : Plain(words[k])
    PROVE  Astray(c, t, f, pos, WriteFile(c, f, pos, words))
<1> DEFINE S == Own(t, f)
           w == Put(e, f, b, pos % Words, 0)
           end == PutWords(w, words)
           x == Finished(end, f)
<1>1. pos \in Nat
  BY DEF Behold
<1>2. Plain(words[1])
  <2>1. 1 \in 1 .. n
    OBVIOUS
  <2> QED BY <2>1
<1>3. Drifts(PutWord(w, words[1]), c, f, S, pos)
  BY <1>2 DEF Begins
<1> HIDE DEF S, w
<1>4. Drifts(end, c, f, S, pos)
  BY <1>1, <1>3, DriftAll
<1> HIDE DEF end
<1>5. Astray(c, t, f, pos, x)
  BY <1>4, StrayEnds DEF S
<1>6. WriteFile(c, f, pos, words) = x
  <2>1. Opens(c, f, pos, e, b)
    BY DEF Begins
  <2>2. WriteFile(c, f, pos, words) =
            Finished(PutWords(Put(e, f, b, pos % Words, 0), words), f)
    BY <2>1, WriteIs
  <2> QED BY <2>2 DEF end, w
<1> QED BY <1>5, <1>6

\* A write before the end of a file, or at its end where that is a block's edge.
LEMMA DisorderlyWrite ==
    ASSUME NEW c, NEW t, NEW f \in Files, NEW pos, Behold(c, t, f, pos),
           ~(pos = c.inode[f].size /\ (pos % Words = 0 => pos = 0)), NEW n \in Nat, n # 0,
           NEW words, words = [i \in 1 .. n |-> Data(f, pos + i - 1)]
    PROVE  Astray(c, t, f, pos, WriteFile(c, f, pos, words))
<1>1. pos \in Nat /\ pos <= c.inode[f].size /\ Good(c, t) /\ c.inode[f].operation
  BY DEF Behold
<1>2. c.inode[f].size \in Nat
  BY <1>1 DEF Good, Sane, Disks, Inodes
<1>3. DOMAIN words = 1 .. n /\ \A k \in 1 .. n : Plain(words[k])
  <2>1. ASSUME NEW k \in 1 .. n PROVE Plain(words[k])
    <3>1. words[k] = Data(f, pos + k - 1) /\ pos + k - 1 \in Nat
      BY <1>1
    <3>2. words[k] \in Word
      BY <3>1 DEF Word
    <3>3. words[k].kind = "data"
      BY <3>1 DEF Data
    <3> QED BY <3>2, <3>3 DEF Plain
  <2> QED BY <2>1
<1>4. \E e, b : Begins(c, t, f, pos, e, b)
  <2>1. CASE pos < c.inode[f].size
    <3> DEFINE S == Own(t, f)
    <3>1. PICK b : /\ Opens(c, f, pos, c, b)
                   /\ Drifts(Put(c, f, b, pos % Words, 0), c, f, S, pos)
      BY <2>1, StrayInside
    <3> DEFINE w == Put(c, f, b, pos % Words, 0)
    <3> HIDE DEF S, w
    <3>2. Drifts(w, c, f, S, pos)
      BY <3>1 DEF w
    <3>3. ASSUME NEW word, Plain(word) PROVE Drifts(PutWord(w, word), c, f, S, pos)
      BY <1>1, <3>2, <3>3, DriftWord
    <3>4. Begins(c, t, f, pos, c, b)
      BY <3>1, <3>3 DEF Begins, w, S
    <3> QED BY <3>4
  <2>2. CASE pos = c.inode[f].size
    <3>1. pos % Words = 0 /\ pos # 0
      BY <2>2
    <3> QED BY <2>2, <3>1, StrayEdge
  <2> QED BY <1>1, <1>2, <2>1, <2>2
<1>5. PICK e, b : Begins(c, t, f, pos, e, b)
  BY <1>4
<1> QED BY <1>3, <1>5, StrayAll

-----------------------------------------------------------------------------
(* free_block.                                                             *)

\* The blocks at some places of a file.
Spots(t, f, A) == {t[f][p] : p \in A}

\* From d on, the blocks at the places A of file f have been given back.
Gone(d, t, f, A, e) ==
    /\ A \subseteq Places /\ \A p \in A : t[f][p] # NULL
    /\ Sane(e) /\ e.fault = "" /\ e.inode = d.inode
    /\ e.index = d.index \ Spots(t, f, A)
    /\ \A b \in Blocks : e.space[b] = IF b \in Spots(t, f, A) THEN ZeroBlock ELSE d.space[b]

\* None has.
LEMMA GoneNone ==
    ASSUME NEW d, NEW t, Good(d, t), NEW f
    PROVE  Gone(d, t, f, {}, d)
<1>1. Sane(d) /\ d.fault = ""
  BY DEF Good
<1>2. Spots(t, f, {}) = {}
  BY DEF Spots
<1> QED BY <1>1, <1>2 DEF Gone

\* A block at another place is as it was.
LEMMA GoneOut ==
    ASSUME NEW d, NEW t, Sound(d, t), NEW f \in Files, NEW A, NEW e, Gone(d, t, f, A, e),
           NEW p \in Places, p \notin A, t[f][p] # NULL
    PROVE  /\ t[f][p] \in Blocks /\ t[f][p] \in e.index
           /\ \A i : Follow(e, t[f][p], i) = Follow(d, t[f][p], i)
<1>1. t[f][p] \in Blocks /\ t[f][p] \in d.index
  BY DEF Sound, Trees
<1>2. A \subseteq Places /\ e.index = d.index \ Spots(t, f, A)
  BY DEF Gone
<1>3. t[f][p] \notin Spots(t, f, A)
  <2>1. ASSUME NEW q \in A PROVE t[f][q] # t[f][p]
    BY <1>2 DEF Sound, Separate
  <2> QED BY <2>1 DEF Spots
<1>4. e.space[t[f][p]] = d.space[t[f][p]]
  BY <1>1, <1>3 DEF Gone
<1>5. \A i : Follow(e, t[f][p], i) = Follow(d, t[f][p], i)
  BY <1>4 DEF Follow
<1> QED BY <1>1, <1>2, <1>3, <1>5

\* Another block is given back.
LEMMA GoneStep ==
    ASSUME NEW d, NEW t, Sound(d, t), NEW f \in Files, NEW A, NEW e, Gone(d, t, f, A, e),
           NEW p \in Places, p \notin A, t[f][p] # NULL
    PROVE  Gone(d, t, f, A \cup {p}, GiveBack(e, t[f][p]))
<1> DEFINE b == t[f][p]
           x == GiveBack(e, b)
           B == A \cup {p}
           z == ZeroBlock
<1>1. b \in Blocks /\ b \in e.index
  BY GoneOut
<1>2. /\ A \subseteq Places /\ \A q \in A : t[f][q] # NULL
      /\ Sane(e) /\ e.fault = "" /\ e.inode = d.inode /\ e.index = d.index \ Spots(t, f, A)
      /\ \A c \in Blocks : e.space[c] = IF c \in Spots(t, f, A) THEN z ELSE d.space[c]
  BY DEF Gone
<1>3. Spots(t, f, B) = Spots(t, f, A) \cup {b}
  BY DEF Spots
<1> HIDE DEF b, z
<1>4. Sane(x)
  BY <1>1, <1>2, GiveBackLemma
<1>5. x.inode = e.inode /\ x.fault = e.fault /\ x.index = e.index \ {b}
  BY <1>1, <1>2, GiveBackLemma
<1>6. x.space = [e.space EXCEPT ![b] = z]
  BY <1>1, <1>2, GiveBackLemma DEF z
<1> HIDE DEF x
<1>7. e.space \in [Blocks -> [Index -> Word]]
  BY <1>2 DEF Sane, Disks
<1>8. \A c \in Blocks : x.space[c] = IF c = b THEN z ELSE e.space[c]
  BY <1>6, <1>7
<1>9. \A c \in Blocks : x.space[c] = IF c \in Spots(t, f, B) THEN z ELSE d.space[c]
  BY <1>2, <1>3, <1>8
<1>10. x.index = d.index \ Spots(t, f, B)
  BY <1>2, <1>3, <1>5
<1>11. B \subseteq Places /\ \A q \in B : t[f][q] # NULL
  BY <1>2
<1>12. Gone(d, t, f, B, x)
  BY <1>2, <1>4, <1>5, <1>9, <1>10, <1>11 DEF Gone, z
<1> QED BY <1>12 DEF x, b

\* The state of a loop.
Turning(D, E) == [disk |-> D, end |-> E]

\* A turn over pointers: it is over, it ends here, or a block is given back.
LEMMA FreeNextIs ==
    ASSUME NEW D, NEW E, NEW b
    PROVE  /\ E \/ ~Up(D) => FreeNext(Turning(D, E), b) = Turning(D, E)
           /\ ~E /\ Up(D) /\ b = NULL => FreeNext(Turning(D, E), b) = Turning(D, TRUE)
           /\ ~E /\ Up(D) /\ b # NULL =>
                 FreeNext(Turning(D, E), b) = Turning(GiveBack(D, b), E)
<1> DEFINE w == Turning(D, E)
           x == GiveBack(D, b)
<1>1. w.disk = D /\ w.end = E
  BY DEF Turning
<1>2. E \/ ~Up(D) => FreeNext(w, b) = w
  BY <1>1 DEF FreeNext, Up
<1>3. ~E /\ Up(D) /\ b = NULL => FreeNext(w, b) = [w EXCEPT !.end = TRUE]
  BY <1>1 DEF FreeNext, Up
<1>4. ~E /\ Up(D) /\ b # NULL => FreeNext(w, b) = [w EXCEPT !.disk = x]
  BY <1>1 DEF FreeNext, Up
<1>5. [w EXCEPT !.end = TRUE] = Turning(D, TRUE)
  <2> DEFINE y == TRUE
  <2> HIDE DEF y
  <2>1. [w EXCEPT !.end = y] = Turning(D, y)
    BY DEF Turning
  <2> QED BY <2>1 DEF y
<1> HIDE DEF x
<1>6. [w EXCEPT !.disk = x] = Turning(x, E)
  BY DEF Turning
<1> QED BY <1>2, <1>3, <1>4, <1>5, <1>6 DEF x

\* A turn over rows.
LEMMA FreeRowNextIs ==
    ASSUME NEW D, NEW E, NEW b
    PROVE  /\ E \/ ~Up(D) => FreeRowNext(Turning(D, E), b) = Turning(D, E)
           /\ ~E /\ Up(D) /\ b = NULL => FreeRowNext(Turning(D, E), b) = Turning(D, TRUE)
           /\ ~E /\ Up(D) /\ b # NULL =>
                 FreeRowNext(Turning(D, E), b) = Turning(FreeRow(D, b), E)
<1> DEFINE w == Turning(D, E)
           x == FreeRow(D, b)
<1>1. w.disk = D /\ w.end = E
  BY DEF Turning
<1>2. E \/ ~Up(D) => FreeRowNext(w, b) = w
  BY <1>1 DEF FreeRowNext, Up
<1>3. ~E /\ Up(D) /\ b = NULL => FreeRowNext(w, b) = [w EXCEPT !.end = TRUE]
  BY <1>1 DEF FreeRowNext, Up
<1> HIDE DEF x
<1>4. ~E /\ Up(D) /\ b # NULL => FreeRowNext(w, b) = [w EXCEPT !.disk = x]
  BY <1>1 DEF FreeRowNext, Up, x
<1>5. [w EXCEPT !.end = TRUE] = Turning(D, TRUE)
  <2> DEFINE y == TRUE
  <2> HIDE DEF y
  <2>1. [w EXCEPT !.end = y] = Turning(D, y)
    BY DEF Turning
  <2> QED BY <2>1 DEF y
<1>6. [w EXCEPT !.disk = x] = Turning(x, E)
  BY DEF Turning
<1> QED BY <1>2, <1>3, <1>4, <1>5, <1>6 DEF x

\* The loop over the inode's pointers comes to the direct places, then to the
\* block of single-indirect pointers.
Loc(j) == IF j = Direct THEN Single ELSE j

\* The places behind its first k turns.
Passed(t, f, k) == {p \in Places : t[f][p] # NULL /\ \E j \in 0 .. k - 1 : p = Loc(j)}

\* Where loop i of a fold is in the array.
LEMMA UpToIs ==
    ASSUME NEW n \in Nat
    PROVE  /\ DOMAIN UpTo(n) = 1 .. n + 1 /\ n + 1 \in Nat
           /\ \A k \in 0 .. n : k + 1 \in 1 .. n + 1 /\ UpTo(n)[k + 1] = k /\ k + 1 - 1 = k
BY DEF UpTo

\* The pointers in the inode.
LEMMA LocIs ==
    ASSUME NEW d, NEW t, Sound(d, t), NEW f \in Files, d.inode[f].operation, NEW j \in 0 .. Direct
    PROVE  Loc(j) \in Places /\ d.inode[f].location[j] = t[f][Loc(j)]
<1>1. CASE j = Direct
  <2>1. d.inode[f].location[Direct] = t[f][Single]
    BY RootsOf
  <2>2. Loc(j) = Single /\ Single \in Places
    BY <1>1, Sizes DEF Loc, Places, Single
  <2> QED BY <1>1, <2>1, <2>2
<1>2. CASE j # Direct
  <2>1. j \in 0 .. Direct - 1 /\ Loc(j) = j /\ j \in Places
    BY <1>2, Sizes DEF Loc, Places
  <2>2. d.inode[f].location[j] = t[f][j]
    BY <2>1, RootsOf
  <2> QED BY <2>1, <2>2
<1> QED BY <1>1, <1>2

\* Behind the first empty one all are empty.
LEMMA LocEnds ==
    ASSUME NEW t, NEW f, NEW n, n \in Nat, Fills(t, f, n), NEW k \in 0 .. Direct,
           t[f][Loc(k)] = NULL, NEW j \in k .. Direct
    PROVE  t[f][Loc(j)] = NULL
<1>1. \A p \in Places : t[f][p] # NULL <=> p \in Filled(n)
  BY DEF Fills
<1>2. CASE k = Direct
  <2>1. j = k
    BY <1>2, Sizes
  <2> QED BY <2>1
<1>3. CASE k # Direct
  <2>1. Loc(k) = k /\ k \in Places /\ k >= 0
    BY <1>3, Sizes DEF Loc, Places
  <2>2. ~(k < n)
    BY <1>1, <2>1 DEF Filled
  <2>3. k \in Nat /\ k < Direct /\ n <= k
    BY <1>3, <2>2, Sizes
  <2>4. CASE j = Direct
    <3>1. Loc(j) = Single /\ Single \in Places
      BY <2>4, Sizes DEF Loc, Places, Single
    <3>2. Single \notin Filled(n)
      BY <2>3, Sizes DEF Filled, Single, Top
    <3> QED BY <1>1, <3>1, <3>2
  <2>5. CASE j # Direct
    <3>1. Loc(j) = j /\ j \in Places /\ j >= 0 /\ ~(j < n)
      BY <2>3, <2>5, Sizes DEF Loc, Places
    <3>2. j \notin Filled(n)
      BY <3>1, Sizes DEF Filled, Single, Top
    <3> QED BY <1>1, <3>1, <3>2
  <2> QED BY <2>4, <2>5
<1> QED BY <1>2, <1>3

\* One more turn passes one more place.
LEMMA PassedNext ==
    ASSUME NEW t, NEW f, NEW k \in 0 .. Direct
    PROVE  /\ Loc(k) \notin Passed(t, f, k)
           /\ t[f][Loc(k)] = NULL => Passed(t, f, k + 1) = Passed(t, f, k)
           /\ Loc(k) \in Places /\ t[f][Loc(k)] # NULL =>
                 Passed(t, f, k + 1) = Passed(t, f, k) \cup {Loc(k)}
<1>1. \A j \in 0 .. k - 1 : Loc(j) # Loc(k)
  BY Sizes DEF Loc, Single
<1>2. 0 .. (k + 1) - 1 = (0 .. k - 1) \cup {k}
  OBVIOUS
<1> QED BY <1>1, <1>2 DEF Passed

\* The loop over the pointers in the inode.
LocationsAt(d, t, f, k, w) == \E D, E :
    /\ w = Turning(D, E) /\ Gone(d, t, f, Passed(t, f, k), D)
    /\ E => \A j \in k .. Direct : t[f][Loc(j)] = NULL

\* One more turn of it.
LEMMA LocationsStep ==
    ASSUME NEW d, NEW t, Good(d, t), NEW f \in Files, d.inode[f].operation,
           NEW k \in 0 .. Direct, NEW w, LocationsAt(d, t, f, k, w)
    PROVE  LocationsAt(d, t, f, k + 1, FreeNext(w, d.inode[f].location[k]))
<1> DEFINE b == d.inode[f].location[k]
           v == FreeNext(w, b)
           A == Passed(t, f, k)
           B == Passed(t, f, k + 1)
<1>1. PICK D, E : /\ w = Turning(D, E) /\ Gone(d, t, f, A, D)
                  /\ E => \A j \in k .. Direct : t[f][Loc(j)] = NULL
  BY DEF LocationsAt
<1>2. Sound(d, t) /\ GoodFile(d, t, f)
  BY DEF Good
<1>3. Loc(k) \in Places /\ b = t[f][Loc(k)]
  BY <1>2, LocIs
<1>4. Up(D)
  BY <1>1 DEF Gone, Up
<1> DEFINE n == BlocksOf(d.inode[f].size)
<1>5. n \in Nat /\ Fills(t, f, n)
  <2>1. d.inode[f].size \in Nat /\ Fills(t, f, n)
    BY <1>2, Sizes DEF GoodFile
  <2>2. \A m \in Nat : m \div Words \in Nat
    BY DivMod
  <2> QED BY <2>1, <2>2 DEF BlocksOf
<1>6. k + 1 .. Direct \subseteq k .. Direct /\ k \in k .. Direct
  BY Sizes
<1> HIDE DEF b, A, B, n
<1>7. CASE E
  <2>1. t[f][Loc(k)] = NULL
    BY <1>1, <1>6, <1>7
  <2>2. v = Turning(D, E)
    BY <1>1, <1>7, FreeNextIs
  <2>3. B = A
    BY <2>1, PassedNext DEF A, B
  <2> HIDE DEF v
  <2>4. LocationsAt(d, t, f, k + 1, v)
    BY <1>1, <1>6, <1>7, <2>2, <2>3 DEF LocationsAt, B
  <2> QED BY <2>4 DEF v, b
<1>8. CASE ~E /\ b = NULL
  <2>1. v = Turning(D, TRUE)
    BY <1>1, <1>4, <1>8, FreeNextIs
  <2>2. B = A
    BY <1>3, <1>8, PassedNext DEF A, B
  <2>3. \A j \in k + 1 .. Direct : t[f][Loc(j)] = NULL
    BY <1>3, <1>5, <1>6, <1>8, LocEnds
  <2> HIDE DEF v
  <2>4. LocationsAt(d, t, f, k + 1, v)
    BY <1>1, <2>1, <2>2, <2>3 DEF LocationsAt, B
  <2> QED BY <2>4 DEF v, b
<1>9. CASE ~E /\ b # NULL
  <2>1. v = Turning(GiveBack(D, b), E)
    BY <1>1, <1>4, <1>9, FreeNextIs
  <2>2. Loc(k) \notin A /\ B = A \cup {Loc(k)}
    BY <1>3, <1>9, PassedNext DEF A, B
  <2>3. Gone(d, t, f, B, GiveBack(D, b))
    BY <1>1, <1>2, <1>3, <1>9, <2>2, GoneStep
  <2> HIDE DEF v
  <2>4. LocationsAt(d, t, f, k + 1, v)
    BY <1>9, <2>1, <2>3 DEF LocationsAt, B
  <2> QED BY <2>4 DEF v, b
<1> QED BY <1>7, <1>8, <1>9

\* The loops of free_block are folds.
LEMMA LoopsAre ==
    ASSUME NEW x, NEW d
    PROVE  /\ x.kind = "locations" =>
                 FreeLocations(d, x.location) = FoldOf(x, Loop(d), UpTo(Direct))
           /\ x.kind = "pointers" =>
                 FreePointers(d, x.block) = FoldOf(x, Loop(d), UpTo(Words - 1))
           /\ x.kind = "rows" =>
                 FreeRows(d, x.block) = FoldOf(x, Loop(d), UpTo(Words - 1))
<1>1. ASSUME x.kind = "locations"
      PROVE  FreeLocations(d, x.location) = FoldOf(x, Loop(d), UpTo(Direct))
  BY <1>1 DEF FreeLocations, FoldOf, LastDirect
<1>2. ASSUME x.kind = "pointers"
      PROVE  FreePointers(d, x.block) = FoldOf(x, Loop(d), UpTo(Words - 1))
  BY <1>2 DEF FreePointers, FoldOf
<1>3. ASSUME x.kind = "rows"
      PROVE  FreeRows(d, x.block) = FoldOf(x, Loop(d), UpTo(Words - 1))
  BY <1>3 DEF FreeRows, FoldOf
<1> QED BY <1>1, <1>2, <1>3

\* What its pointers lead to is given back.
LEMMA FreeLocationsLemma ==
    ASSUME NEW d, NEW t, Good(d, t), NEW f \in Files, d.inode[f].operation
    PROVE  Gone(d, t, f, Passed(t, f, Direct + 1), FreeLocations(d, d.inode[f].location).disk)
<1> DEFINE s == UpTo(Direct)
           x == [kind |-> "locations", location |-> d.inode[f].location]
           n == Direct + 1
<1>1. /\ DOMAIN s = 1 .. n /\ n \in Nat
      /\ \A k \in 0 .. Direct : k + 1 \in 1 .. n /\ s[k + 1] = k /\ k + 1 - 1 = k
  BY UpToIs, Sizes
<1>2. PICK tr : Trace(tr, x, Loop(d), s, n) /\ FoldOf(x, Loop(d), s) = tr[n]
  <2> HIDE DEF s, x, n
  <2> QED BY <1>1, FoldTrace
<1>3. FreeLocations(d, d.inode[f].location) = tr[n]
  <2>1. x.kind = "locations" /\ x.location = d.inode[f].location
    OBVIOUS
  <2> HIDE DEF x
  <2>2. FreeLocations(d, x.location) = FoldOf(x, Loop(d), s)
    BY <2>1, LoopsAre
  <2> QED BY <1>2, <2>1, <2>2
<1>4. tr[0] = Loop(d) /\ \A k \in 1 .. n : tr[k] = FreeNext(tr[k - 1], d.inode[f].location[s[k]])
  BY <1>2 DEF Trace, Turn
<1> HIDE DEF s, x, n
<1> DEFINE P == {k \in 0 .. n : LocationsAt(d, t, f, k, tr[k])}
<1>5. 0 \in P
  <2>1. Passed(t, f, 0) = {}
    BY DEF Passed
  <2>2. Gone(d, t, f, Passed(t, f, 0), d)
    BY <2>1, GoneNone
  <2>3. tr[0] = Turning(d, FALSE)
    BY <1>4 DEF Loop, Turning
  <2>4. LocationsAt(d, t, f, 0, tr[0])
    BY <2>2, <2>3 DEF LocationsAt
  <2> QED BY <1>1, <2>4
<1>6. ASSUME NEW k \in 0 .. n - 1, k \in P PROVE k + 1 \in P
  <2>1. k \in 0 .. Direct /\ k + 1 \in 0 .. n
    BY <1>1, Sizes DEF n
  <2>2. k + 1 \in 1 .. n /\ s[k + 1] = k /\ k + 1 - 1 = k
    BY <1>1, <2>1
  <2>3. tr[k + 1] = FreeNext(tr[k], d.inode[f].location[k])
    BY <1>4, <2>2
  <2>4. LocationsAt(d, t, f, k + 1, tr[k + 1])
    BY <1>6, <2>1, <2>3, LocationsStep
  <2> QED BY <2>1, <2>4
<1>7. \A k \in 0 .. n : k \in P
  <2> HIDE DEF P
  <2> QED BY <1>1, <1>5, <1>6, Upwards
<1>8. LocationsAt(d, t, f, n, tr[n])
  BY <1>1, <1>7
<1> QED BY <1>3, <1>8 DEF LocationsAt, n, Turning

\* The places before data block x that free_block comes to.
Below(x) == {p \in Places : p >= Single /\ p < x}

\* What the loop over the pointers of block b goes through.
Pointing(tr, d, b) ==
    /\ FreePointers(d, b) = tr[Words] /\ tr[0] = Turning(d, FALSE)
    /\ \A k \in Index : tr[k + 1] = FreeNext(tr[k], Follow(tr[k].disk, b, k))

\* There is such a sequence of turns.
LEMMA PointersTrace ==
    ASSUME NEW d, NEW b
    PROVE  \E tr : Pointing(tr, d, b)
<1> DEFINE s == UpTo(Words - 1)
           x == [kind |-> "pointers", block |-> b]
<1>1. /\ DOMAIN s = 1 .. Words /\ Words \in Nat
      /\ \A k \in Index : k + 1 \in 1 .. Words /\ s[k + 1] = k /\ k + 1 - 1 = k
  <2>1. Words - 1 \in Nat /\ Words - 1 + 1 = Words /\ Words \in Nat
    BY Sizes
  <2> QED BY <2>1, UpToIs DEF Index
<1>2. PICK tr : Trace(tr, x, Loop(d), s, Words) /\ FoldOf(x, Loop(d), s) = tr[Words]
  <2> HIDE DEF s, x
  <2> QED BY <1>1, FoldTrace
<1>3. FreePointers(d, b) = tr[Words]
  <2>1. x.kind = "pointers" /\ x.block = b
    OBVIOUS
  <2> HIDE DEF x
  <2>2. FreePointers(d, x.block) = FoldOf(x, Loop(d), s)
    BY <2>1, LoopsAre
  <2> QED BY <1>2, <2>1, <2>2
<1>4. /\ tr[0] = Loop(d)
      /\ \A k \in 1 .. Words : tr[k] = FreeNext(tr[k - 1], Follow(tr[k - 1].disk, b, s[k]))
  BY <1>2 DEF Trace, Turn
<1> HIDE DEF s, x
<1>5. tr[0] = Turning(d, FALSE)
  BY <1>4 DEF Loop, Turning
<1>6. ASSUME NEW k \in Index PROVE tr[k + 1] = FreeNext(tr[k], Follow(tr[k].disk, b, k))
  <2> DEFINE m == k + 1
  <2>0. k + 1 \in 1 .. Words /\ s[k + 1] = k /\ k + 1 - 1 = k
    BY <1>1
  <2>1. m \in 1 .. Words /\ s[m] = k /\ m - 1 = k
    <3>1. m \in 1 .. Words
      BY <2>0
    <3>2. s[m] = k
      BY <2>0
    <3>3. m - 1 = k
      BY Sizes DEF Index
    <3> QED BY <3>1, <3>2, <3>3
  <2> HIDE DEF m
  <2>2. tr[m] = FreeNext(tr[m - 1], Follow(tr[m - 1].disk, b, s[m]))
    BY <1>4, <2>1
  <2>3. tr[m] = FreeNext(tr[k], Follow(tr[k].disk, b, k))
    BY <2>1, <2>2
  <2> QED BY <2>3 DEF m
<1> QED BY <1>3, <1>5, <1>6, Zenon DEF Pointing

\* What the loop over the rows goes through.
Rowing(tr, d, b) ==
    /\ FreeRows(d, b) = tr[Words] /\ tr[0] = Turning(d, FALSE)
    /\ \A k \in Index : tr[k + 1] = FreeRowNext(tr[k], Follow(tr[k].disk, b, k))

\* There is one here, too.
LEMMA RowsTrace ==
    ASSUME NEW d, NEW b
    PROVE  \E tr : Rowing(tr, d, b)
<1> DEFINE s == UpTo(Words - 1)
           x == [kind |-> "rows", block |-> b]
<1>1. /\ DOMAIN s = 1 .. Words /\ Words \in Nat
      /\ \A k \in Index : k + 1 \in 1 .. Words /\ s[k + 1] = k /\ k + 1 - 1 = k
  <2>1. Words - 1 \in Nat /\ Words - 1 + 1 = Words /\ Words \in Nat
    BY Sizes
  <2> QED BY <2>1, UpToIs DEF Index
<1>2. PICK tr : Trace(tr, x, Loop(d), s, Words) /\ FoldOf(x, Loop(d), s) = tr[Words]
  <2> HIDE DEF s, x
  <2> QED BY <1>1, FoldTrace
<1>3. FreeRows(d, b) = tr[Words]
  <2>1. x.kind = "rows" /\ x.block = b
    OBVIOUS
  <2> HIDE DEF x
  <2>2. FreeRows(d, x.block) = FoldOf(x, Loop(d), s)
    BY <2>1, LoopsAre
  <2> QED BY <1>2, <2>1, <2>2
<1>4. /\ tr[0] = Loop(d)
      /\ \A k \in 1 .. Words : tr[k] = FreeRowNext(tr[k - 1], Follow(tr[k - 1].disk, b, s[k]))
  BY <1>2 DEF Trace, Turn
<1> HIDE DEF s, x
<1>5. tr[0] = Turning(d, FALSE)
  BY <1>4 DEF Loop, Turning
<1>6. ASSUME NEW k \in Index PROVE tr[k + 1] = FreeRowNext(tr[k], Follow(tr[k].disk, b, k))
  <2> DEFINE m == k + 1
  <2>0. k + 1 \in 1 .. Words /\ s[k + 1] = k /\ k + 1 - 1 = k
    BY <1>1
  <2>1. m \in 1 .. Words /\ s[m] = k /\ m - 1 = k
    <3>1. m \in 1 .. Words
      BY <2>0
    <3>2. s[m] = k
      BY <2>0
    <3>3. m - 1 = k
      BY Sizes DEF Index
    <3> QED BY <3>1, <3>2, <3>3
  <2> HIDE DEF m
  <2>2. tr[m] = FreeRowNext(tr[m - 1], Follow(tr[m - 1].disk, b, s[m]))
    BY <1>4, <2>1
  <2>3. tr[m] = FreeRowNext(tr[k], Follow(tr[k].disk, b, k))
    BY <2>1, <2>2
  <2> QED BY <2>3 DEF m
<1> QED BY <1>3, <1>5, <1>6, Zenon DEF Rowing

\* A block that is zero leads nowhere: nothing is given back.
LEMMA FreeRowZero ==
    ASSUME NEW d, Up(d), NEW b \in Blocks, d.space[b] = ZeroBlock
    PROVE  FreeRow(d, b) = d
<1>0. PICK tr : Pointing(tr, d, b)
  BY PointersTrace
<1>1. /\ FreePointers(d, b) = tr[Words] /\ tr[0] = Turning(d, FALSE)
      /\ \A k \in Index : tr[k + 1] = FreeNext(tr[k], Follow(tr[k].disk, b, k))
  BY <1>0 DEF Pointing
<1> DEFINE P == {k \in 0 .. Words : \E E : tr[k] = Turning(d, E)}
<1>2. 0 \in P /\ Words \in Nat
  <2>1. Words \in Nat /\ 0 \in 0 .. Words
    BY Sizes
  <2>2. \E E : tr[0] = Turning(d, E)
    BY <1>1
  <2> QED BY <2>1, <2>2
<1>3. ASSUME NEW k \in 0 .. Words - 1, k \in P PROVE k + 1 \in P
  <2>1. k \in Index /\ k + 1 \in 0 .. Words
    BY <1>2 DEF Index
  <2>2. PICK E : tr[k] = Turning(d, E)
    BY <1>3
  <2>3. tr[k].disk = d
    BY <2>2 DEF Turning
  <2>4. Follow(d, b, k) = NULL
    <3>1. d.space[b][k] = Zero
      BY <2>1 DEF ZeroBlock, Index
    <3> QED BY <2>1, <3>1 DEF Follow, Zero, Index
  <2>5. tr[k + 1] = FreeNext(Turning(d, E), NULL)
    BY <1>1, <2>1, <2>2, <2>3, <2>4
  <2>6. CASE E
    <3>1. tr[k + 1] = Turning(d, E)
      BY <2>5, <2>6, FreeNextIs
    <3> QED BY <2>1, <3>1
  <2>7. CASE ~E
    <3>1. tr[k + 1] = Turning(d, TRUE)
      BY <2>5, <2>7, FreeNextIs
    <3> QED BY <2>1, <3>1
  <2> QED BY <2>6, <2>7
<1>4. \A k \in 0 .. Words : k \in P
  <2> HIDE DEF P
  <2> QED BY <1>2, <1>3, Upwards
<1>5. PICK E : tr[Words] = Turning(d, E)
  BY <1>2, <1>4
<1>6. FreePointers(d, b).disk = d
  BY <1>1, <1>5 DEF Turning
<1> QED BY <1>6 DEF FreeRow

\* Data block j of row r.
Under(r, j) == SingleEnd + r * Words + j

\* Rows follow one another.
LEMMA UnderIs ==
    ASSUME NEW r \in Index, NEW j \in 0 .. Words
    PROVE  /\ Under(r, 0) = SingleEnd + r * Words /\ Under(r, Words) = Under(r + 1, 0)
           /\ Under(r, j) \in Nat /\ Under(r, j + 1) = Under(r, j) + 1
           /\ j \in Index => /\ Under(r, j) \in SingleEnd .. Capacity - 1
                             /\ Under(r, j) \in Places
                             /\ (Under(r, j) - SingleEnd) \div Words = r
                             /\ (Under(r, j) - SingleEnd) % Words = j
<1> DEFINE a == r * Words
<1>1. a \in Nat /\ r \in Nat /\ j \in Nat /\ Words \in Nat /\ (r + 1) * Words = a + Words
      /\ SingleEnd \in Nat
  <2>1. r \in Nat /\ j \in Nat /\ Words \in Nat /\ SingleEnd \in Nat
    BY Sizes DEF Index
  <2> QED BY <2>1
<1>2. a + Words <= Words * Words /\ Words * Words \in Nat
      /\ Capacity = SingleEnd + Words * Words
  <2>1. r < Words /\ r \in Nat /\ Words \in Nat /\ Words > 0
    BY Sizes DEF Index
  <2>2. r * Words + Words <= Words * Words
    BY <2>1, Multiples
  <2> QED BY <2>2, Sizes DEF Capacity
<1> HIDE DEF a
<1>3. Under(r, j) = SingleEnd + a + j /\ Under(r, 0) = SingleEnd + a
      /\ Under(r, Words) = SingleEnd + a + Words /\ Under(r, j + 1) = SingleEnd + a + (j + 1)
      /\ Under(r + 1, 0) = SingleEnd + (a + Words)
  BY <1>1 DEF Under, a
<1>4. /\ Under(r, 0) = SingleEnd + r * Words /\ Under(r, Words) = Under(r + 1, 0)
      /\ Under(r, j) \in Nat /\ Under(r, j + 1) = Under(r, j) + 1
  <2>1. Under(r, 0) = SingleEnd + r * Words
    BY <1>3 DEF a
  <2> QED BY <1>1, <1>3, <2>1
<1>5. ASSUME j \in Index
      PROVE  /\ Under(r, j) \in SingleEnd .. Capacity - 1 /\ Under(r, j) \in Places
             /\ (Under(r, j) - SingleEnd) \div Words = r
             /\ (Under(r, j) - SingleEnd) % Words = j
  <2>1. j < Words
    BY <1>5, <1>1 DEF Index
  <2>2. Under(r, j) \in SingleEnd .. Capacity - 1 /\ Under(r, j) - SingleEnd = a + j
        /\ a + j \in Nat
    BY <1>1, <1>2, <1>3, <2>1
  <2>3. Under(r, j) \in Places
    BY <1>1, <2>2, Sizes DEF Places
  <2>4. (a + j) \div Words = r /\ (a + j) % Words = j
    <3>1. a + j = r * Words + j /\ r \in Nat
      BY <1>1 DEF a
    <3> QED BY <1>5, <2>2, <3>1, DivMod
  <2> QED BY <2>2, <2>3, <2>4
<1> QED BY <1>4, <1>5

\* A loop of free_block that has come to data block x.
Reached(d, t, f, x, w) == \E D, E, A :
    w = Turning(D, E) /\ Gone(d, t, f, A, D) /\ A \subseteq Below(x)

\* It comes to the next data block.
LEMMA ReachedNext ==
    ASSUME NEW d, NEW t, Sound(d, t), NEW f \in Files, d.inode[f].operation,
           NEW r \in Index, t[f][Row(r)] # NULL, NEW j \in Index, NEW x, x = Under(r, j),
           NEW w, Reached(d, t, f, x, w)
    PROVE  Reached(d, t, f, x + 1, FreeNext(w, Follow(w.disk, t[f][Row(r)], j)))
<1> DEFINE row == t[f][Row(r)]
<1>1. PICK D, E, A : w = Turning(D, E) /\ Gone(d, t, f, A, D) /\ A \subseteq Below(x)
  BY DEF Reached
<1>2. x \in SingleEnd .. Capacity - 1 /\ x \in Places /\ x \in Nat
      /\ (x - SingleEnd) \div Words = r /\ (x - SingleEnd) % Words = j
  <2>1. j \in 0 .. Words
    BY Sizes DEF Index
  <2> QED BY <2>1, UnderIs
<1>3. Row(r) \in Places /\ Row(r) < Single
  BY Sizes DEF Row, Places, Index, Single
<1>4. x \notin A /\ Row(r) \notin A
  <2>1. x \notin Below(x)
    BY <1>2 DEF Below
  <2>2. Row(r) \notin Below(x)
    <3>1. Row(r) \in Int /\ Single \in Int
      BY Sizes DEF Row, Index, Single
    <3> QED BY <1>3, <3>1 DEF Below
  <2> QED BY <1>1, <2>1, <2>2
<1>5. w.disk = D /\ Up(D)
  BY <1>1 DEF Turning, Gone, Up
<1>6. Follow(D, row, j) = Follow(d, row, j)
  BY <1>1, <1>3, <1>4, GoneOut
<1>7. Follow(d, row, j) = t[f][x]
  BY <1>2, UnderRowOf
<1> DEFINE b == t[f][x]
           v == FreeNext(Turning(D, E), b)
<1>8. FreeNext(w, Follow(w.disk, row, j)) = v
  BY <1>1, <1>5, <1>6, <1>7
<1>9. Below(x) \subseteq Below(x + 1) /\ x \in Below(x + 1)
  BY <1>2, Sizes DEF Below, Places, Single
<1>10. A \subseteq Below(x + 1)
  BY <1>1, <1>9
<1> HIDE DEF row
<1>11. CASE E
  <2>1. v = Turning(D, E)
    BY <1>11, FreeNextIs
  <2> HIDE DEF v
  <2> QED BY <1>1, <1>8, <1>10, <2>1 DEF Reached, row
<1>12. CASE ~E /\ b = NULL
  <2>1. v = Turning(D, TRUE)
    BY <1>5, <1>12, FreeNextIs
  <2> HIDE DEF v
  <2> QED BY <1>1, <1>8, <1>10, <2>1 DEF Reached, row
<1>13. CASE ~E /\ b # NULL
  <2>1. v = Turning(GiveBack(D, b), E)
    <3> HIDE DEF b
    <3>1. Up(D) /\ ~E /\ b # NULL
      BY <1>5, <1>13
    <3> QED BY <3>1, FreeNextIs
  <2>2. Gone(d, t, f, A \cup {x}, GiveBack(D, b))
    BY <1>1, <1>2, <1>4, <1>13, GoneStep
  <2>3. A \cup {x} \subseteq Below(x + 1)
    BY <1>9, <1>10
  <2> HIDE DEF v, b
  <2> QED BY <1>8, <2>1, <2>2, <2>3 DEF Reached, row
<1> QED BY <1>11, <1>12, <1>13

\* The data blocks of a row are given back.
LEMMA FreeRowLemma ==
    ASSUME NEW d, NEW t, Sound(d, t), NEW f \in Files, d.inode[f].operation,
           NEW r \in Index, t[f][Row(r)] # NULL,
           NEW A, NEW e, Gone(d, t, f, A, e), A \subseteq Below(Under(r, 0))
    PROVE  \E B : /\ Gone(d, t, f, B, FreeRow(e, t[f][Row(r)]))
                  /\ B \subseteq Below(Under(r + 1, 0))
<1> DEFINE b == t[f][Row(r)]
<1>1. b \in Blocks
  <2>1. Row(r) \in Places
    BY Sizes DEF Row, Places, Index
  <2> QED BY <2>1 DEF Sound, Trees
<1>2. PICK tr : Pointing(tr, e, b)
  BY PointersTrace
<1>3. /\ FreePointers(e, b) = tr[Words] /\ tr[0] = Turning(e, FALSE)
      /\ \A k \in Index : tr[k + 1] = FreeNext(tr[k], Follow(tr[k].disk, b, k))
  BY <1>2 DEF Pointing
<1> HIDE DEF b
<1> DEFINE P == {k \in 0 .. Words : Reached(d, t, f, Under(r, k), tr[k])}
<1>4. 0 \in P /\ Words \in Nat
  <2>1. Words \in Nat /\ 0 \in 0 .. Words
    BY Sizes
  <2>2. Reached(d, t, f, Under(r, 0), tr[0])
    BY <1>3 DEF Reached
  <2> QED BY <2>1, <2>2
<1>5. ASSUME NEW k \in 0 .. Words - 1, k \in P PROVE k + 1 \in P
  <2> DEFINE x == Under(r, k)
             v == FreeNext(tr[k], Follow(tr[k].disk, b, k))
  <2>1. k \in Index /\ k + 1 \in 0 .. Words /\ k \in 0 .. Words
    BY <1>4 DEF Index
  <2>2. Reached(d, t, f, x, tr[k]) /\ x = Under(r, k)
    BY <1>5
  <2> HIDE DEF x
  <2>3. Reached(d, t, f, x + 1, v)
    BY <2>1, <2>2, ReachedNext DEF b
  <2>4. Under(r, k + 1) = x + 1
    BY <2>1, <2>2, UnderIs
  <2>5. tr[k + 1] = v
    BY <1>3, <2>1
  <2> HIDE DEF v
  <2>6. Reached(d, t, f, Under(r, k + 1), tr[k + 1])
    BY <2>3, <2>4, <2>5
  <2> QED BY <2>1, <2>6
<1>6. \A k \in 0 .. Words : k \in P
  <2> HIDE DEF P
  <2> QED BY <1>4, <1>5, Upwards
<1>7. Reached(d, t, f, Under(r, Words), tr[Words])
  BY <1>4, <1>6
<1>8. Under(r, Words) = Under(r + 1, 0)
  <2>1. Words \in 0 .. Words
    BY <1>4
  <2> QED BY <2>1, UnderIs
<1>9. PICK D, E, B : tr[Words] = Turning(D, E) /\ Gone(d, t, f, B, D)
                     /\ B \subseteq Below(Under(r + 1, 0))
  BY <1>7, <1>8 DEF Reached
<1>10. FreeRow(e, b) = D
  BY <1>1, <1>3, <1>9 DEF FreeRow, Turning, b
<1> QED BY <1>9, <1>10 DEF b

\* The loop over the rows comes to the next one.
LEMMA ReachedRow ==
    ASSUME NEW d, NEW t, Sound(d, t), NEW f \in Files, d.inode[f].operation,
           t[f][Top] # NULL, NEW r \in Index, NEW w, Reached(d, t, f, Under(r, 0), w)
    PROVE  Reached(d, t, f, Under(r + 1, 0), FreeRowNext(w, Follow(w.disk, t[f][Top], r)))
<1> DEFINE top == t[f][Top]
           x == Under(r, 0)
           y == Under(r + 1, 0)
<1>1. PICK D, E, A : w = Turning(D, E) /\ Gone(d, t, f, A, D) /\ A \subseteq Below(x)
  BY DEF Reached
<1>2. Top \in Places /\ Top \notin A
  <2>1. Top \in Places /\ Top < Single
    BY Sizes DEF Top, Places, Single
  <2> QED BY <1>1, <2>1, Sizes DEF Below, Single, Top
<1>3. w.disk = D /\ Up(D)
  BY <1>1 DEF Turning, Gone, Up
<1>4. Follow(D, top, r) = Follow(d, top, r)
  BY <1>1, <1>2, GoneOut
<1>5. Follow(d, top, r) = t[f][Row(r)]
  BY UnderTopOf
<1> DEFINE b == t[f][Row(r)]
           v == FreeRowNext(Turning(D, E), b)
<1>6. FreeRowNext(w, Follow(w.disk, top, r)) = v
  BY <1>1, <1>3, <1>4, <1>5
<1>7. Below(x) \subseteq Below(y)
  <2>1. Words \in 0 .. Words /\ 0 \in 0 .. Words /\ 0 \in Index
    BY Sizes DEF Index
  <2>2. x \in Nat /\ Under(r, Words) \in Nat /\ y = Under(r, Words)
    BY <2>1, UnderIs
  <2>3. x <= y
    <3>1. x = SingleEnd + r * Words /\ y = SingleEnd + r * Words + Words
      BY <2>1, <2>2, UnderIs DEF Under
    <3>2. SingleEnd \in Nat /\ Words \in Nat /\ r * Words \in Nat
      <4>1. Words \in Nat /\ r \in Nat /\ SingleEnd \in Nat
        BY Sizes DEF Index
      <4> QED BY <4>1
    <3> HIDE DEF x, y
    <3> QED BY <3>1, <3>2
  <2> HIDE DEF x, y
  <2>4. \A p \in Places : p \in Int
    BY DEF Places
  <2> QED BY <2>2, <2>3, <2>4 DEF Below
<1>8. A \subseteq Below(y)
  BY <1>1, <1>7
<1> HIDE DEF top, y
<1>9. CASE E
  <2>1. v = Turning(D, E)
    BY <1>9, FreeRowNextIs
  <2> HIDE DEF v
  <2> QED BY <1>1, <1>6, <1>8, <2>1 DEF Reached, top, y
<1>10. CASE ~E /\ b = NULL
  <2>1. v = Turning(D, TRUE)
    BY <1>3, <1>10, FreeRowNextIs
  <2> HIDE DEF v
  <2> QED BY <1>1, <1>6, <1>8, <2>1 DEF Reached, top, y
<1>11. CASE ~E /\ b # NULL
  <2>1. v = Turning(FreeRow(D, b), E)
    <3> HIDE DEF b
    <3>1. Up(D) /\ ~E /\ b # NULL
      BY <1>3, <1>11
    <3> QED BY <3>1, FreeRowNextIs
  <2>2. PICK B : Gone(d, t, f, B, FreeRow(D, b)) /\ B \subseteq Below(y)
    BY <1>1, <1>11, FreeRowLemma DEF y
  <2> HIDE DEF v, b
  <2> QED BY <1>6, <2>1, <2>2 DEF Reached, top, y
<1> QED BY <1>9, <1>10, <1>11

\* The data blocks of all rows are given back.
LEMMA FreeRowsLemma ==
    ASSUME NEW d, NEW t, Sound(d, t), NEW f \in Files, d.inode[f].operation,
           t[f][Top] # NULL, NEW A, NEW e, Gone(d, t, f, A, e), A \subseteq Below(SingleEnd)
    PROVE  \E B : Gone(d, t, f, B, FreeRows(e, t[f][Top]).disk)
<1> DEFINE b == t[f][Top]
<1>1. PICK tr : Rowing(tr, e, b)
  BY RowsTrace
<1>2. /\ FreeRows(e, b) = tr[Words] /\ tr[0] = Turning(e, FALSE)
      /\ \A k \in Index : tr[k + 1] = FreeRowNext(tr[k], Follow(tr[k].disk, b, k))
  BY <1>1 DEF Rowing
<1> HIDE DEF b
<1> DEFINE P == {k \in 0 .. Words : Reached(d, t, f, Under(k, 0), tr[k])}
<1>3. 0 \in P /\ Words \in Nat
  <2>1. Words \in Nat /\ 0 \in 0 .. Words /\ 0 \in Index
    BY Sizes DEF Index
  <2>2. Under(0, 0) = SingleEnd
    BY Sizes DEF Under
  <2>3. Reached(d, t, f, Under(0, 0), tr[0])
    BY <1>2, <2>2 DEF Reached
  <2> QED BY <2>1, <2>3
<1>4. ASSUME NEW k \in 0 .. Words - 1, k \in P PROVE k + 1 \in P
  <2> DEFINE v == FreeRowNext(tr[k], Follow(tr[k].disk, b, k))
  <2>1. k \in Index /\ k + 1 \in 0 .. Words
    BY <1>3 DEF Index
  <2>2. Reached(d, t, f, Under(k, 0), tr[k])
    BY <1>4
  <2>3. Reached(d, t, f, Under(k + 1, 0), v)
    BY <2>1, <2>2, ReachedRow DEF b
  <2>4. tr[k + 1] = v
    BY <1>2, <2>1
  <2> HIDE DEF v
  <2> QED BY <2>1, <2>3, <2>4
<1>5. \A k \in 0 .. Words : k \in P
  <2> HIDE DEF P
  <2> QED BY <1>3, <1>4, Upwards
<1>6. Reached(d, t, f, Under(Words, 0), tr[Words])
  BY <1>3, <1>5
<1> QED BY <1>2, <1>6 DEF Reached, Turning, b

\* What free_block comes to: the file exactly fills its direct or its
\* single-indirect blocks, and the kernel leaves the disk; or blocks are given
\* back, of a file with direct blocks only all.
Emptied(d, t, f, D) ==
    \/ /\ D \in Disks /\ D.fault # "" /\ D.inode = d.inode
       /\ d.inode[f].size \in {Direct * Words, SingleEnd * Words}
    \/ \E A : /\ Gone(d, t, f, A, D)
              /\ d.inode[f].block_number < Direct => A = {p \in Places : t[f][p] # NULL}

\* A file of at most m blocks whose last block has number m or more is m full
\* blocks.
LEMMA SizeEdge ==
    ASSUME NEW size \in Nat, NEW m \in Nat, size \div Words >= m, BlocksOf(size) <= m
    PROVE  size = m * Words
<1> DEFINE q == size \div Words
           r == size % Words
<1>1. q \in Nat /\ r \in Index /\ size = q * Words + r /\ r \in Nat
  <2>1. q \in Nat /\ r \in Index /\ size = q * Words + r
    BY DivMod
  <2> QED BY <2>1, Sizes DEF Index
<1>2. BlocksOf(size) = IF r = 0 THEN q ELSE q + 1
  BY DEF BlocksOf
<1> HIDE DEF q, r
<1>3. q >= m
  BY DEF q
<1>4. r = 0 /\ q = m
  BY <1>1, <1>2, <1>3
<1>5. m * Words \in Nat
  BY Sizes
<1> QED BY <1>1, <1>4, <1>5

\* The places the first loop passes.
LEMMA PassedAll ==
    ASSUME NEW t, NEW f
    PROVE  /\ Passed(t, f, Direct + 1) \subseteq Below(SingleEnd)
           /\ t[f][Single] # NULL => Single \in Passed(t, f, Direct + 1)
           /\ \A n \in Nat : n <= Direct /\ Fills(t, f, n) =>
                 Passed(t, f, Direct + 1) = {p \in Places : t[f][p] # NULL}
<1>1. 0 .. (Direct + 1) - 1 = 0 .. Direct /\ Direct \in 0 .. Direct /\ Single \in Places
      /\ Loc(Direct) = Single
  BY Sizes DEF Places, Single, Loc
<1>2. ASSUME NEW j \in 0 .. Direct, NEW p \in Places, p = Loc(j) PROVE p \in Below(SingleEnd)
  BY <1>2, Sizes DEF Loc, Below, Single
<1>3. Passed(t, f, Direct + 1) \subseteq Below(SingleEnd)
  BY <1>1, <1>2 DEF Passed
<1>4. t[f][Single] # NULL => Single \in Passed(t, f, Direct + 1)
  BY <1>1 DEF Passed
<1>5. ASSUME NEW n \in Nat, n <= Direct, Fills(t, f, n), NEW p \in Places, t[f][p] # NULL
      PROVE  p \in Passed(t, f, Direct + 1)
  <2>1. p \in Filled(n)
    BY <1>5 DEF Fills
  <2>2. p \in Int /\ Words \in Nat
    BY Sizes DEF Places
  <2>3. p \in 0 .. Direct - 1
    <3>1. CASE p <= -3
      <4>1. (-3 - p) * Words \in Nat
        <5>1. -3 - p \in Nat
          BY <2>2, <3>1
        <5> QED BY <2>2, <5>1
      <4> QED BY <1>5, <2>1, <2>2, <3>1, <4>1, Sizes DEF Filled, Single, Top
    <3>2. CASE ~(p <= -3)
      BY <1>5, <2>1, <2>2, <3>2, Sizes DEF Filled, Single, Top
    <3> QED BY <3>1, <3>2
  <2>4. p \in 0 .. Direct /\ Loc(p) = p
    BY <2>3, Sizes DEF Loc
  <2> QED BY <1>1, <1>5, <2>4 DEF Passed
<1>6. ASSUME NEW n \in Nat, n <= Direct, Fills(t, f, n)
      PROVE  Passed(t, f, Direct + 1) = {p \in Places : t[f][p] # NULL}
  BY <1>5, <1>6 DEF Passed
<1> QED BY <1>3, <1>4, <1>6

\* An empty file has no places.
LEMMA NoneFilled ==
    ASSUME NEW p \in Places
    PROVE  p \notin Filled(0)
<1>1. p \in Int /\ Words \in Nat
  BY Sizes DEF Places
<1>2. CASE p <= -3
  <2>1. -3 - p \in Nat
    BY <1>1, <1>2
  <2>2. (-3 - p) * Words \in Nat
    BY <1>1, <2>1
  <2> QED BY <1>1, <1>2, <2>2, Sizes DEF Filled, Single, Top
<1>3. CASE ~(p <= -3)
  BY <1>1, <1>3, Sizes DEF Filled, Single, Top
<1> QED BY <1>2, <1>3

\* free_block, of a file on a good disk.
LEMMA FreeBlockLemma ==
    ASSUME NEW d, NEW t, Good(d, t), NEW f \in Files, d.inode[f].operation
    PROVE  Emptied(d, t, f, FreeBlock(d, f))
<1> DEFINE i == d.inode[f]
           size == i.size
           bn == i.block_number
           n == BlocksOf(size)
           s == i.location[Direct]
           top == i.location[Direct + 1]
           A == Passed(t, f, Direct + 1)
           d1 == FreeLocations(d, i.location).disk
           d2 == FreeRow(d1, s)
           D == FreeBlock(d, f)
<1>1. D = IF bn < 0 THEN d
          ELSE IF bn < Direct THEN d1
          ELSE IF bn < SingleEnd \/ d2.fault # "" THEN d2
          ELSE IF top \notin Blocks THEN Fault(d2, "free")
          ELSE FreeRows(d2, top).disk
  BY DEF FreeBlock
<1>2. Sound(d, t) /\ GoodFile(d, t, f) /\ d \in Disks
  BY DEF Good, Sane
<1>3. Gone(d, t, f, A, d1)
  BY FreeLocationsLemma
<1>4. size \in Nat /\ Fills(t, f, n) /\ bn = IF size = 0 THEN -1 ELSE size \div Words
  BY <1>2, Sizes DEF GoodFile
<1>5. size \div Words \in Nat /\ n \in {size \div Words, size \div Words + 1}
      /\ (size = 0 => n = 0)
  <2>1. size \div Words \in Nat
    BY <1>4, DivMod
  <2> QED BY <2>1, BlocksLemma DEF BlocksOf
<1>6. n \in Nat /\ bn \in Int /\ (bn >= 0 => bn = size \div Words)
      /\ (bn < 0 => n = 0) /\ (bn < Direct => n <= Direct)
  BY <1>4, <1>5, Sizes
<1>7. s = t[f][Single] /\ top = t[f][Top]
  <2>1. Sound(d, t)
    BY <1>2
  <2> QED BY <2>1, RootsOf
<1>8. s \in Blocks \cup {NULL} /\ top \in Blocks \cup {NULL} /\ NULL \notin Blocks
      /\ Single \in Places /\ Top \in Places
  <2>1. Single \in Places /\ Top \in Places
    BY Sizes DEF Places, Single, Top
  <2> QED BY <1>2, <1>7, <2>1, BlocksFinite DEF Sound, Trees
<1>9. A \subseteq Below(SingleEnd) /\ (s # NULL => Single \in A)
      /\ (n <= Direct => A = {p \in Places : t[f][p] # NULL})
  <2> HIDE DEF n, A, s
  <2>1. A \subseteq Below(SingleEnd) /\ (t[f][Single] # NULL => Single \in A)
    BY PassedAll DEF A
  <2>2. n <= Direct => A = {p \in Places : t[f][p] # NULL}
    BY <1>4, <1>6, PassedAll DEF A
  <2> QED BY <1>7, <2>1, <2>2
<1>10. /\ s = NULL => n <= Direct
       /\ top = NULL => n <= SingleEnd
  <2> HIDE DEF n
  <2>1. t[f][Single] = NULL => Single \notin Filled(n)
    BY <1>4, <1>8 DEF Fills
  <2>2. t[f][Top] = NULL => Top \notin Filled(n)
    BY <1>4, <1>8 DEF Fills
  <2>3. Single \notin Filled(n) => n <= Direct
    BY <1>6, <1>8, Sizes DEF Filled
  <2>4. Top \notin Filled(n) => n <= SingleEnd
    BY <1>6, <1>8, Sizes DEF Filled
  <2> QED BY <1>7, <2>1, <2>2, <2>3, <2>4
<1>11. d1 \in Disks /\ d1.inode = d.inode /\ d1.fault = "" /\ Up(d1)
  BY <1>3 DEF Gone, Sane, Up
<1> HIDE DEF D, d1, A, s, top, size, n, bn
<1>12. CASE bn < 0
  <2>1. D = d
    BY <1>1, <1>12
  <2>2. Gone(d, t, f, {}, d)
    BY GoneNone
  <2>3. {p \in Places : t[f][p] # NULL} = {}
    <3>1. Fills(t, f, 0)
      BY <1>4, <1>6, <1>12
    <3>2. \A p \in Places : p \notin Filled(0)
      BY NoneFilled
    <3> QED BY <3>1, <3>2 DEF Fills
  <2> QED BY <2>1, <2>2, <2>3 DEF Emptied, D
<1>13. CASE ~(bn < 0) /\ bn < Direct
  <2>1. D = d1
    BY <1>1, <1>13
  <2>2. A = {p \in Places : t[f][p] # NULL}
    BY <1>6, <1>9, <1>13
  <2> QED BY <1>3, <2>1, <2>2 DEF Emptied, D
<1>14. CASE ~(bn < 0) /\ ~(bn < Direct)
  <2>1. bn = size \div Words /\ size \div Words >= Direct
    BY <1>5, <1>6, <1>14, Sizes
  <2>2. CASE s = NULL
    <3>1. d2 = Fault(d1, "free")
      BY <1>8, <2>2 DEF FreeRow
    <3>2. d2.fault = "free" /\ d2.inode = d.inode /\ d2 \in Disks
      BY <1>11, <3>1 DEF Fault, Disks
    <3>3. D = d2
      BY <1>1, <1>14, <3>2
    <3>4. size = Direct * Words
      BY <1>4, <1>10, <2>1, <2>2, Sizes, SizeEdge DEF n
    <3>5. D.fault # "" /\ D.inode = d.inode /\ D \in Disks
      BY <3>2, <3>3
    <3> QED BY <3>4, <3>5 DEF Emptied, D, size
  <2>3. CASE s # NULL
    <3>1. s \in Blocks /\ s \in Spots(t, f, A)
      BY <1>7, <1>8, <1>9, <2>3 DEF Spots
    <3>2. d1.space[s] = ZeroBlock
      BY <1>3, <3>1 DEF Gone
    <3>3. d2 = d1
      BY <1>11, <3>1, <3>2, FreeRowZero
    <3>4. CASE bn < SingleEnd
      <4>1. D = d1
        BY <1>1, <1>14, <3>3, <3>4
      <4> QED BY <1>3, <1>14, <4>1 DEF Emptied, D, bn
    <3>5. CASE ~(bn < SingleEnd) /\ top = NULL
      <4>1. D = Fault(d1, "free")
        BY <1>1, <1>8, <1>11, <1>14, <3>3, <3>5
      <4>2. D.fault # "" /\ D.inode = d.inode /\ D \in Disks
        BY <1>11, <4>1 DEF Fault, Disks
      <4>3. size \div Words >= SingleEnd
        BY <1>5, <2>1, <3>5, Sizes
      <4>4. size = SingleEnd * Words
        BY <1>4, <1>10, <3>5, <4>3, Sizes, SizeEdge DEF n
      <4> QED BY <4>2, <4>4 DEF Emptied, D, size
    <3>6. CASE ~(bn < SingleEnd) /\ top # NULL
      <4>1. D = FreeRows(d1, top).disk
        BY <1>1, <1>8, <1>11, <1>14, <3>3, <3>6
      <4>2. PICK B : Gone(d, t, f, B, FreeRows(d1, top).disk)
        BY <1>2, <1>3, <1>7, <1>9, <3>6, FreeRowsLemma
      <4> QED BY <1>14, <4>1, <4>2 DEF Emptied, D, bn
    <3> QED BY <3>4, <3>5, <3>6
  <2> QED BY <2>2, <2>3
<1> QED BY <1>12, <1>13, <1>14

\* What free_inode leaves in the inode.
Dropped(D, f) == [D EXCEPT !.inode[f] = [@ EXCEPT !.operation = FALSE, !.size = 0,
                                                  !.block_number = 0,
                                                  !.last_block_offset = 0]]

\* Nothing else of the disk changes.
LEMMA DroppedLemma ==
    ASSUME NEW D \in Disks, NEW f \in Files
    PROVE  /\ Dropped(D, f) \in Disks
           /\ \A g \in Files : g # f => Dropped(D, f).inode[g] = D.inode[g]
           /\ ~Dropped(D, f).inode[f].operation /\ Dropped(D, f).inode[f].size = 0
           /\ Dropped(D, f).inode[f].block_number = 0
           /\ Dropped(D, f).freeBlock_number = D.freeBlock_number
           /\ Dropped(D, f).index = D.index
           /\ Dropped(D, f).fault = D.fault
           /\ Dropped(D, f).space = D.space
<1> DEFINE x == [D.inode[f] EXCEPT !.operation = FALSE, !.size = 0, !.block_number = 0,
                                   !.last_block_offset = 0]
           y == [D.inode EXCEPT ![f] = x]
<1>1. Dropped(D, f) = [D EXCEPT !.inode = y]
  BY DEF Dropped, Disks
<1>2. /\ x \in Inodes /\ ~x.operation /\ x.size = 0 /\ x.block_number = 0
  <2>1. 0 \in Index /\ 0 \in Nat /\ 0 \in Int
    BY Sizes DEF Index
  <2> QED BY <2>1 DEF Disks, Inodes
<1> HIDE DEF x
<1>3. y \in [Files -> Inodes] /\ y[f] = x /\ \A g \in Files : g # f => y[g] = D.inode[g]
  BY <1>2 DEF Disks
<1> HIDE DEF y
<1>4. /\ [D EXCEPT !.inode = y] \in Disks
      /\ [D EXCEPT !.inode = y].inode = y
      /\ [D EXCEPT !.inode = y].freeBlock_number = D.freeBlock_number
      /\ [D EXCEPT !.inode = y].index = D.index
      /\ [D EXCEPT !.inode = y].fault = D.fault
      /\ [D EXCEPT !.inode = y].space = D.space
  BY <1>3 DEF Disks
<1> QED BY <1>1, <1>2, <1>3, <1>4

\* The trees without that of file f.
Cut(t, f) == [t EXCEPT ![f] = [p \in Places |-> NULL]]

\* The other trees stay.
LEMMA CutIs ==
    ASSUME NEW t \in Trees, NEW f \in Files
    PROVE  /\ Cut(t, f) \in Trees
           /\ \A p \in Places : Cut(t, f)[f][p] = NULL
           /\ \A g \in Files : g # f => Cut(t, f)[g] = t[g]
<1> DEFINE z == [p \in Places |-> NULL]
<1>1. z \in [Places -> Blocks \cup {NULL}] /\ \A p \in Places : z[p] = NULL
  OBVIOUS
<1> HIDE DEF z
<1>2. Cut(t, f) = [t EXCEPT ![f] = z]
  BY DEF Cut, z
<1> QED BY <1>1, <1>2 DEF Trees

\* Without file f the disk is as good as it was.
LEMMA DroppedGood ==
    ASSUME NEW d, NEW t, Good(d, t), NEW f \in Files, d.inode[f].operation,
           NEW A, NEW D, Gone(d, t, f, A, D), NEW e, e = Dropped(D, f), NEW u, u = Cut(t, f)
    PROVE  /\ Good(e, u) /\ \A g \in Files : g # f => e.inode[g] = d.inode[g]
           /\ ~e.inode[f].operation /\ e.inode[f].size = 0
           /\ A = {p \in Places : t[f][p] # NULL} => Lost(e, u) \subseteq Lost(d, t)
<1>1. /\ Sound(d, t) /\ t \in Trees /\ d \in Disks /\ NULL \notin Blocks
      /\ \A g \in Files : GoodFile(d, t, g)
  BY BlocksFinite DEF Good, Sound, Sane
<1>2. /\ A \subseteq Places /\ Sane(D) /\ D \in Disks /\ D.fault = "" /\ D.inode = d.inode
      /\ D.index = d.index \ Spots(t, f, A)
      /\ \A b \in Blocks : D.space[b] = IF b \in Spots(t, f, A) THEN ZeroBlock ELSE d.space[b]
  BY DEF Gone, Sane
<1>3. e \in Disks /\ \A g \in Files : g # f => e.inode[g] = d.inode[g]
  <2>1. D \in Disks /\ D.inode = d.inode
    BY <1>2
  <2>2. e \in Disks
    BY <2>1, DroppedLemma
  <2>3. \A g \in Files : g # f => e.inode[g] = D.inode[g]
    BY <2>1, DroppedLemma
  <2> QED BY <2>1, <2>2, <2>3
<1>4. ~e.inode[f].operation /\ e.inode[f].size = 0 /\ e.inode[f].block_number = 0
  BY <1>2, DroppedLemma
<1>5. e.freeBlock_number = D.freeBlock_number /\ e.index = D.index
  BY <1>2, DroppedLemma
<1>6. e.fault = "" /\ e.space = D.space
  BY <1>2, DroppedLemma
<1>7. u \in Trees /\ (\A p \in Places : u[f][p] = NULL)
      /\ \A g \in Files : g # f => u[g] = t[g]
  BY <1>1, CutIs
<1>8. Sane(e)
  BY <1>2, <1>3, <1>5 DEF Sane
<1>9. ASSUME NEW g \in Files, g # f, NEW p \in Places, t[g][p] # NULL
      PROVE  /\ t[g][p] \in Blocks /\ t[g][p] \in e.index
             /\ e.space[t[g][p]] = d.space[t[g][p]]
             /\ \A i : Follow(e, t[g][p], i) = Follow(d, t[g][p], i)
  <2>1. t[g][p] \in Blocks /\ t[g][p] \in d.index
    BY <1>1, <1>9 DEF Sound, Trees
  <2>2. t[g][p] \notin Spots(t, f, A)
    <3>0. Separate(t) /\ A \subseteq Places
      BY <1>1, <1>2 DEF Sound
    <3>1. ASSUME NEW q \in A PROVE t[f][q] # t[g][p]
      BY <1>9, <3>0 DEF Separate
    <3> QED BY <3>1 DEF Spots
  <2>3. e.space[t[g][p]] = d.space[t[g][p]]
    BY <1>2, <1>6, <2>1, <2>2
  <2>4. t[g][p] \in e.index
    BY <1>2, <1>5, <2>1, <2>2
  <2> QED BY <2>1, <2>3, <2>4 DEF Follow
<1>10. Separate(u)
  <2> SUFFICES ASSUME NEW g \in Files, NEW h \in Files, NEW p \in Places, NEW q \in Places,
                      u[g][p] = u[h][q], u[g][p] # NULL
               PROVE  g = h /\ p = q
    BY DEF Separate
  <2>1. g # f /\ h # f
    BY <1>7
  <2>2. t[g][p] = t[h][q] /\ t[g][p] # NULL
    BY <1>7, <2>1
  <2> QED BY <1>1, <2>2 DEF Sound, Separate
<1>11. ASSUME NEW g \in Files, NEW p \in Places
       PROVE  u[g][p] = IF e.inode[g].operation THEN Stored(e, u, g, p) ELSE NULL
  <2>1. CASE g = f
    BY <1>4, <1>7, <2>1
  <2>2. CASE g # f
    <3>1. t[g][p] = IF d.inode[g].operation THEN Stored(d, t, g, p) ELSE NULL
      BY <1>1 DEF Sound
    <3>2. e.inode[g] = d.inode[g] /\ u[g] = t[g]
      BY <1>3, <1>7, <2>2
    <3>3. Stored(e, u, g, p) = Stored(d, t, g, p)
      <4>1. CASE Root(p)
        BY <3>2, <4>1 DEF Stored
      <4>2. CASE ~Root(p) /\ t[g][Holder(p)] = NULL
        BY <3>2, <4>2 DEF Stored
      <4>3. CASE ~Root(p) /\ t[g][Holder(p)] # NULL
        <5>1. Holder(p) \in Places
          BY <4>3, PlaceLemma
        <5>2. Follow(e, t[g][Holder(p)], Slot(p)) = Follow(d, t[g][Holder(p)], Slot(p))
          BY <1>9, <2>2, <4>3, <5>1
        <5> QED BY <3>2, <4>3, <5>2 DEF Stored
      <4> QED BY <4>1, <4>2, <4>3
    <3> QED BY <3>1, <3>2, <3>3
  <2> QED BY <2>1, <2>2
<1>12. ASSUME NEW b \in Blocks \ e.index PROVE e.space[b] = ZeroBlock
  <2>1. CASE b \in Spots(t, f, A)
    BY <1>2, <1>6, <2>1
  <2>2. CASE b \notin Spots(t, f, A)
    <3>1. b \notin d.index
      BY <1>2, <1>5, <2>2
    <3>2. d.space[b] = ZeroBlock
      BY <1>1, <3>1 DEF Sound
    <3> QED BY <1>2, <1>6, <2>2, <3>2
  <2> QED BY <2>1, <2>2
<1>13. Sound(e, u)
  <2>1. ASSUME NEW g \in Files, NEW p \in Places PROVE u[g][p] # NULL => u[g][p] \in e.index
    BY <1>7, <1>9
  <2> QED BY <1>7, <1>10, <1>11, <1>12, <2>1 DEF Sound
<1>14. ASSUME NEW g \in Files PROVE GoodFile(e, u, g)
  <2>1. CASE g = f
    <3>1. BlocksOf(0) = 0 /\ 0 \in 0 .. max_file_size /\ 0 <= Capacity
      BY BlocksLemma, Sizes
    <3>2. Holds(e, u, g, 0)
      BY DEF Holds
    <3>3. Fills(u, g, 0)
      <4>1. \A p \in Places : p \notin Filled(0)
        BY NoneFilled
      <4> QED BY <1>7, <2>1, <3>1, <4>1 DEF Fills
    <3> QED BY <1>4, <2>1, <3>1, <3>2, <3>3 DEF GoodFile
  <2>2. CASE g # f
    <3>1. e.inode[g] = d.inode[g] /\ u[g] = t[g] /\ GoodFile(d, t, g)
      BY <1>1, <1>3, <1>7, <2>2
    <3> DEFINE m == d.inode[g].size
    <3>2. Holds(e, u, g, m)
      <4> SUFFICES ASSUME NEW j \in 0 .. m - 1
                   PROVE  /\ u[g][j \div Words] \in Blocks
                          /\ e.space[u[g][j \div Words]][j % Words] = Data(g, j)
        BY DEF Holds
      <4>1. Holds(d, t, g, m) /\ m \in 0 .. max_file_size
        BY <3>1 DEF GoodFile
      <4>2. j \in 0 .. max_file_size - 1
        BY <4>1, Sizes
      <4>3. j \div Words \in Places
        BY <4>2, WordPlace
      <4> HIDE DEF m
      <4>4. /\ t[g][j \div Words] \in Blocks
            /\ d.space[t[g][j \div Words]][j % Words] = Data(g, j)
        BY <4>1 DEF Holds
      <4> DEFINE k == j \div Words
      <4> HIDE DEF k
      <4>5. t[g][k] \in Blocks /\ k \in Places /\ d.space[t[g][k]][j % Words] = Data(g, j)
        BY <4>3, <4>4 DEF k
      <4>6. e.space[t[g][k]] = d.space[t[g][k]]
        BY <1>1, <1>9, <2>2, <4>5
      <4>7. u[g][k] \in Blocks /\ e.space[u[g][k]][j % Words] = Data(g, j)
        BY <3>1, <4>5, <4>6
      <4> QED BY <4>7 DEF k
    <3>3. ASSUME NEW n, Fills(t, g, n) PROVE Fills(u, g, n)
      BY <3>1, <3>3 DEF Fills
    <3> QED BY <3>1, <3>2, <3>3 DEF GoodFile
  <2> QED BY <2>1, <2>2
<1>15. ASSUME A = {p \in Places : t[f][p] # NULL} PROVE Lost(e, u) \subseteq Lost(d, t)
  <2> SUFFICES ASSUME NEW b \in Lost(e, u) PROVE b \in Lost(d, t)
    OBVIOUS
  <2>1. b \in e.index /\ \A g \in Files, p \in Places : u[g][p] # b
    BY DEF Lost
  <2>2. b \in d.index /\ b \notin Spots(t, f, A) /\ b \in Blocks
    BY <1>1, <1>2, <1>5, <2>1 DEF Disks
  <2>3. ASSUME NEW g \in Files, NEW p \in Places, t[g][p] = b PROVE FALSE
    <3>1. CASE g = f
      <4>1. p \in A
        BY <1>1, <1>15, <2>2, <2>3, <3>1
      <4> QED BY <2>2, <2>3, <3>1, <4>1 DEF Spots
    <3>2. CASE g # f
      BY <1>7, <2>1, <2>3, <3>2
    <3> QED BY <3>1, <3>2
  <2> QED BY <2>2, <2>3 DEF Lost
<1>16. Good(e, u)
  BY <1>6, <1>8, <1>13, <1>14 DEF Good
<1> QED BY <1>3, <1>4, <1>15, <1>16

\* What allocate_inode leaves in the inode.
Made(d, f) == [d EXCEPT !.inode[f] = [@ EXCEPT !.operation = TRUE, !.size = 0,
                                               !.block_number = -1,
                                               !.last_block_offset = 0]]

\* Nothing else of the disk changes then.
LEMMA MadeLemma ==
    ASSUME NEW d \in Disks, NEW f \in Files
    PROVE  /\ Made(d, f) \in Disks
           /\ \A g \in Files : g # f => Made(d, f).inode[g] = d.inode[g]
           /\ Made(d, f).inode[f].operation /\ Made(d, f).inode[f].size = 0
           /\ Made(d, f).inode[f].block_number = -1
           /\ Made(d, f).inode[f].location = d.inode[f].location
           /\ Made(d, f).freeBlock_number = d.freeBlock_number
           /\ Made(d, f).index = d.index
           /\ Made(d, f).fault = d.fault
           /\ Made(d, f).space = d.space
<1> DEFINE x == [d.inode[f] EXCEPT !.operation = TRUE, !.size = 0, !.block_number = -1,
                                   !.last_block_offset = 0]
           y == [d.inode EXCEPT ![f] = x]
<1>1. Made(d, f) = [d EXCEPT !.inode = y]
  BY DEF Made, Disks
<1>2. /\ x \in Inodes /\ x.operation /\ x.size = 0 /\ x.block_number = -1
      /\ x.location = d.inode[f].location
  <2>1. 0 \in Index /\ 0 \in Nat /\ -1 \in Int
    BY Sizes DEF Index
  <2> QED BY <2>1 DEF Disks, Inodes
<1> HIDE DEF x
<1>3. y \in [Files -> Inodes] /\ y[f] = x /\ \A g \in Files : g # f => y[g] = d.inode[g]
  BY <1>2 DEF Disks
<1> HIDE DEF y
<1>4. /\ [d EXCEPT !.inode = y] \in Disks
      /\ [d EXCEPT !.inode = y].inode = y
      /\ [d EXCEPT !.inode = y].freeBlock_number = d.freeBlock_number
      /\ [d EXCEPT !.inode = y].index = d.index
      /\ [d EXCEPT !.inode = y].fault = d.fault
      /\ [d EXCEPT !.inode = y].space = d.space
  BY <1>3 DEF Disks
<1> QED BY <1>1, <1>2, <1>3, <1>4

\* An inode with no pointers is a good file again.
LEMMA MadeGood ==
    ASSUME NEW d, NEW t, Good(d, t), NEW f \in Files, ~d.inode[f].operation,
           \A i \in Slots : d.inode[f].location[i] = NULL, NEW e, e = Made(d, f)
    PROVE  /\ Good(e, t) /\ \A g \in Files : g # f => e.inode[g] = d.inode[g]
           /\ e.inode[f].operation /\ Lost(e, t) = Lost(d, t)
<1>1. /\ Sound(d, t) /\ t \in Trees /\ d \in Disks /\ Sane(d) /\ d.fault = ""
      /\ \A g \in Files : GoodFile(d, t, g)
  BY DEF Good, Sound, Sane
<1>2. e \in Disks /\ \A g \in Files : g # f => e.inode[g] = d.inode[g]
  <2>1. d \in Disks
    BY <1>1
  <2>2. e \in Disks
    BY <2>1, MadeLemma
  <2>3. \A g \in Files : g # f => e.inode[g] = d.inode[g]
    BY <2>1, MadeLemma
  <2> QED BY <2>2, <2>3
<1>3. e.inode[f].operation /\ e.inode[f].size = 0 /\ e.inode[f].block_number = -1
  BY <1>1, MadeLemma
<1>4. e.inode[f].location = d.inode[f].location
  BY <1>1, MadeLemma
<1>5. e.freeBlock_number = d.freeBlock_number /\ e.index = d.index
  BY <1>1, MadeLemma
<1>6. e.fault = d.fault /\ e.space = d.space
  BY <1>1, MadeLemma
<1>7. Sane(e) /\ e.fault = ""
  BY <1>1, <1>2, <1>5, <1>6 DEF Sane
<1>8. \A b, i : Follow(e, b, i) = Follow(d, b, i)
  BY <1>6 DEF Follow
<1>9. \A p \in Places : t[f][p] = NULL
  BY <1>1 DEF Sound
<1>10. ASSUME NEW g \in Files, NEW p \in Places
       PROVE  t[g][p] = IF e.inode[g].operation THEN Stored(e, t, g, p) ELSE NULL
  <2>1. CASE g = f
    <3>1. Stored(e, t, f, p) = NULL
      <4>1. CASE Root(p)
        <5>1. Slot(p) \in Slots
          BY <4>1, PlaceLemma
        <5> QED BY <1>4, <4>1, <5>1 DEF Stored
      <4>2. CASE ~Root(p)
        <5>1. Holder(p) \in Places
          BY <4>2, PlaceLemma
        <5> QED BY <1>9, <4>2, <5>1 DEF Stored
      <4> QED BY <4>1, <4>2
    <3> QED BY <1>3, <1>9, <2>1, <3>1
  <2>2. CASE g # f
    <3>1. t[g][p] = IF d.inode[g].operation THEN Stored(d, t, g, p) ELSE NULL
      BY <1>1 DEF Sound
    <3>2. e.inode[g] = d.inode[g]
      BY <1>2, <2>2
    <3>3. Stored(e, t, g, p) = Stored(d, t, g, p)
      BY <1>8, <3>2 DEF Stored
    <3> QED BY <3>1, <3>2, <3>3
  <2> QED BY <2>1, <2>2
<1>11. Sound(e, t)
  <2>1. (\A g \in Files, p \in Places : t[g][p] # NULL => t[g][p] \in e.index) /\ Separate(t)
    BY <1>1, <1>5 DEF Sound
  <2>2. \A b \in Blocks \ e.index : e.space[b] = ZeroBlock
    BY <1>1, <1>5, <1>6 DEF Sound
  <2> QED BY <1>1, <1>10, <2>1, <2>2 DEF Sound
<1>12. ASSUME NEW g \in Files PROVE GoodFile(e, t, g)
  <2>1. CASE g = f
    <3>1. d.inode[f].size = 0 /\ Fills(t, f, BlocksOf(0)) /\ 0 \in 0 .. max_file_size
      BY <1>1, Sizes DEF GoodFile
    <3>2. Holds(e, t, f, 0)
      BY DEF Holds
    <3> QED BY <1>3, <2>1, <3>1, <3>2 DEF GoodFile
  <2>2. CASE g # f
    <3>1. e.inode[g] = d.inode[g] /\ GoodFile(d, t, g)
      BY <1>1, <1>2, <2>2
    <3>2. \A m : Holds(d, t, g, m) => Holds(e, t, g, m)
      BY <1>6 DEF Holds
    <3> QED BY <3>1, <3>2 DEF GoodFile
  <2> QED BY <2>1, <2>2
<1>13. Lost(e, t) = Lost(d, t)
  BY <1>5 DEF Lost
<1>14. Good(e, t)
  BY <1>7, <1>11, <1>12 DEF Good
<1> QED BY <1>2, <1>3, <1>13, <1>14

-----------------------------------------------------------------------------
(* rd_read.                                                                *)

\* The least of one number.
LEMMA MinOne ==
    ASSUME NEW n \in Int
    PROVE  Min({n}) = n
BY DEF Min

\* A file that is all on the disk reads back, whatever became of the others.
LEMMA ReadLemma ==
    ASSUME NEW d, NEW t, Good(d, t), NEW f \in Files, d.inode[f].operation,
           NEW e, Agree(d, t, f, e), e.inode[f].size > 0
    PROVE  ReadFile(e, f, 0, e.inode[f].size).output
               = [i \in 1 .. e.inode[f].size |-> Data(f, i - 1)]
<1> DEFINE m == e.inode[f].size
           lost == {k \in {j \in 0 .. 0 + m - 1 : j = 0 \/ j % Words = 0} :
                       GetBlockpointer(e, f, k) \notin Blocks}
<1>1. Sound(d, t) /\ GoodFile(d, t, f) /\ e.inode[f] = d.inode[f]
  BY DEF Good, Agree
<1>2. m \in 0 .. max_file_size /\ m \in Nat /\ m > 0 /\ Holds(d, t, f, m)
  <2>1. m \in 0 .. max_file_size /\ Holds(d, t, f, m)
    BY <1>1 DEF GoodFile
  <2> QED BY <2>1, Sizes
<1> HIDE DEF m
<1>3. ASSUME NEW k \in 0 .. m - 1
      PROVE  /\ GetBlockpointer(e, f, k) \in Blocks
             /\ e.space[GetBlockpointer(e, f, k)][k % Words] = Data(f, k)
  <2> DEFINE q == k \div Words
  <2>1. k \in 0 .. max_file_size - 1
    BY <1>2, Sizes
  <2>2. q \in 0 .. Capacity - 1 /\ q \in Places
    BY <2>1, WordPlace
  <2>3. t[f][q] \in Blocks /\ d.space[t[f][q]][k % Words] = Data(f, k)
    BY <1>2 DEF Holds
  <2> HIDE DEF q
  <2>4. t[f][q] # NULL
    BY <2>3, BlocksFinite
  <2>5. SwitchAddress(e, f, q) = t[f][q]
    BY <1>1, <2>2, <2>4, SwitchSame
  <2>6. GetBlockpointer(e, f, k) = t[f][q]
    BY <2>4, <2>5 DEF GetBlockpointer, q
  <2>7. e.space[t[f][q]] = d.space[t[f][q]]
    BY <2>2, <2>3 DEF Agree
  <2> QED BY <2>3, <2>6, <2>7
<1>4. lost = {}
  BY <1>2, <1>3
<1>5. e.inode[f].location[0] # NULL
  <2>1. t[f][0] # NULL
    <3>1. 0 \in 0 .. m - 1
      BY <1>2
    <3>2. t[f][0] \in Blocks
      BY <1>2, <3>1, BlocksLemma DEF Holds
    <3> QED BY <3>2, BlocksFinite
  <2>2. d.inode[f].location[0] = t[f][0]
    BY <1>1, FirstIs
  <2> QED BY <1>1, <2>1, <2>2
<1>6. ReadFile(e, f, 0, m) =
          [ret |-> "read",
           output |-> [i \in 1 .. m |->
                          e.space[GetBlockpointer(e, f, 0 + i - 1)][(0 + i - 1) % Words]]]
  <2>1. (IF 0 >= m THEN 0 ELSE 0) = 0 /\ m - 0 = m /\ {m - 0, m} = {m} /\ m # 0
    BY <1>2
  <2>2. Min({m - 0, m}) = m
    BY <1>2, <2>1, MinOne
  <2> QED BY <1>4, <1>5, <2>1, <2>2 DEF ReadFile, m
<1>7. ASSUME NEW i \in 1 .. m
      PROVE  e.space[GetBlockpointer(e, f, 0 + i - 1)][(0 + i - 1) % Words] = Data(f, i - 1)
  <2>1. i - 1 \in 0 .. m - 1 /\ 0 + i - 1 = i - 1
    BY <1>2
  <2> QED BY <1>3, <2>1
<1>8. ReadFile(e, f, 0, m).output = [i \in 1 .. m |-> Data(f, i - 1)]
  <2> DEFINE F == [i \in 1 .. m |->
                      e.space[GetBlockpointer(e, f, 0 + i - 1)][(0 + i - 1) % Words]]
  <2>1. F = [i \in 1 .. m |-> Data(f, i - 1)]
    BY <1>7
  <2>2. ReadFile(e, f, 0, m) = [ret |-> "read", output |-> F]
    BY <1>6
  <2> HIDE DEF F
  <2>3. ReadFile(e, f, 0, m).output = F
    BY <2>2
  <2> QED BY <2>1, <2>3
<1> QED BY <1>8 DEF m

-----------------------------------------------------------------------------
(* The map.                                                                *)

\* The blocks at the places of a file.
Held(t, f) == {t[f][p] : p \in Places} \ {NULL}

\* Every place is one of these.
LEMMA PlaceKinds ==
    ASSUME NEW p \in Places
    PROVE  \/ p \in 0 .. Direct - 1
           \/ p = Single
           \/ p = Top
           \/ \E r \in Index : p = Row(r)
           \/ p \in Direct .. SingleEnd - 1
           \/ p \in SingleEnd .. Capacity - 1
<1>1. p \in Int /\ p >= -2 - Words /\ p <= Capacity - 1
  BY Sizes DEF Places
<1>2. CASE p <= -3
  <2>1. -3 - p \in Index /\ p = Row(-3 - p)
    BY <1>1, <1>2, Sizes DEF Index, Row
  <2> QED BY <2>1
<1>3. CASE ~(p <= -3)
  BY <1>1, <1>3, Sizes DEF Single, Top
<1> QED BY <1>2, <1>3

\* What a file reaches is what is at its places.
LEMMA TreeLemma ==
    ASSUME NEW t, Sound(disk, t), NEW f \in Files, disk.inode[f].operation
    PROVE  Tree(f) = Held(t, f)
<1> DEFINE location == disk.inode[f].location
           below(B) == {Follow(disk, b, i) : b \in B \cap Blocks, i \in 0 .. Words - 1}
           s == location[Direct]
           top == location[Direct + 1]
           L == {location[i] : i \in 0 .. Direct + 1}
           S == below({s})
           R == below({top})
           U == below(R)
<1>1. Tree(f) = (L \cup S \cup R \cup U) \cap Blocks
  BY DEF Tree
<1>2. s = t[f][Single] /\ top = t[f][Top]
      /\ \A n \in 0 .. Direct - 1 : location[n] = t[f][n]
  BY RootsOf
<1>3. /\ \A p \in Places : t[f][p] \in Blocks \cup {NULL}
      /\ NULL \notin Blocks
  BY BlocksFinite DEF Sound, Trees
<1>4. /\ Single \in Places /\ Top \in Places /\ \A r \in Index : Row(r) \in Places
      /\ 0 .. Direct - 1 \subseteq Places /\ Direct .. SingleEnd - 1 \subseteq Places
      /\ SingleEnd .. Capacity - 1 \subseteq Places
  BY Sizes DEF Places, Single, Top, Row, Index
<1>5. ASSUME t[f][Single] # NULL, NEW i \in Index
      PROVE  i + Direct \in Direct .. SingleEnd - 1 /\ Follow(disk, s, i) = t[f][i + Direct]
  <2> DEFINE n == i + Direct
  <2>1. n \in Direct .. SingleEnd - 1 /\ n - Direct = i
    BY Sizes DEF Index
  <2> HIDE DEF n
  <2>2. Follow(disk, t[f][Single], n - Direct) = t[f][n]
    BY <1>5, <2>1, UnderSingleOf
  <2> HIDE DEF s
  <2> QED BY <1>2, <2>1, <2>2 DEF n
<1>6. ASSUME t[f][Top] # NULL, NEW r \in Index PROVE Follow(disk, top, r) = t[f][Row(r)]
  <2> HIDE DEF top
  <2>1. Follow(disk, t[f][Top], r) = t[f][Row(r)]
    BY <1>6, UnderTopOf
  <2> QED BY <1>2, <2>1
<1>7. ASSUME NEW r \in Index, t[f][Row(r)] # NULL, NEW j \in Index
      PROVE  /\ Under(r, j) \in SingleEnd .. Capacity - 1
             /\ Follow(disk, t[f][Row(r)], j) = t[f][Under(r, j)]
  <2> DEFINE n == Under(r, j)
  <2>1. n \in SingleEnd .. Capacity - 1 /\ (n - SingleEnd) \div Words = r
        /\ (n - SingleEnd) % Words = j
    <3>1. j \in 0 .. Words
      BY Sizes DEF Index
    <3> QED BY <3>1, UnderIs
  <2> HIDE DEF n
  <2>2. t[f][Row((n - SingleEnd) \div Words)] # NULL
    BY <1>7, <2>1
  <2>3. Follow(disk, t[f][Row((n - SingleEnd) \div Words)], (n - SingleEnd) % Words) = t[f][n]
    BY <2>1, <2>2, UnderRowOf
  <2> QED BY <2>1, <2>3 DEF n
<1>8. Index = 0 .. Words - 1
  BY DEF Index
<1> HIDE DEF location
<1>9. L \cap Blocks \subseteq Held(t, f)
  <2> SUFFICES ASSUME NEW i \in 0 .. Direct + 1, location[i] \in Blocks
               PROVE  location[i] \in Held(t, f)
    OBVIOUS
  <2>1. i \in 0 .. Direct - 1 \/ i = Direct \/ i = Direct + 1
    BY Sizes
  <2>2. \E p \in Places : location[i] = t[f][p]
    BY <1>2, <1>4, <2>1
  <2> QED BY <1>3, <2>2 DEF Held
<1>10. S \cap Blocks \subseteq Held(t, f)
  <2> SUFFICES ASSUME NEW i \in Index, s \in Blocks, Follow(disk, s, i) \in Blocks
               PROVE  Follow(disk, s, i) \in Held(t, f)
    BY <1>8
  <2>1. t[f][Single] # NULL
    BY <1>2, <1>3
  <2>2. \E p \in Places : Follow(disk, s, i) = t[f][p]
    BY <1>4, <1>5, <2>1
  <2> QED BY <1>3, <2>2 DEF Held
<1>11. ASSUME NEW b \in R \cap Blocks PROVE \E r \in Index : b = t[f][Row(r)]
  <2>1. PICK i \in Index : top \in Blocks /\ b = Follow(disk, top, i)
    BY <1>8, <1>11
  <2>2. t[f][Top] # NULL
    BY <1>2, <1>3, <2>1
  <2> QED BY <1>6, <2>1, <2>2
<1>12. R \cap Blocks \subseteq Held(t, f)
  <2> HIDE DEF R
  <2> QED BY <1>3, <1>4, <1>11 DEF Held
<1>13. U \cap Blocks \subseteq Held(t, f)
  <2> SUFFICES ASSUME NEW b \in R \cap Blocks, NEW j \in Index, Follow(disk, b, j) \in Blocks
               PROVE  Follow(disk, b, j) \in Held(t, f)
    <3> HIDE DEF R
    <3> QED BY <1>8
  <2>1. PICK r \in Index : b = t[f][Row(r)]
    BY <1>11
  <2>2. t[f][Row(r)] # NULL
    BY <1>3, <2>1
  <2>3. \E p \in Places : Follow(disk, b, j) = t[f][p]
    BY <1>4, <1>7, <2>1, <2>2
  <2> QED BY <1>3, <2>3 DEF Held
<1>14. ASSUME NEW p \in Places, t[f][p] # NULL PROVE t[f][p] \in L \cup S \cup R \cup U
  <2>0. t[f][p] \in Blocks /\ t[f][p] = Stored(disk, t, f, p)
    BY <1>3, <1>14 DEF Sound
  <2>1. CASE p \in 0 .. Direct - 1
    <3>1. p \in 0 .. Direct + 1 /\ location[p] = t[f][p]
      BY <1>2, <2>1, Sizes
    <3>2. t[f][p] \in L
      BY <3>1
    <3> QED BY <3>2
  <2>2. CASE p = Single
    <3>1. Direct \in 0 .. Direct + 1
      BY Sizes
    <3>2. t[f][p] \in L
      BY <1>2, <2>2, <3>1
    <3> QED BY <3>2
  <2>3. CASE p = Top
    <3>1. Direct + 1 \in 0 .. Direct + 1
      BY Sizes
    <3>2. t[f][p] \in L
      BY <1>2, <2>3, <3>1
    <3> QED BY <3>2
  <2>4. ASSUME NEW r \in Index, t[f][Row(r)] # NULL PROVE t[f][Row(r)] \in R
    <3>1. t[f][Top] # NULL
      <4>1. ~Root(Row(r)) /\ Holder(Row(r)) = Top
        BY Sizes DEF Root, Holder, Row, Single, Top, Index
      <4>2. t[f][Row(r)] = Stored(disk, t, f, Row(r))
        BY <1>4 DEF Sound
      <4> QED BY <2>4, <4>1, <4>2 DEF Stored
    <3>2. top \in Blocks /\ Follow(disk, top, r) = t[f][Row(r)]
      BY <1>2, <1>3, <1>4, <1>6, <3>1
    <3> HIDE DEF top
    <3> QED BY <1>8, <3>2
  <2>5. CASE \E r \in Index : p = Row(r)
    BY <1>14, <2>4, <2>5
  <2>6. CASE p \in Direct .. SingleEnd - 1
    <3>1. ~Root(p) /\ Holder(p) = Single
      BY <2>6, Sizes DEF Root, Holder, Single, Top
    <3>2. t[f][Single] # NULL
      BY <1>14, <2>0, <3>1 DEF Stored
    <3> DEFINE i == p - Direct
    <3>3. i \in Index /\ i + Direct = p
      BY <2>6, Sizes DEF Index
    <3> HIDE DEF i
    <3>4. s \in Blocks /\ Follow(disk, s, i) = t[f][p]
      BY <1>2, <1>3, <1>4, <1>5, <3>2, <3>3
    <3> HIDE DEF s
    <3>5. t[f][p] \in S
      BY <1>8, <3>3, <3>4
    <3> QED BY <3>5
  <2>7. CASE p \in SingleEnd .. Capacity - 1
    <3> DEFINE r == (p - SingleEnd) \div Words
               j == (p - SingleEnd) % Words
    <3>1. r \in Index /\ j \in Index /\ p = SingleEnd + r * Words + j
      BY <2>7, RowOf
    <3>2. ~Root(p) /\ Holder(p) = Row(r)
      <4> HIDE DEF r
      <4> QED BY <2>7, Sizes DEF Root, Holder, Single, Top, r
    <3> HIDE DEF r, j
    <3>3. p = Under(r, j)
      BY <3>1 DEF Under
    <3>4. t[f][Row(r)] # NULL
      BY <1>14, <2>0, <3>2 DEF Stored
    <3>5. t[f][Row(r)] \in R /\ t[f][Row(r)] \in Blocks
      <4>1. r \in Index
        BY <3>1
      <4>2. t[f][Row(r)] \in Blocks
        BY <1>3, <1>4, <3>4, <4>1
      <4>3. t[f][Row(r)] \in R
        BY <2>4, <3>4, <4>1
      <4> QED BY <4>2, <4>3
    <3>6. Follow(disk, t[f][Row(r)], j) = t[f][p]
      BY <1>7, <3>1, <3>3, <3>4
    <3> HIDE DEF R
    <3>7. t[f][p] \in U
      BY <1>8, <3>1, <3>5, <3>6
    <3> QED BY <3>7
  <2> QED BY <2>1, <2>2, <2>3, <2>5, <2>6, <2>7, PlaceKinds
<1> HIDE DEF L, S, R, U
<1>15. Held(t, f) \subseteq (L \cup S \cup R \cup U) \cap Blocks
  BY <1>3, <1>14 DEF Held
<1> QED BY <1>1, <1>9, <1>10, <1>12, <1>13, <1>15

-----------------------------------------------------------------------------
(* The invariant.                                                          *)

\* A descriptor of a file is between its ends, one of no file is closed.
Placed(d, at) ==
    /\ at \in [Files -> Int]
    /\ \A f \in Files : \/ at[f] = Closed
                        \/ d.inode[f].operation /\ at[f] \in 0 .. d.inode[f].size

\* The disk and the descriptors, as long as no write is out of order; m is the
\* largest block number of a removed file.
Fine(d, t, at, m) == Good(d, t) /\ Placed(d, at) /\ (m < Direct => Lost(d, t) = {})
Stands(d, at, m) == m \in Int /\ \E t : Fine(d, t, at, m)

\* TypeOK and ReadsBack, of a disk.
Typed(d, at) ==
    /\ d.freeBlock_number \in 0 .. NumBlocks /\ d.index \subseteq Blocks
    /\ \A f \in Files :
         /\ d.inode[f].size \in Nat
         /\ d.inode[f].block_number \in -1 .. d.inode[f].size \div Words
         /\ d.inode[f].last_block_offset \in 0 .. Words - 1
         /\ at[f] \in {Closed} \cup 0 .. max_file_size
         /\ \A i \in 0 .. Direct + 1 : d.inode[f].location[i] \in Blocks \cup {NULL}

Reads(d, f) == d.inode[f].operation /\ d.inode[f].size > 0 =>
    ReadFile(d, f, 0, d.inode[f].size).output = [i \in 1 .. d.inode[f].size |-> Data(f, i - 1)]

IInv ==
    /\ TypeOK /\ ReadsBack
    /\ Running => DOMAIN orderly = Files /\ Stands(disk, position, removed)

\* What an inode on any disk has.
LEMMA InodeTypes ==
    ASSUME NEW d \in Disks, NEW f \in Files
    PROVE  /\ d.inode[f].size \in Nat /\ d.inode[f].block_number \in Int
           /\ d.inode[f].last_block_offset \in 0 .. Words - 1
           /\ \A i \in 0 .. Direct + 1 : d.inode[f].location[i] \in Blocks \cup {NULL}
           /\ d.index \subseteq Blocks
<1>1. d.inode \in [Files -> Inodes] /\ d.index \subseteq Blocks
  BY DEF Disks
<1>2. d.inode[f] \in Inodes
  BY <1>1
<1>3. /\ d.inode[f].size \in Nat /\ d.inode[f].block_number \in Int
      /\ d.inode[f].last_block_offset \in Index
      /\ d.inode[f].location \in [Slots -> Blocks \cup {NULL}]
  BY <1>2 DEF Inodes
<1>4. \A i \in Slots : d.inode[f].location[i] \in Blocks \cup {NULL}
  BY <1>3
<1> QED BY <1>1, <1>3, <1>4 DEF Index, Slots

\* The numbers of a good file are in their bounds.
LEMMA NumbersIn ==
    ASSUME NEW d, NEW t, Good(d, t), NEW f \in Files
    PROVE  /\ d \in Disks /\ d.inode[f].size \in 0 .. max_file_size
           /\ d.inode[f].block_number \in -1 .. d.inode[f].size \div Words
<1>1. d \in Disks /\ GoodFile(d, t, f)
  BY DEF Good, Sane
<1>2. d.inode[f].operation \in BOOLEAN
  <2>1. d.inode[f] \in Inodes
    BY <1>1 DEF Disks
  <2> QED BY <2>1 DEF Inodes
<1> DEFINE s == d.inode[f].size
<1>3. s \in 0 .. max_file_size /\ s \in Nat
  BY <1>1, Sizes DEF GoodFile
<1> HIDE DEF s
<1>4. s \div Words \in Nat
  BY <1>3, DivMod
<1>5. d.inode[f].block_number \in {-1, 0, s \div Words}
  BY <1>1, <1>2 DEF GoodFile, s
<1>6. d.inode[f].block_number \in -1 .. s \div Words
  BY <1>4, <1>5
<1> QED BY <1>1, <1>3, <1>6 DEF s

\* A sane disk whose inodes have their numbers in their bounds is typed.
LEMMA TypedIs ==
    ASSUME NEW d, Sane(d), NEW at,
           \A f \in Files : d.inode[f].block_number \in -1 .. d.inode[f].size \div Words,
           \A f \in Files : at[f] \in {Closed} \cup 0 .. max_file_size
    PROVE  Typed(d, at)
<1>1. d \in Disks /\ d.freeBlock_number \in 0 .. NumBlocks
  BY CounterLemma DEF Sane
<1>2. d.index \subseteq Blocks
  BY <1>1 DEF Disks
<1>3. ASSUME NEW f \in Files
      PROVE  /\ d.inode[f].size \in Nat
             /\ d.inode[f].last_block_offset \in 0 .. Words - 1
             /\ \A i \in 0 .. Direct + 1 : d.inode[f].location[i] \in Blocks \cup {NULL}
  BY <1>1, InodeTypes
<1> QED BY <1>1, <1>2, <1>3 DEF Typed

\* The disk and the descriptors are typed, and every file reads back.
LEMMA StandsTyped ==
    ASSUME NEW d, NEW t, Good(d, t), NEW at, Placed(d, at)
    PROVE  Typed(d, at)
<1>1. ASSUME NEW f \in Files PROVE at[f] \in {Closed} \cup 0 .. max_file_size
  <2> DEFINE s == d.inode[f].size
  <2>1. s \in 0 .. max_file_size /\ (at[f] = Closed \/ at[f] \in 0 .. s)
    BY NumbersIn DEF Placed
  <2> HIDE DEF s
  <2> QED BY <2>1, Sizes
<1>2. \A f \in Files : d.inode[f].block_number \in -1 .. d.inode[f].size \div Words
  BY NumbersIn
<1>3. Sane(d)
  BY DEF Good
<1> QED BY <1>1, <1>2, <1>3, TypedIs

\* Of a good disk every file reads back.
LEMMA StandsReads ==
    ASSUME NEW d, NEW t, Good(d, t), NEW f \in Files
    PROVE  Reads(d, f)
<1>1. Agree(d, t, f, d)
  BY DEF Agree
<1> QED BY <1>1, ReadLemma DEF Reads

-----------------------------------------------------------------------------
(* The calls.                                                              *)

\* The greater and the lesser of two numbers.
LEMMA TwoNumbers ==
    ASSUME NEW a \in Int, NEW b \in Int
    PROVE  /\ Max({a, b}) \in {a, b} /\ Max({a, b}) >= a /\ Max({a, b}) >= b
           /\ Min({a, b}) \in {a, b} /\ Min({a, b}) <= a /\ Min({a, b}) <= b
<1> DEFINE S == {a, b}
<1>1. \E x \in S : \A y \in S : x >= y
  BY SMT
<1>2. \E x \in S : \A y \in S : x <= y
  BY SMT
<1>3. Max(S) = CHOOSE x \in S : \A y \in S : x >= y
  BY DEF Max
<1>4. Min(S) = CHOOSE x \in S : \A y \in S : x <= y
  BY DEF Min
<1>5. Max(S) \in S /\ \A y \in S : Max(S) >= y
  <2> HIDE DEF S
  <2> QED BY <1>1, <1>3
<1>6. Min(S) \in S /\ \A y \in S : Min(S) <= y
  <2> HIDE DEF S
  <2> QED BY <1>2, <1>4
<1> QED BY <1>5, <1>6

\* A descriptor is moved.
Moved(at, f, v) == [at EXCEPT ![f] = v]

\* Moved inside its file, it is in its place.
LEMMA MovedPlaced ==
    ASSUME NEW d, NEW at, Placed(d, at), NEW f \in Files, NEW v,
           v = Closed \/ (d.inode[f].operation /\ v \in 0 .. d.inode[f].size)
    PROVE  Placed(d, Moved(at, f, v))
<1>0. v \in Int
  BY DEF Closed
<1>1. /\ Moved(at, f, v) \in [Files -> Int] /\ Moved(at, f, v)[f] = v
      /\ \A g \in Files : g # f => Moved(at, f, v)[g] = at[g]
  BY <1>0 DEF Placed, Moved
<1> HIDE DEF Moved
<1>2. ASSUME NEW g \in Files
      PROVE  \/ Moved(at, f, v)[g] = Closed
             \/ d.inode[g].operation /\ Moved(at, f, v)[g] \in 0 .. d.inode[g].size
  BY <1>1 DEF Placed
<1> QED BY <1>1, <1>2 DEF Placed

\* Opening, closing and seeking move one.
LEMMA MovedStands ==
    ASSUME NEW d, NEW at, NEW m, Stands(d, at, m), NEW f \in Files, NEW v,
           v = Closed \/ (d.inode[f].operation /\ v \in 0 .. d.inode[f].size)
    PROVE  Stands(d, Moved(at, f, v), m)
<1>1. PICK t : Fine(d, t, at, m)
  BY DEF Stands
<1>2. Placed(d, at)
  BY <1>1 DEF Fine
<1>3. Placed(d, Moved(at, f, v))
  BY <1>2, MovedPlaced
<1>4. Fine(d, t, Moved(at, f, v), m)
  BY <1>1, <1>3 DEF Fine
<1> QED BY <1>4 DEF Stands

\* Descriptors of other files are where they were.
LEMMA PlacedOthers ==
    ASSUME NEW d, NEW e, NEW at, NEW f \in Files, Placed(d, at), at[f] = Closed,
           \A g \in Files : g # f => e.inode[g] = d.inode[g]
    PROVE  Placed(e, at)
<1>1. ASSUME NEW g \in Files
      PROVE  at[g] = Closed \/ (e.inode[g].operation /\ at[g] \in 0 .. e.inode[g].size)
  <2>1. CASE g = f
    BY <2>1
  <2>2. CASE g # f
    <3>1. e.inode[g] = d.inode[g]
      BY <2>2
    <3> QED BY <3>1 DEF Placed
  <2> QED BY <2>1, <2>2
<1> QED BY <1>1 DEF Placed

\* An inode with no pointers becomes a file.
LEMMA MadeStands ==
    ASSUME NEW d, NEW at, NEW m, Stands(d, at, m), NEW f \in Files, ~d.inode[f].operation,
           \A i \in Slots : d.inode[f].location[i] = NULL
    PROVE  Stands(Made(d, f), at, m)
<1>1. PICK t : Fine(d, t, at, m)
  BY DEF Stands
<1>2. Good(d, t) /\ Placed(d, at)
  BY <1>1 DEF Fine
<1> DEFINE e == Made(d, f)
<1>3. e = Made(d, f)
  OBVIOUS
<1> HIDE DEF e
<1>4. Good(e, t) /\ (\A g \in Files : g # f => e.inode[g] = d.inode[g]) /\ Lost(e, t) = Lost(d, t)
  BY <1>2, <1>3, MadeGood
<1>5. at[f] = Closed
  BY <1>2 DEF Placed
<1>6. Placed(e, at)
  BY <1>2, <1>4, <1>5, PlacedOthers
<1>7. Fine(e, t, at, m)
  BY <1>1, <1>4, <1>6 DEF Fine
<1> QED BY <1>3, <1>7 DEF Stands

\* Any inode does; then the disk is still typed.
LEMMA MadeTyped ==
    ASSUME NEW d, NEW at, NEW m, Stands(d, at, m), NEW f \in Files
    PROVE  Made(d, f) \in Disks /\ Typed(Made(d, f), at)
<1>1. PICK t : Fine(d, t, at, m)
  BY DEF Stands
<1>2. Good(d, t) /\ Placed(d, at) /\ Sane(d)
  BY <1>1 DEF Fine, Good
<1>3. Typed(d, at)
  BY <1>2, StandsTyped
<1> DEFINE e == Made(d, f)
<1>4. d \in Disks
  BY <1>2 DEF Sane
<1>5. /\ e \in Disks /\ e.freeBlock_number = d.freeBlock_number /\ e.index = d.index
      /\ \A g \in Files : g # f => e.inode[g] = d.inode[g]
      /\ e.inode[f].size = 0 /\ e.inode[f].block_number = -1
  BY <1>4, MadeLemma
<1> HIDE DEF e
<1>6. Sane(e)
  BY <1>2, <1>5 DEF Sane
<1>7. ASSUME NEW g \in Files PROVE e.inode[g].block_number \in -1 .. e.inode[g].size \div Words
  <2>1. CASE g = f
    <3>1. 0 \div Words = 0
      BY BlocksLemma
    <3> QED BY <1>5, <2>1, <3>1
  <2>2. CASE g # f
    BY <1>2, <1>5, <2>2, NumbersIn
  <2> QED BY <2>1, <2>2
<1>8. \A g \in Files : at[g] \in {Closed} \cup 0 .. max_file_size
  BY <1>3 DEF Typed
<1>9. Typed(e, at)
  BY <1>6, <1>7, <1>8, TypedIs
<1> QED BY <1>5, <1>9 DEF e

\* The descriptor behind a write.
PositionAfter(at, f, w) == Moved(at, f, IF w.ret = -1 THEN at[f] ELSE at[f] + w.ret)

\* Where a call left the disk as it should be, other files are as they were.
LEMMA EndsStands ==
    ASSUME NEW d, NEW t, NEW at, NEW m, m \in Int, Fine(d, t, at, m), NEW f \in Files,
           NEW n \in Nat, NEW e, NEW u, Ends(d, t, f, n, e, u)
    PROVE  Stands(e, Moved(at, f, n), m)
<1>1. /\ e.inode[f].size = n /\ e.inode[f].operation /\ Good(e, u)
      /\ (\A g \in Files : g # f => e.inode[g] = d.inode[g]) /\ Lost(e, u) \subseteq Lost(d, t)
  BY DEF Ends, Kept
<1>2. Placed(d, at) /\ (m < Direct => Lost(d, t) = {})
  BY DEF Fine
<1> DEFINE a == Moved(at, f, n)
<1>3. a \in [Files -> Int] /\ a[f] = n /\ \A g \in Files : g # f => a[g] = at[g]
  BY <1>2 DEF Placed, Moved
<1> HIDE DEF a
<1>4. ASSUME NEW g \in Files
      PROVE  a[g] = Closed \/ (e.inode[g].operation /\ a[g] \in 0 .. e.inode[g].size)
  <2>1. CASE g = f
    <3>1. n \in 0 .. n
      OBVIOUS
    <3> QED BY <1>1, <1>3, <2>1, <3>1
  <2>2. CASE g # f
    <3>1. e.inode[g] = d.inode[g] /\ a[g] = at[g]
      BY <1>1, <1>3, <2>2
    <3> QED BY <1>2, <3>1 DEF Placed
  <2> QED BY <2>1, <2>2
<1>5. Placed(e, a)
  BY <1>3, <1>4 DEF Placed
<1>6. m < Direct => Lost(e, u) = {}
  BY <1>1, <1>2
<1>7. Fine(e, u, a, m)
  BY <1>1, <1>5, <1>6 DEF Fine
<1> QED BY <1>7 DEF Stands, a

\* A write in order, at an open descriptor.
LEMMA WriteStands ==
    ASSUME NEW d, NEW at, NEW m, Stands(d, at, m), NEW f \in Files, at[f] # Closed,
           at[f] = d.inode[f].size, at[f] % Words = 0 => at[f] = 0, NEW n \in Nat, n # 0,
           NEW words, words = [i \in 1 .. n |-> Data(f, at[f] + i - 1)],
           NEW w, w = WriteFile(d, f, at[f], words)
    PROVE  AtEdge(w.disk, f) \/ Stands(w.disk, PositionAfter(at, f, w), m)
<1>1. PICK t : Fine(d, t, at, m)
  BY DEF Stands
<1>2. Good(d, t) /\ Placed(d, at) /\ m \in Int
  BY <1>1 DEF Fine, Stands
<1> DEFINE pos == at[f]
<1>3. d.inode[f].operation /\ pos \in 0 .. d.inode[f].size
      /\ at \in [Files -> Int]
  BY <1>2 DEF Placed
<1>4. pos = d.inode[f].size /\ (pos % Words = 0 => pos = 0) /\ pos \in Nat
      /\ words = [i \in 1 .. n |-> Data(f, pos + i - 1)] /\ w = WriteFile(d, f, pos, words)
  <2>1. d.inode[f].size \in Nat
    BY <1>2, NumbersIn, InodeTypes
  <2> QED BY <2>1
<1>5. pos = at[f]
  OBVIOUS
<1> HIDE DEF pos
<1>6. Ready(d, t, f, pos)
  BY <1>2, <1>3, <1>4 DEF Ready
<1>7. Appended(d, t, f, pos, w)
  BY <1>4, <1>6, OrderlyWrite
<1>8. CASE w.disk = d /\ w.ret = -1
  <2>1. PositionAfter(at, f, w) = at
    <3>1. PositionAfter(at, f, w) = [at EXCEPT ![f] = at[f]]
      BY <1>8 DEF PositionAfter, Moved
    <3> QED BY <1>3, <3>1
  <2> QED BY <1>8, <2>1
<1>9. CASE AtEdge(w.disk, f)
  BY <1>9
<1>10. CASE w.ret \in Nat /\ \E u : Ends(d, t, f, pos + w.ret, w.disk, u)
  <2>1. PICK u : Ends(d, t, f, pos + w.ret, w.disk, u)
    BY <1>10
  <2> DEFINE k == pos + w.ret
             e == w.disk
  <2>2. k \in Nat /\ Ends(d, t, f, k, e, u)
    <3>1. pos \in Nat /\ w.ret \in Nat
      BY <1>4, <1>10
    <3> QED BY <2>1, <3>1
  <2>3. PositionAfter(at, f, w) = Moved(at, f, k)
    BY <1>5, <1>10 DEF PositionAfter
  <2> HIDE DEF k, e
  <2>4. Stands(e, Moved(at, f, k), m)
    BY <1>1, <1>2, <2>2, EndsStands
  <2> QED BY <2>3, <2>4 DEF e
<1> QED BY <1>7, <1>8, <1>9, <1>10 DEF Appended

\* Any other write at an open descriptor leaves the disk, or the disk is still
\* typed and the other files read back.
Strayed(at, f, w) ==
    \/ w.disk.fault # ""
    \/ /\ Typed(w.disk, PositionAfter(at, f, w))
       /\ \A g \in Files : g # f => Reads(w.disk, g)

\* A write out of order does one of the two.
LEMMA WriteStrays ==
    ASSUME NEW d, NEW at, NEW m, Stands(d, at, m), NEW f \in Files, at[f] # Closed,
           ~(at[f] = d.inode[f].size /\ (at[f] % Words = 0 => at[f] = 0)),
           NEW n \in Nat, n # 0,
           NEW words, words = [i \in 1 .. n |-> Data(f, at[f] + i - 1)],
           NEW w, w = WriteFile(d, f, at[f], words)
    PROVE  Strayed(at, f, w)
<1>1. PICK t : Fine(d, t, at, m)
  BY DEF Stands
<1>2. Good(d, t) /\ Placed(d, at)
  BY <1>1 DEF Fine
<1> DEFINE pos == at[f]
           e == w.disk
<1>3. d.inode[f].operation /\ pos \in 0 .. d.inode[f].size /\ at \in [Files -> Int]
  BY <1>2 DEF Placed
<1>4. d.inode[f].size \in Nat
  BY <1>2, NumbersIn, InodeTypes
<1>5. /\ ~(pos = d.inode[f].size /\ (pos % Words = 0 => pos = 0)) /\ pos \in Nat
      /\ words = [i \in 1 .. n |-> Data(f, pos + i - 1)] /\ w = WriteFile(d, f, pos, words)
      /\ pos <= d.inode[f].size
  BY <1>3, <1>4
<1>6. pos = at[f] /\ e = w.disk
  OBVIOUS
<1> HIDE DEF pos, e
<1>7. Behold(d, t, f, pos)
  BY <1>2, <1>3, <1>5 DEF Behold
<1>8. Astray(d, t, f, pos, w)
  BY <1>5, <1>7, DisorderlyWrite
<1>9. ASSUME ~(e.fault # "")
      PROVE  /\ w.ret \in Nat /\ pos + w.ret <= max_file_size
             /\ Sane(e) /\ e.fault = ""
             /\ e.inode[f].block_number = e.inode[f].size \div Words
             /\ \A g \in Files : g # f => e.inode[g] = d.inode[g] /\ Agree(d, t, g, e)
  BY <1>6, <1>8, <1>9 DEF Astray
<1>10. ASSUME ~(e.fault # "")
       PROVE  Typed(e, PositionAfter(at, f, w)) /\ \A g \in Files : g # f => Reads(e, g)
  <2>1. e \in Disks /\ Sane(e)
    BY <1>9, <1>10 DEF Sane
  <2> DEFINE a == PositionAfter(at, f, w)
  <2>2. a[f] = pos + w.ret /\ \A g \in Files : g # f => a[g] = at[g]
    <3>1. w.ret \in Nat
      BY <1>9, <1>10
    <3> DEFINE v == IF w.ret = -1 THEN at[f] ELSE at[f] + w.ret
    <3>2. v = pos + w.ret
      BY <1>6, <3>1
    <3>3. a = Moved(at, f, v)
      BY DEF PositionAfter
    <3> HIDE DEF v
    <3>4. a = [at EXCEPT ![f] = pos + w.ret]
      BY <3>2, <3>3 DEF Moved
    <3> HIDE DEF a
    <3> QED BY <1>3, <3>4
  <2> HIDE DEF a
  <2>3. Typed(d, at)
    BY <1>2, StandsTyped
  <2>4. ASSUME NEW g \in Files PROVE a[g] \in {Closed} \cup 0 .. max_file_size
    <3>1. CASE g = f
      <4>1. w.ret \in Nat /\ pos + w.ret <= max_file_size
        BY <1>9, <1>10
      <4>2. pos + w.ret \in 0 .. max_file_size
        BY <1>5, <4>1, Sizes
      <4> QED BY <2>2, <3>1, <4>2
    <3>2. CASE g # f
      BY <2>2, <2>3, <3>2 DEF Typed
    <3> QED BY <3>1, <3>2
  <2>5. ASSUME NEW g \in Files
        PROVE  e.inode[g].block_number \in -1 .. e.inode[g].size \div Words
    <3>1. CASE g = f
      <4> DEFINE q == e.inode[f].size \div Words
      <4>1. e.inode[f].size \in Nat
        BY <2>1, InodeTypes
      <4>2. q \in Nat
        BY <4>1, DivMod
      <4>3. e.inode[f].block_number = q
        BY <1>9, <1>10
      <4> HIDE DEF q
      <4>4. e.inode[f].block_number \in -1 .. q
        BY <4>2, <4>3
      <4> QED BY <3>1, <4>4 DEF q
    <3>2. CASE g # f
      <4>1. e.inode[g] = d.inode[g]
        BY <1>9, <1>10, <3>2
      <4> QED BY <1>2, <4>1, NumbersIn
    <3> QED BY <3>1, <3>2
  <2>6. Typed(e, a)
    BY <2>1, <2>4, <2>5, TypedIs
  <2>7. ASSUME NEW g \in Files, g # f, e.inode[g].operation, e.inode[g].size > 0
        PROVE  ReadFile(e, g, 0, e.inode[g].size).output
                   = [i \in 1 .. e.inode[g].size |-> Data(g, i - 1)]
    <3>1. e.inode[g] = d.inode[g] /\ Agree(d, t, g, e)
      BY <1>9, <1>10, <2>7
    <3>2. /\ d.inode[g].operation /\ Good(d, t) /\ Agree(d, t, g, e)
          /\ e.inode[g].size > 0
      BY <1>2, <2>7, <3>1
    <3> QED BY <3>2, ReadLemma
  <2>8. \A g \in Files : g # f => Reads(e, g)
    BY <2>7 DEF Reads
  <2> QED BY <2>6, <2>8 DEF a
<1> QED BY <1>6, <1>10 DEF Strayed

\* The removal of a file that nobody has open.
LEMMA UnlinkStands ==
    ASSUME NEW d, NEW at, NEW m, Stands(d, at, m), NEW f \in Files, d.inode[f].operation,
           at[f] = Closed, NEW e, e = Dropped(FreeBlock(d, f), f)
    PROVE  \/ /\ e.fault # "" /\ d.inode[f].size \in {Direct * Words, SingleEnd * Words}
              /\ ~e.inode[f].operation
           \/ /\ Stands(e, at, Max({m, d.inode[f].block_number}))
              /\ e.fault = ""
<1>1. PICK t : Fine(d, t, at, m)
  BY DEF Stands
<1>2. Good(d, t) /\ Placed(d, at) /\ m \in Int
  BY <1>1 DEF Fine, Stands
<1> DEFINE D == FreeBlock(d, f)
           n == d.inode[f].block_number
<1>3. e = Dropped(D, f)
  OBVIOUS
<1>4. n \in Int
  BY <1>2, NumbersIn, InodeTypes
<1> HIDE DEF D
<1>5. Emptied(d, t, f, D)
  BY <1>2, FreeBlockLemma DEF D
<1>6. CASE /\ D \in Disks /\ D.fault # "" /\ D.inode = d.inode
           /\ d.inode[f].size \in {Direct * Words, SingleEnd * Words}
  <2>1. e.fault = D.fault /\ ~e.inode[f].operation
    <3>1. D \in Disks
      BY <1>6
    <3> QED BY <1>3, <3>1, DroppedLemma
  <2> QED BY <1>6, <2>1 DEF D
<1>7. ASSUME NEW A, Gone(d, t, f, A, D),
             n < Direct => A = {p \in Places : t[f][p] # NULL}
      PROVE  Stands(e, at, Max({m, n})) /\ e.fault = ""
  <2> DEFINE u == Cut(t, f)
             k == Max({m, n})
  <2>1. u = Cut(t, f)
    OBVIOUS
  <2>2. k \in {m, n} /\ k >= m /\ k >= n
    BY <1>2, <1>4, TwoNumbers
  <2> HIDE DEF u, k, n
  <2>3. /\ Good(e, u) /\ (\A g \in Files : g # f => e.inode[g] = d.inode[g])
        /\ A = {p \in Places : t[f][p] # NULL} => Lost(e, u) \subseteq Lost(d, t)
    BY <1>2, <1>3, <1>7, <2>1, DroppedGood
  <2>4. Placed(e, at)
    BY <1>2, <2>3, PlacedOthers
  <2>5. ASSUME k < Direct PROVE Lost(e, u) = {}
    <3>1. n < Direct /\ m < Direct
      BY <1>2, <1>4, <2>2, <2>5, Sizes
    <3>2. Lost(d, t) = {}
      BY <1>1, <3>1 DEF Fine
    <3> QED BY <1>7, <2>3, <3>1, <3>2
  <2>6. Fine(e, u, at, k)
    BY <2>3, <2>4, <2>5 DEF Fine
  <2>7. k \in Int /\ e.fault = ""
    BY <1>2, <1>4, <2>2, <2>3 DEF Good
  <2> QED BY <2>6, <2>7 DEF Stands, k
<1> QED BY <1>5, <1>6, <1>7 DEF Emptied

-----------------------------------------------------------------------------
(* The theorems.                                                           *)

\* Of a running system TypeOK and ReadsBack follow from the rest.
LEMMA StandsAll ==
    ASSUME Stands(disk, position, removed)
    PROVE  TypeOK /\ ReadsBack
<1>1. PICK t : Fine(disk, t, position, removed)
  BY DEF Stands
<1>2. Good(disk, t) /\ Placed(disk, position)
  BY <1>1 DEF Fine
<1>3. Typed(disk, position)
  BY <1>2, StandsTyped
<1>4. \A f \in Files : Reads(disk, f)
  BY <1>2, StandsReads
<1>5. TypeOK
  BY <1>3 DEF Typed, TypeOK
<1>6. ReadsBack
  BY <1>4 DEF Reads, ReadsBack, Live
<1> QED BY <1>5, <1>6

\* The same of the next state.
LEMMA StandsNext ==
    ASSUME Stands(disk', position', removed')
    PROVE  TypeOK' /\ ReadsBack'
<1>1. PICK t : Fine(disk', t, position', removed')
  BY DEF Stands
<1>2. Good(disk', t) /\ Placed(disk', position')
  BY <1>1 DEF Fine
<1>3. Typed(disk', position')
  BY <1>2, StandsTyped
<1>4. \A f \in Files : Reads(disk', f)
  BY <1>2, StandsReads
<1>5. TypeOK'
  BY <1>3 DEF Typed, TypeOK
<1>6. ReadsBack'
  BY <1>4 DEF Reads, ReadsBack, Live
<1> QED BY <1>5, <1>6

\* Where the kernel has left the disk, nothing is said.
LEMMA FaultNext ==
    ASSUME disk'.fault # ""
    PROVE  IInv'
BY DEF IInv, TypeOK, ReadsBack, Running

\* Where the system is as it should be in the next state, the invariant holds
\* there.
LEMMA StandsIInv ==
    ASSUME Stands(disk', position', removed'), DOMAIN orderly' = Files
    PROVE  IInv'
BY StandsNext DEF IInv

\* The empty disk.
LEMMA InitIInv == Init => IInv
<1> SUFFICES ASSUME Init PROVE IInv
  OBVIOUS
<1> DEFINE t == [f \in Files |-> [p \in Places |-> NULL]]
<1>1. /\ \A f \in Files : /\ disk.inode[f].operation = FALSE /\ disk.inode[f].size = 0
                          /\ disk.inode[f].block_number = 0
                          /\ \A i \in Slots : disk.inode[f].location[i] = NULL
      /\ \A b \in Blocks : disk.space[b] = ZeroBlock
      /\ disk.index = {} /\ disk.freeBlock_number = NumBlocks /\ disk.fault = ""
  BY DEF Init, Slots
<1>2. disk \in Disks
  <2>1. ZeroBlock \in [Index -> Word]
    BY DEF ZeroBlock, Index, Word
  <2>2. 0 \in Index
    BY Sizes DEF Index
  <2>3. [operation |-> FALSE, size |-> 0, block_number |-> 0, last_block_offset |-> 0,
         location |-> [i \in 0 .. Direct + 1 |-> NULL]] \in Inodes
    BY <2>2 DEF Inodes, Slots
  <2>4. NumBlocks \in Int
    BY FilesAssumption
  <2> QED BY <2>1, <2>3, <2>4 DEF Init, Disks
<1>3. Cardinality(Blocks \ disk.index) = NumBlocks
  <2>1. Cardinality(Blocks) = NumBlocks
    <3>1. NumBlocks \in Nat
      BY FilesAssumption
    <3>2. Cardinality(0 .. NumBlocks - 1) = NumBlocks
      <4>1. 0 \in Int /\ NumBlocks - 1 \in Int
        BY <3>1
      <4>2. Cardinality(0 .. NumBlocks - 1)
                = IF 0 > NumBlocks - 1 THEN 0 ELSE (NumBlocks - 1) - 0 + 1
        BY <4>1, FS_Interval
      <4> QED BY <3>1, <4>2
    <3> QED BY <3>2 DEF Blocks
  <2>2. Blocks \ disk.index = Blocks
    BY <1>1
  <2> QED BY <2>1, <2>2
<1>4. Sane(disk)
  BY <1>1, <1>2, <1>3 DEF Sane
<1>5. t \in Trees /\ \A f \in Files, p \in Places : t[f][p] = NULL
  BY DEF Trees
<1> HIDE DEF t
<1>6. Sound(disk, t)
  BY <1>1, <1>5 DEF Sound, Separate
<1>7. ASSUME NEW f \in Files PROVE GoodFile(disk, t, f)
  <2>1. BlocksOf(0) = 0 /\ 0 \in 0 .. max_file_size /\ 0 <= Capacity
    BY BlocksLemma, Sizes
  <2>2. Fills(t, f, 0)
    BY <1>5, <2>1, NoneFilled DEF Fills
  <2>3. Holds(disk, t, f, 0)
    BY DEF Holds
  <2> QED BY <1>1, <2>1, <2>2, <2>3 DEF GoodFile
<1>8. Good(disk, t)
  BY <1>1, <1>4, <1>6, <1>7 DEF Good
<1>9. Placed(disk, position)
  <2>1. position = [f \in Files |-> Closed]
    BY DEF Init
  <2>2. Closed \in Int
    BY DEF Closed
  <2>3. position \in [Files -> Int] /\ \A f \in Files : position[f] = Closed
    BY <2>1, <2>2
  <2> QED BY <2>3 DEF Placed
<1>10. Lost(disk, t) = {}
  BY <1>1 DEF Lost
<1>11. removed \in Int /\ DOMAIN orderly = Files
  <2>1. removed = -1 /\ orderly = [f \in Files |-> TRUE]
    BY DEF Init
  <2> QED BY <2>1
<1>12. Stands(disk, position, removed)
  BY <1>8, <1>9, <1>10, <1>11 DEF Stands, Fine
<1> QED BY <1>11, <1>12, StandsAll DEF IInv

\* The invariant of a running system.
LEMMA RunningHas ==
    ASSUME IInv, Running
    PROVE  Stands(disk, position, removed) /\ DOMAIN orderly = Files
BY DEF IInv

\* allocate_inode keeps the invariant.
LEMMA CreateIInv ==
    ASSUME IInv, NEW f \in Files, Create(f)
    PROVE  IInv'
<1>1. Stands(disk, position, removed) /\ DOMAIN orderly = Files
  BY RunningHas DEF Create
<1>2. /\ disk' = Made(disk, f) /\ position' = position /\ orderly' = orderly
      /\ removed' = removed /\ ~disk.inode[f].operation
      /\ reused' = \E i \in Slots : disk.inode[f].location[i] # NULL
  BY DEF Create, Made, Slots
<1>3. CASE \E i \in Slots : disk.inode[f].location[i] # NULL
  <2>1. reused'
    BY <1>2, <1>3
  <2>2. Typed(disk', position')
    BY <1>1, <1>2, MadeTyped
  <2>3. TypeOK'
    BY <2>2 DEF Typed, TypeOK
  <2> QED BY <2>1, <2>3 DEF IInv, ReadsBack, Running
<1>4. CASE ~\E i \in Slots : disk.inode[f].location[i] # NULL
  <2>1. Stands(Made(disk, f), position, removed)
    BY <1>1, <1>2, <1>4, MadeStands
  <2> QED BY <1>1, <1>2, <2>1, StandsIInv
<1> QED BY <1>3, <1>4

\* The calls that only move a descriptor do.
LEMMA MovedIInv ==
    ASSUME IInv, Running, NEW f \in Files, NEW v,
           v = Closed \/ (disk.inode[f].operation /\ v \in 0 .. disk.inode[f].size),
           disk' = disk, removed' = removed, orderly' = orderly,
           position' = Moved(position, f, v)
    PROVE  IInv'
<1>1. Stands(disk, position, removed) /\ DOMAIN orderly = Files
  BY RunningHas
<1>2. Stands(disk, Moved(position, f, v), removed)
  BY <1>1, MovedStands
<1> QED BY <1>1, <1>2, StandsIInv

\* The size of a file, and an open descriptor.
LEMMA OpenHas ==
    ASSUME IInv, Running, NEW f \in Files
    PROVE  /\ disk.inode[f].size \in Nat
           /\ position[f] # Closed =>
                 disk.inode[f].operation /\ position[f] \in 0 .. disk.inode[f].size
<1>1. PICK t : Fine(disk, t, position, removed)
  BY RunningHas DEF Stands
<1>2. Good(disk, t) /\ Placed(disk, position)
  BY <1>1 DEF Fine
<1>3. disk.inode[f].size \in Nat
  BY <1>2, NumbersIn, InodeTypes
<1> QED BY <1>2, <1>3 DEF Placed

\* rd_open keeps the invariant.
LEMMA OpenIInv ==
    ASSUME IInv, NEW f \in Files, Open(f)
    PROVE  IInv'
<1>1. /\ Running /\ disk.inode[f].operation /\ disk' = disk /\ removed' = removed
      /\ orderly' = orderly /\ position' = Moved(position, f, 0)
  BY DEF Open, Moved
<1>2. 0 \in 0 .. disk.inode[f].size
  BY <1>1, OpenHas
<1> QED BY <1>1, <1>2, MovedIInv

\* rd_close does.
LEMMA CloseIInv ==
    ASSUME IInv, NEW f \in Files, Close(f)
    PROVE  IInv'
<1>1. /\ Running /\ disk' = disk /\ removed' = removed
      /\ orderly' = orderly /\ position' = Moved(position, f, Closed)
  BY DEF Close, Moved
<1> QED BY <1>1, MovedIInv

\* rd_lseek does, whatever position it is given.
LEMMA LseekIInv ==
    ASSUME IInv, NEW f \in Files, NEW pos \in {0, max_file_size}, Lseek(f, pos)
    PROVE  IInv'
<1> DEFINE s == disk.inode[f].size
           v == Min({pos, s})
<1>1. /\ Running /\ disk' = disk /\ removed' = removed /\ position[f] # Closed
      /\ orderly' = orderly /\ position' = Moved(position, f, v)
  BY DEF Lseek, Moved
<1>2. s \in Nat /\ disk.inode[f].operation
  BY <1>1, OpenHas
<1>3. pos \in Nat
  BY Sizes
<1> HIDE DEF s
<1>4. v \in {pos, s} /\ v <= s
  BY <1>2, <1>3, TwoNumbers
<1> HIDE DEF v
<1>5. v \in 0 .. s
  BY <1>2, <1>3, <1>4
<1> QED BY <1>1, <1>2, <1>5, MovedIInv DEF s

\* What rd_write does.
Wrote(f, n, w) ==
    /\ w = WriteFile(disk, f, position[f], [i \in 1 .. n |-> Data(f, position[f] + i - 1)])
    /\ Running /\ position[f] # Closed
    /\ disk' = w.disk /\ position' = PositionAfter(position, f, w)
    /\ orderly' = [orderly EXCEPT ![f] = @ /\ position[f] = disk.inode[f].size
                                           /\ (position[f] % Words = 0 => position[f] = 0)]
    /\ removed' = removed /\ reused' = reused

\* Every write is one of these.
LEMMA WriteWrote ==
    ASSUME NEW f \in Files, NEW n, Write(f, n)
    PROVE  \E w : Wrote(f, n, w)
<1> DEFINE w == WriteFile(disk, f, position[f],
                          [i \in 1 .. n |-> Data(f, position[f] + i - 1)])
<1>1. Wrote(f, n, w)
  BY DEF Write, Wrote, PositionAfter, Moved
<1> QED BY <1>1

\* Where the kernel comes to a wild pointer in a call on file f.
Edge(f) ==
    \/ ~orderly'[f]
    \/ /\ disk.inode[f].operation /\ ~disk'.inode[f].operation
       /\ disk.inode[f].size \in {Direct * Words, SingleEnd * Words}
    \/ disk'.inode[f].block_number * Words = max_file_size
    \/ /\ disk'.inode[f].block_number - SingleEnd > 0
       /\ (disk'.inode[f].block_number - SingleEnd) % Words = 0
       /\ disk'.freeBlock_number = Largest

\* rd_write keeps the invariant, and faults at an edge.
LEMMA WriteIInv ==
    ASSUME IInv, NEW f \in Files, NEW n \in WriteSizes, NEW w, Wrote(f, n, w)
    PROVE  IInv' /\ (disk'.fault # "" => Edge(f))
<1> DEFINE words == [i \in 1 .. n |-> Data(f, position[f] + i - 1)]
           Ordered == /\ position[f] = disk.inode[f].size
                      /\ (position[f] % Words = 0 => position[f] = 0)
<1>1. /\ w = WriteFile(disk, f, position[f], words) /\ Running /\ position[f] # Closed
      /\ disk' = w.disk /\ position' = PositionAfter(position, f, w) /\ removed' = removed
      /\ reused' = reused
  BY DEF Wrote
<1>2. orderly' = [orderly EXCEPT ![f] = @ /\ Ordered]
  BY DEF Wrote
<1>3. Stands(disk, position, removed) /\ DOMAIN orderly = Files
  BY <1>1, RunningHas
<1>4. n \in Nat /\ n # 0
  BY FilesAssumption
<1>5. words = [i \in 1 .. n |-> Data(f, position[f] + i - 1)]
  OBVIOUS
<1>6. DOMAIN orderly' = Files
  BY <1>2, <1>3
<1> HIDE DEF words
<1>7. CASE Ordered
  <2>1. AtEdge(w.disk, f) \/ Stands(w.disk, PositionAfter(position, f, w), removed)
    BY <1>1, <1>3, <1>4, <1>5, <1>7, WriteStands
  <2>2. CASE AtEdge(w.disk, f)
    <3>1. /\ disk'.fault # ""
          /\ \/ disk'.inode[f].block_number = Capacity
             \/ /\ disk'.inode[f].block_number > SingleEnd
                /\ (disk'.inode[f].block_number - SingleEnd) % Words = 0
                /\ disk'.freeBlock_number = Largest
      BY <1>1, <2>2 DEF AtEdge
    <3>2. disk'.inode[f].block_number \in Int
      <4>1. w.disk \in Disks
        BY <2>2 DEF AtEdge
      <4> QED BY <1>1, <4>1, InodeTypes
    <3>3. disk'.inode[f].block_number > SingleEnd =>
              disk'.inode[f].block_number - SingleEnd > 0
      BY <3>2, Sizes
    <3>4. disk'.inode[f].block_number = Capacity =>
              disk'.inode[f].block_number * Words = max_file_size
      BY Sizes
    <3>5. Edge(f)
      BY <3>1, <3>3, <3>4 DEF Edge
    <3> QED BY <3>1, <3>5, FaultNext
  <2>3. CASE Stands(w.disk, PositionAfter(position, f, w), removed)
    <3>1. Stands(disk', position', removed')
      BY <1>1, <2>3
    <3>2. disk'.fault = ""
      <4>1. PICK t : Fine(disk', t, position', removed')
        BY <3>1 DEF Stands
      <4> QED BY <4>1 DEF Fine, Good
    <3> QED BY <1>6, <3>1, <3>2, StandsIInv
  <2> QED BY <2>1, <2>2, <2>3
<1>8. CASE ~Ordered
  <2>1. orderly'[f] = FALSE
    BY <1>2, <1>3, <1>8
  <2>2. Strayed(position, f, w)
    BY <1>1, <1>3, <1>4, <1>5, <1>8, WriteStrays
  <2>3. Edge(f)
    BY <2>1 DEF Edge
  <2>4. ~Running'
    BY <2>1 DEF Running
  <2>5. CASE w.disk.fault # ""
    BY <1>1, <2>3, <2>5, FaultNext
  <2>6. CASE /\ Typed(w.disk, PositionAfter(position, f, w))
             /\ \A g \in Files : g # f => Reads(w.disk, g)
    <3>1. Typed(disk', position') /\ \A g \in Files : g # f => Reads(disk', g)
      BY <1>1, <2>6
    <3>2. TypeOK'
      BY <3>1 DEF Typed, TypeOK
    <3>3. ReadsBack'
      BY <2>1, <3>1 DEF Reads, ReadsBack, Live
    <3> QED BY <2>3, <2>4, <3>2, <3>3 DEF IInv
  <2> QED BY <2>2, <2>5, <2>6 DEF Strayed
<1> QED BY <1>7, <1>8

\* free_inode keeps it, and faults at an edge.
LEMMA UnlinkIInv ==
    ASSUME IInv, NEW f \in Files, Unlink(f)
    PROVE  IInv' /\ (disk'.fault # "" => Edge(f))
<1>1. /\ Running /\ disk.inode[f].operation /\ position[f] = Closed
      /\ disk' = Dropped(FreeBlock(disk, f), f)
      /\ removed' = Max({removed, disk.inode[f].block_number})
      /\ position' = position /\ orderly' = orderly /\ reused' = reused
  BY DEF Unlink, Dropped
<1>2. Stands(disk, position, removed) /\ DOMAIN orderly = Files
  BY <1>1, RunningHas
<1>3. \/ /\ disk'.fault # "" /\ disk.inode[f].size \in {Direct * Words, SingleEnd * Words}
         /\ ~disk'.inode[f].operation
      \/ /\ Stands(disk', position, Max({removed, disk.inode[f].block_number}))
         /\ disk'.fault = ""
  BY <1>1, <1>2, UnlinkStands
<1>4. CASE /\ disk'.fault # "" /\ disk.inode[f].size \in {Direct * Words, SingleEnd * Words}
           /\ ~disk'.inode[f].operation
  <2>1. Edge(f)
    BY <1>1, <1>4 DEF Edge
  <2> QED BY <1>4, <2>1, FaultNext
<1>5. CASE /\ Stands(disk', position, Max({removed, disk.inode[f].block_number}))
           /\ disk'.fault = ""
  BY <1>1, <1>2, <1>5, StandsIInv
<1> QED BY <1>3, <1>4, <1>5

\* The calls that leave the disk where it is, or only make a file, do not fault.
LEMMA QuietCalls ==
    ASSUME IInv, NEW f \in Files,
           \/ Create(f) \/ Open(f) \/ Close(f)
           \/ \E pos \in {0, max_file_size} : Lseek(f, pos)
    PROVE  disk'.fault = ""
<1>1. Running
  BY DEF Create, Open, Close, Lseek
<1>2. disk.fault = ""
  BY <1>1 DEF Running
<1>3. CASE Create(f)
  <2>1. PICK t : Fine(disk, t, position, removed)
    BY <1>1, RunningHas DEF Stands
  <2>2. disk \in Disks
    BY <2>1 DEF Fine, Good, Sane
  <2>3. disk' = Made(disk, f)
    BY <1>3 DEF Create, Made
  <2> QED BY <1>2, <2>2, <2>3, MadeLemma
<1>4. CASE ~Create(f)
  <2>1. disk' = disk
    BY <1>4 DEF Open, Close, Lseek
  <2> QED BY <1>2, <2>1
<1> QED BY <1>3, <1>4

\* Every step keeps the invariant, and where one faults is an edge.
LEMMA NextIInv ==
    ASSUME IInv, Next
    PROVE  IInv' /\ (disk'.fault # "" => \E f \in Files : Edge(f))
<1>1. PICK f \in Files :
          \/ Create(f) \/ Open(f) \/ Close(f) \/ Unlink(f)
          \/ \E n \in WriteSizes : Write(f, n)
          \/ \E pos \in {0, max_file_size} : Lseek(f, pos)
  BY DEF Next
<1>2. CASE Create(f)
  BY <1>2, CreateIInv, QuietCalls
<1>3. CASE Open(f)
  BY <1>3, OpenIInv, QuietCalls
<1>4. CASE Close(f)
  BY <1>4, CloseIInv, QuietCalls
<1>5. CASE Unlink(f)
  BY <1>5, UnlinkIInv
<1>6. ASSUME NEW n \in WriteSizes, Write(f, n)
      PROVE  IInv' /\ (disk'.fault # "" => Edge(f))
  <2>1. PICK w : Wrote(f, n, w)
    BY <1>6, WriteWrote
  <2> QED BY <2>1, WriteIInv
<1>7. ASSUME NEW pos \in {0, max_file_size}, Lseek(f, pos)
      PROVE  IInv' /\ disk'.fault = ""
  BY <1>7, LseekIInv, QuietCalls
<1> QED BY <1>1, <1>2, <1>3, <1>4, <1>5, <1>6, <1>7

\* A step that changes nothing keeps it.
LEMMA StutterIInv ==
    ASSUME IInv, UNCHANGED vars
    PROVE  IInv'
BY DEF vars, IInv, TypeOK, ReadsBack, Running, Live

\* The invariant holds always.
THEOREM Invariance == Spec => []IInv
<1>1. IInv /\ [Next]_vars => IInv'
  BY NextIInv, StutterIInv
<1> QED BY InitIInv, <1>1, PTL DEF Spec

\* Sizes, block numbers, pointers, positions, map and counter are in their ranges
\* for any number of files, pointers and blocks, until the kernel leaves the disk.
THEOREM TypeCorrect == Spec => []TypeOK
<1>1. IInv => TypeOK
  BY DEF IInv
<1> QED BY Invariance, <1>1, PTL

\* What is appended to a file is read back word for word, through all levels of its
\* pointers, whatever became of other files and however they were written.
THEOREM FilesReadBack == Spec => []ReadsBack
<1>1. IInv => ReadsBack
  BY DEF IInv
<1> QED BY Invariance, <1>1, PTL

\* With a good disk the map agrees with the files.
LEMMA MapFollows ==
    ASSUME IInv
    PROVE  MapAgrees
<1> SUFFICES ASSUME Running
             PROVE  /\ disk.freeBlock_number = Cardinality(Blocks \ disk.index)
                    /\ UNION {Tree(f) : f \in Live} \subseteq disk.index
                    /\ removed < Direct => UNION {Tree(f) : f \in Live} = disk.index
  BY DEF MapAgrees
<1>1. PICK t : Fine(disk, t, position, removed)
  BY RunningHas DEF Stands
<1>2. Sane(disk) /\ Sound(disk, t) /\ disk \in Disks
  BY <1>1 DEF Fine, Good, Sane
<1>3. disk.freeBlock_number = Cardinality(Blocks \ disk.index)
  BY <1>2 DEF Sane
<1>4. ASSUME NEW f \in Live PROVE Tree(f) = Held(t, f)
  BY <1>2, TreeLemma DEF Live
<1>5. ASSUME NEW f \in Live PROVE Held(t, f) \subseteq disk.index
  BY <1>2 DEF Held, Sound, Live
<1>6. UNION {Tree(f) : f \in Live} \subseteq disk.index
  BY <1>4, <1>5
<1>7. ASSUME removed < Direct, NEW b \in disk.index
      PROVE  \E f \in Live : b \in Tree(f)
  <2>1. Lost(disk, t) = {}
    BY <1>1, <1>7 DEF Fine
  <2>2. PICK f \in Files, p \in Places : t[f][p] = b
    BY <1>7, <2>1 DEF Lost
  <2>3. b # NULL
    BY <1>2, <1>7, BlocksFinite DEF Disks
  <2>4. f \in Live
    BY <1>2, <2>2, <2>3 DEF Sound, Live
  <2>5. b \in Held(t, f)
    BY <2>2, <2>3 DEF Held
  <2> QED BY <1>4, <2>4, <2>5
<1> QED BY <1>3, <1>6, <1>7

\* The map and its counter agree with the files, and a file with direct blocks only
\* gives back every block it had.
THEOREM MapRight == Spec => []MapAgrees
<1>1. IInv => MapAgrees
  BY MapFollows
<1> QED BY Invariance, <1>1, PTL

\* What FaultsAtEdges says of a file.
EdgeAt(f) ==
    LET old == disk.inode[f]
        new == disk'.inode[f]
        row == new.block_number - SingleEnd
    IN  \/ ~orderly'[f]
        \/ old.operation /\ ~new.operation /\ old.size \in {Direct * Words, SingleEnd * Words}
        \/ new.block_number * Words = max_file_size
        \/ row > 0 /\ row % Words = 0 /\ disk'.freeBlock_number = Largest

\* It says that one of these is there.
LEMMA EdgeIs ==
    ASSUME NEW f, Edge(f)
    PROVE  EdgeAt(f)
BY Zenon DEF Edge, EdgeAt

\* Every step of the system that faults does so there.
LEMMA NextEdges ==
    ASSUME IInv, Next
    PROVE  disk'.fault # "" => \E f \in Files : EdgeAt(f)
<1>1. disk'.fault # "" => \E f \in Files : Edge(f)
  BY NextIInv
<1>2. ASSUME NEW f \in Files, Edge(f) PROVE EdgeAt(f)
  BY <1>2, EdgeIs
<1> QED BY <1>1, <1>2

\* The kernel comes to a wild pointer only where FaultsAtEdges says.
THEOREM FaultsOnlyAtEdges == Spec => FaultsAtEdges
<1>1. IInv /\ [Next]_vars => [disk'.fault # "" => \E f \in Files : EdgeAt(f)]_vars
  BY NextEdges
<1> QED BY Invariance, <1>1, PTL DEF Spec, FaultsAtEdges, EdgeAt
=============================================================================
