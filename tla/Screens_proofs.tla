--------------------------- MODULE Screens_proofs ---------------------------
(***************************************************************************)
(* Proofs about Screens, for words, windows and maps of any size.           *)
(*                                                                         *)
(* What a fold over a sequence computes is taken, from the definition of    *)
(* the library, one element at a time (FoldLemma): the sums of Sums and the *)
(* reading of digits grow that way.  So the digits that toString writes     *)
(* read as the number it was given.  The walk over the map is then at the   *)
(* end of a region, and rows and sum are those of the regions so far        *)
(* (MemInv); the terminal is behind the characters written, and its buffer  *)
(* is the picture of them (TermInv).  Every induction is by a least         *)
(* counterexample.                                                         *)
(***************************************************************************)
EXTENDS Screens, WellFoundedInduction, SequenceTheorems, TLAPS

-----------------------------------------------------------------------------
(* Folds.                                                                  *)

\* A set of numbers that is not empty has a least element.
LEMMA Least ==
    ASSUME NEW S \in SUBSET Nat, S # {}
    PROVE  \E n \in S : \A m \in S : n <= m
<1>1. PICK n \in S : \A m \in S : <<m, n>> \notin OpToRel(<, Nat)
  BY WFMin, NatLessThanWellFounded
<1>2. \A m \in S : ~(m < n)
  BY <1>1, Zenon DEF OpToRel
<1> QED BY <1>2

\* The greatest element of a set of numbers up to n is n, if it is in there.
LEMMA MaxIs ==
    ASSUME NEW n \in Nat, NEW S \in SUBSET (1 .. n), n \in S
    PROVE  Max(S) = n
<1>1. \A x \in S : n >= x
  OBVIOUS
<1>2. Max(S) \in S /\ \A x \in S : Max(S) >= x
  BY <1>1 DEF Max
<1>3. Max(S) \in 1 .. n /\ Max(S) >= n /\ n >= Max(S)
  BY <1>1, <1>2
<1> HIDE DEF Max
<1> QED BY <1>3

\* The two folds of Sums and MemMap: the sum for x = 0, Value in base x otherwise.
Combine(v, d, x) == IF x = 0 THEN v + d ELSE v * x + d

\* What FoldLeft iterates, on the sets of places in a sequence.
FoldStep(it, s, x, S) == IF S = {} THEN 0 ELSE Combine(it[S \ {Max(S)}], s[Max(S)], x)
Iterates(it, s, x, n) == it = [S \in SUBSET (1 .. n) |-> FoldStep(it, s, x, S)]

\* There is such an iteration.
LEMMA FoldExists ==
    ASSUME NEW s, NEW x, NEW n \in Nat
    PROVE  \E it : Iterates(it, s, x, n)
<1> DEFINE Bad == {m \in Nat : ~ \E it : Iterates(it, s, x, m)}
<1> SUFFICES ASSUME Bad # {} PROVE FALSE
  OBVIOUS
<1>1. PICK m \in Bad : \A k \in Bad : m <= k
  <2> Bad \in SUBSET Nat
    OBVIOUS
  <2> HIDE DEF Bad
  <2> QED BY Least
<1>2. CASE m = 0
  <2>1. SUBSET (1 .. 0) = {{}}
    OBVIOUS
  <2>2. Iterates([S \in SUBSET (1 .. 0) |-> 0], s, x, 0)
    BY <2>1 DEF Iterates, FoldStep
  <2> QED BY <1>1, <1>2, <2>2
<1>3. CASE m # 0
  <2>1. m \in Nat /\ m - 1 \in Nat /\ m - 1 \notin Bad
    BY <1>1, <1>3
  <2>2. PICK f : Iterates(f, s, x, m - 1)
    BY <2>1
  <2> DEFINE g == [S \in SUBSET (1 .. m) |->
                     IF m \in S THEN Combine(f[S \ {m}], s[m], x) ELSE f[S]]
  <2>3. ASSUME NEW S \in SUBSET (1 .. m) PROVE g[S] = FoldStep(g, s, x, S)
    <3>1. CASE m \in S
      <4>1. Max(S) = m /\ S # {}
        BY <2>1, <3>1, MaxIs
      <4>2. S \ {m} \in SUBSET (1 .. m) /\ m \notin S \ {m}
        OBVIOUS
      <4>3. g[S \ {m}] = f[S \ {m}] /\ g[S] = Combine(f[S \ {m}], s[m], x)
        BY <3>1, <4>2
      <4> QED BY <4>1, <4>3 DEF FoldStep
    <3>2. CASE m \notin S
      <4>1. S \in SUBSET (1 .. m - 1) /\ g[S] = f[S]
        BY <2>1, <3>2
      <4>2. f[S] = FoldStep(f, s, x, S)
        BY <2>2, <4>1 DEF Iterates
      <4>3. S # {} => g[S \ {Max(S)}] = f[S \ {Max(S)}]
        BY <3>2
      <4> QED BY <4>1, <4>2, <4>3 DEF FoldStep
    <3> QED BY <3>1, <3>2
  <2>4. Iterates(g, s, x, m)
    BY <2>3 DEF Iterates
  <2> QED BY <1>1, <2>4
<1> QED BY <1>2, <1>3

\* The fold with SumOf's step, or Value's.
FoldOf(s, x) == IF x = 0 THEN SumOf(s) ELSE Value(s, x)

\* It is what the iteration has for the whole sequence.
LEMMA FoldIs ==
    ASSUME NEW n \in Nat, NEW s, DOMAIN s = 1 .. n, NEW x
    PROVE  \E it : Iterates(it, s, x, n) /\ FoldOf(s, x) = it[1 .. n]
<1> DEFINE it == CHOOSE it : Iterates(it, s, x, n)
<1>1. Iterates(it, s, x, n)
  BY FoldExists
<1>2. FoldOf(s, x) = it[1 .. n]
  <2>1. CASE x = 0
    BY <2>1 DEF FoldOf, SumOf, FoldLeft, MapThenFoldSet, Iterates, FoldStep, Combine
  <2>2. CASE x # 0
    BY <2>2 DEF FoldOf, Value, FoldLeft, MapThenFoldSet, Iterates, FoldStep, Combine
  <2> QED BY <2>1, <2>2
<1> QED BY <1>1, <1>2

\* Two iterations agree on the sequences' common part.
LEMMA FoldsAgree ==
    ASSUME NEW m \in Nat, NEW n \in Nat, NEW s, NEW t, NEW x, NEW f, NEW g,
           Iterates(f, s, x, m), Iterates(g, t, x, n), NEW l \in Nat, l <= m, l <= n,
           \A i \in 1 .. l : s[i] = t[i]
    PROVE  \A k \in 0 .. l : f[1 .. k] = g[1 .. k]
<1> DEFINE Bad == {k \in 0 .. l : f[1 .. k] # g[1 .. k]}
<1> SUFFICES ASSUME Bad # {} PROVE FALSE
  OBVIOUS
<1>1. PICK k \in Bad : \A j \in Bad : k <= j
  <2> Bad \in SUBSET Nat
    OBVIOUS
  <2> HIDE DEF Bad
  <2> QED BY Least
<1>2. k \in 0 .. l /\ 1 .. k \in SUBSET (1 .. m) /\ 1 .. k \in SUBSET (1 .. n)
  BY <1>1
<1>3. f[1 .. k] = FoldStep(f, s, x, 1 .. k) /\ g[1 .. k] = FoldStep(g, t, x, 1 .. k)
  BY <1>2 DEF Iterates
<1>4. CASE k = 0
  <2>1. 1 .. k = {}
    BY <1>4
  <2> QED BY <1>1, <1>3, <2>1 DEF FoldStep
<1>5. CASE k # 0
  <2>1. /\ Max(1 .. k) = k /\ (1 .. k) \ {k} = 1 .. k - 1 /\ 1 .. k # {} /\ k \in 1 .. l
        /\ k - 1 \in 0 .. l /\ k - 1 \notin Bad
    <3>1. k \in Nat /\ k \in 1 .. k /\ k \in 1 .. l /\ k - 1 \in 0 .. l
      BY <1>2, <1>5
    <3>2. Max(1 .. k) = k
      BY <3>1, MaxIs
    <3>3. k - 1 \notin Bad
      <4> HIDE DEF Bad
      <4> QED BY <1>1, <3>1
    <3>4. (1 .. k) \ {k} = 1 .. k - 1 /\ 1 .. k # {}
      BY <3>1
    <3> QED BY <3>1, <3>2, <3>3, <3>4
  <2>2. f[1 .. k - 1] = g[1 .. k - 1] /\ s[k] = t[k]
    BY <2>1
  <2> QED BY <1>1, <1>3, <2>1, <2>2 DEF FoldStep
<1> QED BY <1>4, <1>5

\* The fold of nothing is 0; a last number is added, after a multiplication with the base.
LEMMA FoldLemma ==
    ASSUME NEW n \in Nat, NEW s, DOMAIN s = 1 .. n, NEW x
    PROVE  /\ n = 0 => FoldOf(s, x) = 0
           /\ n > 0 => \A t : DOMAIN t = 1 .. n - 1 /\ (\A i \in 1 .. n - 1 : t[i] = s[i])
                             => FoldOf(s, x) = Combine(FoldOf(t, x), s[n], x)
<1>1. PICK f : Iterates(f, s, x, n) /\ FoldOf(s, x) = f[1 .. n]
  BY FoldIs
<1>2. FoldOf(s, x) = FoldStep(f, s, x, 1 .. n)
  BY <1>1 DEF Iterates
<1>3. ASSUME n = 0 PROVE FoldOf(s, x) = 0
  <2>1. 1 .. n = {}
    BY <1>3
  <2> QED BY <1>2, <2>1 DEF FoldStep
<1>4. ASSUME n > 0, NEW t, DOMAIN t = 1 .. n - 1, \A i \in 1 .. n - 1 : t[i] = s[i]
      PROVE  FoldOf(s, x) = Combine(FoldOf(t, x), s[n], x)
  <2>1. n - 1 \in Nat /\ n - 1 <= n
    BY <1>4
  <2>2. PICK g : Iterates(g, t, x, n - 1) /\ FoldOf(t, x) = g[1 .. n - 1]
    BY <1>4, <2>1, FoldIs
  <2>3. g[1 .. n - 1] = f[1 .. n - 1]
    BY <1>1, <1>4, <2>1, <2>2, FoldsAgree
  <2>4. Max(1 .. n) = n /\ (1 .. n) \ {n} = 1 .. n - 1 /\ 1 .. n # {}
    <3>1. n \in 1 .. n
      BY <1>4
    <3> QED BY <3>1, MaxIs
  <2> QED BY <1>2, <2>2, <2>3, <2>4 DEF FoldStep
<1> QED BY <1>3, <1>4

\* The sum of nothing is 0; a last number is added.
LEMMA SumLemma ==
    ASSUME NEW n \in Nat, NEW s, DOMAIN s = 1 .. n
    PROVE  /\ n = 0 => SumOf(s) = 0
           /\ \A t : DOMAIN t = 1 .. n + 1 /\ (\A i \in 1 .. n : s[i] = t[i])
                  => SumOf(t) = SumOf(s) + t[n + 1]
<1>1. \A t : FoldOf(t, 0) = SumOf(t) /\ \A v, d : Combine(v, d, 0) = v + d
  BY DEF FoldOf, Combine
<1>2. n = 0 => SumOf(s) = 0
  BY <1>1, FoldLemma
<1>3. ASSUME NEW t, DOMAIN t = 1 .. n + 1, \A i \in 1 .. n : s[i] = t[i]
      PROVE  SumOf(t) = SumOf(s) + t[n + 1]
  <2>1. n + 1 \in Nat /\ n + 1 > 0 /\ n + 1 - 1 = n
    OBVIOUS
  <2>2. FoldOf(t, 0) = Combine(FoldOf(s, 0), t[n + 1], 0)
    BY <1>3, <2>1, FoldLemma
  <2> QED BY <1>1, <2>2
<1> QED BY <1>2, <1>3

\* Nothing reads as 0; a last digit is added to the others, which move up one place.
LEMMA ValueLemma ==
    ASSUME NEW n \in Nat, NEW s, DOMAIN s = 1 .. n, NEW x, x # 0
    PROVE  /\ n = 0 => Value(s, x) = 0
           /\ \A t : DOMAIN t = 1 .. n + 1 /\ (\A i \in 1 .. n : s[i] = t[i])
                  => Value(t, x) = Value(s, x) * x + t[n + 1]
<1>1. \A t : FoldOf(t, x) = Value(t, x) /\ \A v, d : Combine(v, d, x) = v * x + d
  BY DEF FoldOf, Combine
<1>2. n = 0 => Value(s, x) = 0
  BY <1>1, FoldLemma
<1>3. ASSUME NEW t, DOMAIN t = 1 .. n + 1, \A i \in 1 .. n : s[i] = t[i]
      PROVE  Value(t, x) = Value(s, x) * x + t[n + 1]
  <2>1. n + 1 \in Nat /\ n + 1 > 0 /\ n + 1 - 1 = n
    OBVIOUS
  <2>2. FoldOf(t, x) = Combine(FoldOf(s, x), t[n + 1], x)
    BY <1>3, <2>1, FoldLemma
  <2> QED BY <1>1, <2>2
<1> QED BY <1>2, <1>3

-----------------------------------------------------------------------------
(* toString.                                                               *)

\* f is the digits of all numbers up to n.
Digits(f, unit, n) ==
    f = [num \in 0 .. n |->
            IF num = 0 THEN <<>> ELSE <<num % unit>> \o f[num \div unit]]

\* A number shrinks by a digit.
LEMMA DigitFacts ==
    ASSUME NEW n \in Nat, NEW unit \in {10, 16}
    PROVE  /\ n % unit \in Nat /\ n \div unit \in Nat
           /\ n = (n \div unit) * unit + (n % unit)
           /\ n # 0 => n \div unit < n
  OBVIOUS

\* The digits of a number are its last one before those of the rest.
LEMMA RevLemma ==
    ASSUME NEW unit \in {10, 16}
    PROVE  \A num \in 0 .. Word - 1 :
              revstr(unit)[num] = IF num = 0 THEN <<>>
                                   ELSE <<num % unit>> \o revstr(unit)[num \div unit]
<1> DEFINE Bad == {n \in Nat : ~ \E f : Digits(f, unit, n)}
<1>1. Bad = {}
  <2> SUFFICES ASSUME Bad # {} PROVE FALSE
    OBVIOUS
  <2>1. PICK n \in Bad : \A m \in Bad : n <= m
    <3> Bad \in SUBSET Nat
      OBVIOUS
    <3> HIDE DEF Bad
    <3> QED BY Least
  <2>2. CASE n = 0
    <3>1. Digits([num \in 0 .. 0 |-> <<>>], unit, 0)
      BY DEF Digits
    <3> QED BY <2>1, <2>2, <3>1
  <2>3. CASE n # 0
    <3>1. n \in Nat /\ n - 1 \in Nat /\ n - 1 \notin Bad
      <4>1. n - 1 \notin Bad
        <5>1. n \in Nat
          BY <2>1
        <5> HIDE DEF Bad
        <5> QED BY <2>1, <2>3, <5>1
      <4> QED BY <2>1, <2>3, <4>1
    <3>2. PICK f : Digits(f, unit, n - 1)
      BY <3>1
    <3> DEFINE last == <<n % unit>> \o f[n \div unit]
               g == [num \in 0 .. n |-> IF num < n THEN f[num] ELSE last]
    <3>3. \A num \in 0 .. n : num # 0 => num \div unit \in 0 .. n - 1 /\ num \div unit < num
      <4> SUFFICES ASSUME NEW num \in 0 .. n, num # 0
                   PROVE  num \div unit \in 0 .. n - 1 /\ num \div unit < num
        OBVIOUS
      <4> QED BY <3>1, DigitFacts
    <3> HIDE DEF last
    <3>4. ASSUME NEW num \in 0 .. n
          PROVE  g[num] = IF num = 0 THEN <<>> ELSE <<num % unit>> \o g[num \div unit]
      <4>1. CASE num < n
        <5>1. num \in 0 .. n - 1 /\ g[num] = f[num]
          BY <3>1, <4>1
        <5>2. f[num] = IF num = 0 THEN <<>> ELSE <<num % unit>> \o f[num \div unit]
          BY <3>2, <5>1 DEF Digits
        <5>3. num # 0 => g[num \div unit] = f[num \div unit]
          <6> SUFFICES ASSUME num # 0 PROVE g[num \div unit] = f[num \div unit]
            OBVIOUS
          <6> HIDE DEF g
          <6>1. \A d \in 0 .. n - 1 : g[d] = f[d]
            BY <3>1 DEF g
          <6> QED BY <3>3, <6>1
        <5> HIDE DEF g
        <5> QED BY <5>1, <5>2, <5>3
      <4>2. CASE num = n
        <5>1. g[n] = last
          BY <3>1
        <5>2. g[n \div unit] = f[n \div unit]
          <6>1. \A d \in 0 .. n - 1 : g[d] = f[d]
            BY <3>1
          <6> HIDE DEF g
          <6> QED BY <2>3, <3>1, <3>3, <6>1
        <5> HIDE DEF g
        <5> QED BY <2>3, <4>2, <5>1, <5>2 DEF last
      <4> QED BY <3>1, <4>1, <4>2
    <3>5. Digits(g, unit, n)
      BY <3>4 DEF Digits
    <3> QED BY <2>1, <3>5
  <2> QED BY <2>2, <2>3
<1>2. Word - 1 \in Nat
  BY MemMapAssumption
<1>3. revstr(unit) = CHOOSE f : Digits(f, unit, Word - 1)
  BY DEF revstr, Digits
<1>4. Digits(revstr(unit), unit, Word - 1)
  BY <1>1, <1>2, <1>3
<1> QED BY <1>4 DEF Digits

\* Reverse puts the first element last.
LEMMA ReverseLemma ==
    ASSUME NEW s \in Seq(Nat), NEW d \in Nat
    PROVE  /\ Reverse(s) \in Seq(Nat) /\ Len(Reverse(s)) = Len(s)
           /\ Len(Reverse(<<d>> \o s)) = Len(s) + 1
           /\ Reverse(<<d>> \o s)[Len(s) + 1] = d
           /\ \A i \in 1 .. Len(s) : Reverse(<<d>> \o s)[i] = Reverse(s)[i]
<1> DEFINE t == <<d>> \o s
<1>1. /\ t \in Seq(Nat) /\ Len(t) = Len(s) + 1 /\ t[1] = d
      /\ \A i \in 1 .. Len(s) : t[i + 1] = s[i]
  OBVIOUS
<1> HIDE DEF t
<1>2. /\ Reverse(s) \in Seq(Nat) /\ Len(Reverse(s)) = Len(s)
      /\ \A i \in 1 .. Len(s) : Reverse(s)[i] = s[Len(s) - i + 1]
  BY DEF Reverse
<1>3. /\ Len(Reverse(t)) = Len(t)
      /\ \A i \in 1 .. Len(t) : Reverse(t)[i] = t[Len(t) - i + 1]
  BY <1>1 DEF Reverse
<1>4. Reverse(t)[Len(s) + 1] = d
  BY <1>1, <1>3
<1>5. ASSUME NEW i \in 1 .. Len(s) PROVE Reverse(t)[i] = Reverse(s)[i]
  <2> DEFINE j == Len(s) - i + 1
  <2>1. j \in 1 .. Len(s) /\ Len(t) - i + 1 = j + 1 /\ i \in 1 .. Len(t)
    BY <1>1
  <2> HIDE DEF j
  <2>2. Reverse(t)[i] = t[j + 1] /\ t[j + 1] = s[j]
    BY <1>1, <1>3, <2>1
  <2>3. Reverse(s)[i] = s[j]
    BY <1>2 DEF j
  <2> QED BY <2>2, <2>3
<1> QED BY <1>1, <1>2, <1>3, <1>4, <1>5 DEF t

\* Nothing reads as 0.
LEMMA NothingRead ==
    ASSUME NEW s, DOMAIN s = {}, NEW x, x # 0
    PROVE  Value(s, x) = 0
<1>1. PICK n \in Nat : n = 0
  OBVIOUS
<1>2. 1 .. n = {}
  BY <1>1
<1>3. DOMAIN s = 1 .. n
  BY <1>2
<1>4. n = 0 => Value(s, x) = 0
  BY <1>3, ValueLemma, Zenon
<1> QED BY <1>1, <1>4

\* Digits read as what they were made of.
LEMMA DigitsRead ==
    ASSUME NEW unit \in {10, 16}
    PROVE  \A num \in 0 .. Word - 1 :
              /\ revstr(unit)[num] \in Seq(Nat)
              /\ Value(Reverse(revstr(unit)[num]), unit) = num
<1> DEFINE rev == revstr(unit)
           OK(num) == rev[num] \in Seq(Nat) /\ Value(Reverse(rev[num]), unit) = num
           Bad == {num \in 0 .. Word - 1 : ~OK(num)}
<1> SUFFICES ASSUME Bad # {} PROVE FALSE
  OBVIOUS
<1>1. Word - 1 \in Nat
  BY MemMapAssumption
<1>2. PICK num \in Bad : \A m \in Bad : num <= m
  <2> Bad \in SUBSET Nat
    BY <1>1
  <2> HIDE DEF Bad
  <2> QED BY Least
<1>3. num \in 0 .. Word - 1 /\ ~OK(num) /\ unit # 0
  BY <1>2
<1>4. rev[num] = IF num = 0 THEN <<>> ELSE <<num % unit>> \o rev[num \div unit]
  BY <1>3, RevLemma
<1> HIDE DEF rev
<1>5. CASE num = 0
  <2> DEFINE e == Reverse(<<>>)
  <2>1. rev[num] = <<>> /\ DOMAIN e = {}
    BY <1>4, <1>5 DEF Reverse
  <2> HIDE DEF e
  <2>2. Value(e, unit) = 0
    BY <1>3, <2>1, NothingRead
  <2> QED BY <1>3, <1>5, <2>1, <2>2 DEF e
<1>6. CASE num # 0
  <2> DEFINE rest == num \div unit
             d == num % unit
  <2>1. /\ rest \in 0 .. Word - 1 /\ d \in Nat /\ rest < num
        /\ num = rest * unit + d
    BY <1>1, <1>3, <1>6, DigitFacts
  <2>2. rev[num] = <<d>> \o rev[rest]
    BY <1>4, <1>6
  <2> HIDE DEF rest, d
  <2>3. OK(rest)
    <3>1. rest \notin Bad
      <4> HIDE DEF Bad
      <4> QED BY <1>1, <1>2, <1>3, <2>1
    <3> HIDE DEF OK
    <3> QED BY <2>1, <3>1
  <2> DEFINE s == rev[rest]
  <2>4. /\ s \in Seq(Nat) /\ Len(s) \in Nat
        /\ DOMAIN Reverse(s) = 1 .. Len(s)
        /\ DOMAIN Reverse(<<d>> \o s) = 1 .. Len(s) + 1
        /\ Reverse(<<d>> \o s)[Len(s) + 1] = d
        /\ \A i \in 1 .. Len(s) : Reverse(<<d>> \o s)[i] = Reverse(s)[i]
    <3>1. s \in Seq(Nat) /\ Len(s) \in Nat
      BY <2>3
    <3> HIDE DEF s
    <3>2. DOMAIN Reverse(s) = 1 .. Len(s) /\ DOMAIN Reverse(<<d>> \o s) = 1 .. Len(s) + 1
      BY <2>1, <3>1 DEF Reverse
    <3> QED BY <2>1, <3>1, <3>2, ReverseLemma
  <2>5. Value(Reverse(s), unit) = rest
    BY <2>3
  <2> HIDE DEF s
  <2>6. Value(Reverse(<<d>> \o s), unit) = Value(Reverse(s), unit) * unit + d
    <3> DEFINE r == Reverse(s)
               t == Reverse(<<d>> \o s)
               n == Len(s)
    <3>1. /\ n \in Nat /\ DOMAIN r = 1 .. n /\ DOMAIN t = 1 .. n + 1
          /\ t[n + 1] = d /\ \A i \in 1 .. n : r[i] = t[i]
      BY <2>4
    <3> HIDE DEF r, t, n
    <3>2. Value(t, unit) = Value(r, unit) * unit + t[n + 1]
      BY <1>3, <3>1, ValueLemma
    <3> QED BY <3>1, <3>2 DEF r, t
  <2>7. <<d>> \o s \in Seq(Nat)
    BY <2>1, <2>4
  <2> QED BY <1>3, <2>1, <2>2, <2>5, <2>6, <2>7 DEF s
<1> QED BY <1>5, <1>6

\* What toString writes reads as the number it was given.
LEMMA ToStringLemma ==
    ASSUME NEW unit \in {10, 16}, NEW num \in 0 .. Word - 1
    PROVE  Value(toString(num, unit), unit) = num
<1>1. CASE num = 0
  <2> DEFINE n == 0
             e == <<>>
             s == <<0>>
  <2>1. /\ n \in Nat /\ DOMAIN e = 1 .. n /\ DOMAIN s = 1 .. n + 1 /\ s[n + 1] = 0 /\ unit # 0
        /\ \A i \in 1 .. n : e[i] = s[i]
    OBVIOUS
  <2> HIDE DEF n, s, e
  <2>2. Value(e, unit) = 0
    BY <2>1, ValueLemma DEF n
  <2>3. Value(s, unit) = Value(e, unit) * unit + s[n + 1]
    BY <2>1, ValueLemma
  <2> QED BY <1>1, <2>1, <2>2, <2>3 DEF toString, s
<1>2. CASE num # 0
  BY <1>2, DigitsRead DEF toString
<1> QED BY <1>1, <1>2

-----------------------------------------------------------------------------
(* The walk over the memory map.                                           *)

\* The available bytes of the first k regions.
Bytes(k) == IF k \in Available THEN regions[k].length ELSE 0
Total(k) == SumOf([i \in 1 .. k |-> Bytes(i)])

\* What is printed of a region.
Row(region) ==
    <<toString(base_addr_low(region), 16), toString(endAddr(region), 16),
      IF region.type = 1 THEN "available" ELSE "reserved">>

\* The walk has come to the end of region k; rows and sum are those of the regions so far.
WalkInv(k) ==
    /\ mmap = Offset(k + 1)
    /\ \A i \in 1 .. k : screen[3 + i] = Row(regions[i])
    /\ ~halted =>
        /\ y = 4 + k /\ DOMAIN screen = 4 .. 3 + k
        /\ Total(k) < Word => memsz = Total(k)
    /\ halted =>
        /\ k = Len(regions) /\ y = 2 /\ DOMAIN screen = {2} \cup 4 .. 3 + k
        /\ screen[2] = <<toString(memsz, 10)>>
        /\ Total(k) < Word => memsz = Megabytes(Total(k))

MemInv ==
    /\ regions \in Seq(Region)
    /\ memsz \in 0 .. Word - 1 /\ halted \in BOOLEAN
    /\ \E k \in 0 .. Len(regions) : WalkInv(k)

\* A region's fields are numbers, its low words fit a word.
LEMMA RegionFacts ==
    ASSUME NEW region \in Region
    PROVE  /\ region.size \in Nat /\ region.size > 0
           /\ region.base \in Nat /\ region.length \in Nat
           /\ base_addr_low(region) \in 0 .. Word - 1 /\ length_low(region) \in 0 .. Word - 1
           /\ endAddr(region) \in 0 .. Word - 1
<1>1. /\ Word \in Nat /\ Word > 0
      /\ \A n \in Bases \cup Lengths : n \in Nat
      /\ \A n \in Sizes : n \in Nat /\ n > 0
  BY MemMapAssumption
<1>2. region.size \in Sizes /\ region.base \in Bases /\ region.length \in Lengths
  BY DEF Region
<1>3. \A n \in Nat : n % Word \in 0 .. Word - 1
  BY <1>1
<1> QED BY <1>1, <1>2, <1>3 DEF base_addr_low, length_low, endAddr

\* A number below a word is its own low word.
LEMMA LowWord ==
    ASSUME NEW n \in Nat, n < Word
    PROVE  n % Word = n
  BY MemMapAssumption

\* The regions lie one behind the other.
LEMMA OffsetLemma ==
    ASSUME regions \in Seq(Region)
    PROVE  /\ Offset(1) = 0
           /\ \A k \in 1 .. Len(regions) : Offset(k + 1) = Offset(k) + (regions[k].size + 4)
<1>1. Offset(1) = 0
  <2> DEFINE n == 0
             s == [i \in 1 .. 1 - 1 |-> regions[i].size + 4]
  <2>1. n \in Nat /\ DOMAIN s = 1 .. n
    OBVIOUS
  <2> HIDE DEF s
  <2>2. SumOf(s) = 0
    BY <2>1, SumLemma
  <2> QED BY <2>2 DEF Offset, s
<1>2. ASSUME NEW k \in 1 .. Len(regions)
      PROVE  Offset(k + 1) = Offset(k) + (regions[k].size + 4)
  <2> DEFINE n == k - 1
             s == [i \in 1 .. k - 1 |-> regions[i].size + 4]
             t == [i \in 1 .. k + 1 - 1 |-> regions[i].size + 4]
  <2>1. /\ n \in Nat /\ DOMAIN s = 1 .. n /\ DOMAIN t = 1 .. n + 1 /\ n + 1 = k
        /\ t[k] = regions[k].size + 4 /\ \A i \in 1 .. n : s[i] = t[i]
    OBVIOUS
  <2> HIDE DEF n, s, t
  <2>2. SumOf(t) = SumOf(s) + t[n + 1]
    BY <2>1, SumLemma
  <2> QED BY <2>1, <2>2 DEF Offset, s, t
<1> QED BY <1>1, <1>2

\* No two begin at one address.
LEMMA OffsetsApart ==
    ASSUME regions \in Seq(Region)
    PROVE  \A j \in 1 .. Len(regions) + 1 :
              /\ Offset(j) \in Nat
              /\ \A i \in 1 .. j - 1 : Offset(i) < Offset(j)
<1> DEFINE OK(j) == /\ Offset(j) \in Nat
                    /\ \A i \in 1 .. j - 1 : Offset(i) < Offset(j)
           Bad == {j \in 1 .. Len(regions) + 1 : ~OK(j)}
<1> SUFFICES ASSUME Bad # {} PROVE FALSE
  OBVIOUS
<1>1. Len(regions) \in Nat /\ \A k \in 1 .. Len(regions) : regions[k] \in Region
  OBVIOUS
<1>2. PICK j \in Bad : \A m \in Bad : j <= m
  <2> Bad \in SUBSET Nat
    BY <1>1
  <2> HIDE DEF Bad
  <2> QED BY Least
<1>3. j \in 1 .. Len(regions) + 1 /\ ~OK(j)
  BY <1>2
<1>4. CASE j = 1
  BY <1>3, <1>4, OffsetLemma
<1>5. CASE j # 1
  <2> DEFINE k == j - 1
  <2>1. k \in 1 .. Len(regions) /\ k \in 1 .. Len(regions) + 1 /\ k < j /\ j = k + 1
    BY <1>1, <1>3, <1>5
  <2> HIDE DEF k
  <2>2. OK(k)
    <3>1. k \notin Bad
      <4> HIDE DEF Bad
      <4> QED BY <1>1, <1>2, <1>3, <2>1
    <3> HIDE DEF OK
    <3> QED BY <2>1, <3>1
  <2>3. Offset(j) = Offset(k) + (regions[k].size + 4)
    BY <2>1, OffsetLemma
  <2>4. regions[k].size \in Nat
    BY <1>1, <2>1, RegionFacts
  <2>5. Offset(k) \in Nat /\ Offset(j) \in Nat /\ Offset(k) < Offset(j)
    <3>1. Offset(k) \in Nat
      BY <2>2
    <3>2. \A a, size \in Nat : a + (size + 4) \in Nat /\ a < a + (size + 4)
      OBVIOUS
    <3>3. Offset(k) + (regions[k].size + 4) \in Nat
          /\ Offset(k) < Offset(k) + (regions[k].size + 4)
      BY <2>4, <3>1, <3>2, Zenon
    <3> QED BY <2>3, <3>1, <3>3, Zenon
  <2>6. \A i \in 1 .. j - 1 : i = k \/ i \in 1 .. k - 1
    BY <1>1, <2>1
  <2>7. ASSUME NEW i \in 1 .. j - 1 PROVE Offset(i) < Offset(j)
    <3>1. CASE i = k
      BY <2>5, <3>1
    <3>2. CASE i \in 1 .. k - 1
      <4>1. Offset(i) < Offset(k)
        BY <2>2, <3>2
      <4>2. Offset(i) \in Nat
        <5>1. i \in 1 .. Len(regions) + 1 /\ i < j
          BY <1>1, <2>1, <3>2
        <5>2. i \notin Bad
          <6> HIDE DEF Bad
          <6> QED BY <1>1, <1>2, <1>3, <5>1
        <5> QED BY <5>1, <5>2
      <4> QED BY <2>5, <4>1, <4>2
    <3> QED BY <2>6, <3>1, <3>2
  <2> QED BY <1>3, <2>5, <2>7
<1> QED BY <1>4, <1>5

\* So what the walk finds behind k regions is the next, and there is one before the end.
LEMMA NextRegionLemma ==
    ASSUME regions \in Seq(Region), NEW k \in 0 .. Len(regions), mmap = Offset(k + 1)
    PROVE  /\ (mmap < mmap_length) <=> (k < Len(regions))
           /\ (k < Len(regions)) => (/\ RegionAt(mmap) = regions[k + 1]
                                     /\ NextRegion(regions[k + 1]) = Offset(k + 2))
<1> DEFINE n == Len(regions)
<1>1. /\ n \in Nat /\ k \in 0 .. n /\ k + 1 \in 1 .. n + 1 /\ n + 1 \in 1 .. n + 1
      /\ DOMAIN regions = 1 .. n
  OBVIOUS
<1>2. \A i \in 1 .. n : regions[i].size \in Nat
  <2> SUFFICES ASSUME NEW i \in 1 .. n PROVE regions[i].size \in Nat
    OBVIOUS
  <2>1. regions[i] \in Region
    OBVIOUS
  <2> QED BY <2>1, RegionFacts
<1>3. /\ \A i \in 1 .. n + 1 : Offset(i) \in Nat
      /\ \A i, j \in 1 .. n + 1 : (i < j) => (Offset(i) < Offset(j))
      /\ \A i, j \in 1 .. n + 1 : (Offset(i) = Offset(j)) => (i = j)
  <2>1. \A j \in 1 .. n + 1 : Offset(j) \in Nat
    BY OffsetsApart
  <2>2. ASSUME NEW i \in 1 .. n + 1, NEW j \in 1 .. n + 1, i < j
        PROVE  Offset(i) < Offset(j)
    <3>1. i \in 1 .. j - 1
      BY <1>1, <2>2
    <3> QED BY <3>1, OffsetsApart
  <2> HIDE DEF n
  <2>3. ASSUME NEW i \in 1 .. n + 1, NEW j \in 1 .. n + 1, Offset(i) = Offset(j)
        PROVE  i = j
    <3>1. i < j \/ j < i \/ i = j
      BY <1>1
    <3>2. Offset(i) \in Nat /\ Offset(j) \in Nat
      BY <2>1
    <3>3. ~(Offset(i) < Offset(j)) /\ ~(Offset(j) < Offset(i))
      BY <2>3, <3>2
    <3> QED BY <2>2, <3>1, <3>3
  <2> QED BY <2>1, <2>2, <2>3
<1>4. /\ mmap = Offset(k + 1) /\ mmap_length = Offset(n + 1)
      /\ \A i \in 1 .. n : Offset(i + 1) = Offset(i) + (regions[i].size + 4)
  BY OffsetLemma DEF mmap_length
<1> HIDE DEF n
<1>5. CASE k = n
  <2>1. mmap = mmap_length /\ mmap \in Nat
    BY <1>1, <1>3, <1>4, <1>5
  <2> QED BY <1>1, <1>5, <2>1 DEF n
<1>6. CASE k # n
  <2>1. k < n /\ k + 1 < n + 1 /\ k + 1 \in 1 .. n
    BY <1>1, <1>6
  <2>2. mmap < mmap_length
    BY <1>1, <1>3, <1>4, <2>1
  <2>3. RegionAt(mmap) = regions[k + 1]
    <3>1. \A i \in 1 .. n : (Offset(i) = mmap) <=> (i = k + 1)
      <4>1. \A i \in 1 .. n : i \in 1 .. n + 1
        BY <1>1
      <4> QED BY <1>1, <1>3, <1>4, <4>1
    <3>2. (CHOOSE i \in DOMAIN regions : Offset(i) = mmap) = k + 1
      BY <1>1, <2>1, <3>1
    <3> QED BY <1>1, <2>1, <3>1, <3>2 DEF RegionAt
  <2>4. NextRegion(regions[k + 1]) = Offset(k + 2)
    <3>1. Offset(k + 1 + 1) = Offset(k + 1) + (regions[k + 1].size + 4)
      BY <1>4, <2>1
    <3>2. regions[k + 1].size \in Nat /\ Offset(k + 1) \in Nat /\ k + 1 + 1 = k + 2
      BY <1>2, <1>1, <1>3, <2>1
    <3> QED BY <1>4, <3>1, <3>2 DEF NextRegion
  <2> QED BY <2>1, <2>2, <2>3, <2>4 DEF n
<1> QED BY <1>5, <1>6

\* The sums of the available bytes: they grow by a region's length, if it is available.
LEMMA TotalLemma ==
    ASSUME regions \in Seq(Region)
    PROVE  /\ Total(0) = 0
           /\ \A k \in 1 .. Len(regions) : Total(k) = Total(k - 1) + Bytes(k)
<1>1. Total(0) = 0
  <2> DEFINE n == 0
             s == [i \in 1 .. 0 |-> Bytes(i)]
  <2>1. n \in Nat /\ DOMAIN s = 1 .. n
    OBVIOUS
  <2> HIDE DEF s
  <2>2. SumOf(s) = 0
    BY <2>1, SumLemma
  <2> QED BY <2>2 DEF Total, s
<1>2. ASSUME NEW k \in 1 .. Len(regions)
      PROVE  Total(k) = Total(k - 1) + Bytes(k)
  <2> DEFINE n == k - 1
             s == [i \in 1 .. k - 1 |-> Bytes(i)]
             t == [i \in 1 .. k |-> Bytes(i)]
  <2>1. /\ n \in Nat /\ DOMAIN s = 1 .. n /\ DOMAIN t = 1 .. n + 1 /\ n + 1 = k
        /\ t[k] = Bytes(k) /\ \A i \in 1 .. n : s[i] = t[i]
    OBVIOUS
  <2> HIDE DEF n, s, t
  <2>2. SumOf(t) = SumOf(s) + t[n + 1]
    BY <2>1, SumLemma
  <2> QED BY <2>1, <2>2 DEF Total, s, t
<1> QED BY <1>1, <1>2

\* They are numbers.
LEMMA TotalNat ==
    ASSUME regions \in Seq(Region)
    PROVE  \A k \in 0 .. Len(regions) : Total(k) \in Nat
<1> DEFINE Bad == {k \in 0 .. Len(regions) : Total(k) \notin Nat}
<1> SUFFICES ASSUME Bad # {} PROVE FALSE
  OBVIOUS
<1>1. Len(regions) \in Nat /\ \A k \in 1 .. Len(regions) : regions[k] \in Region
  OBVIOUS
<1>2. PICK j \in Bad : \A m \in Bad : j <= m
  <2> Bad \in SUBSET Nat
    BY <1>1
  <2> HIDE DEF Bad
  <2> QED BY Least
<1>3. j \in 0 .. Len(regions) /\ Total(j) \notin Nat
  BY <1>2
<1>4. j \in 1 .. Len(regions)
  BY <1>1, <1>3, TotalLemma
<1>5. Total(j) = Total(j - 1) + Bytes(j)
  BY <1>4, TotalLemma
<1>6. Bytes(j) \in Nat
  BY <1>1, <1>4, RegionFacts DEF Bytes
<1>7. Total(j - 1) \in Nat
  <2>1. j - 1 \in 0 .. Len(regions) /\ ~(j <= j - 1)
    BY <1>1, <1>4
  <2>2. j - 1 \notin Bad
    <3> HIDE DEF Bad
    <3> QED BY <1>2, <2>1
  <2> QED BY <2>1, <2>2
<1> QED BY <1>3, <1>5, <1>6, <1>7

\* Megabytes of less than a word is a number of a word.
LEMMA MegabytesLemma ==
    ASSUME NEW n \in 0 .. Word - 1
    PROVE  /\ Megabytes(n) \in 0 .. Word - 1
           /\ (Megabytes(n) - 1) * MB <= n /\ n < Megabytes(n) * MB
<1>1. /\ Word \in Nat /\ Word > 0 /\ MB \in Nat /\ MB >= 2 /\ n \in Nat /\ n < Word
      /\ Word % MB = 0
  BY MemMapAssumption
<1> DEFINE q == n \div MB
           w == Word \div MB
<1>2. /\ q \in Nat /\ n = q * MB + (n % MB) /\ (n % MB) \in 0 .. MB - 1
      /\ w \in Nat /\ Word = w * MB + (Word % MB)
  BY <1>1
<1> HIDE DEF q, w
<1>3. Word = w * MB
  BY <1>1, <1>2
<1>4. q < w
  <2>1. q * MB < w * MB
    BY <1>1, <1>2, <1>3
  <2>2. CASE q >= w
    <3>1. PICK e \in Nat : q = w + e
      <4>1. q - w \in Nat /\ q = w + (q - w)
        BY <1>2, <2>2
      <4> QED BY <4>1
    <3>2. q * MB = w * MB + e * MB /\ e * MB >= 0 /\ e * MB \in Int /\ w * MB \in Int
      BY <1>1, <1>2, <3>1
    <3> QED BY <2>1, <3>2
  <2> QED BY <1>2, <2>2
<1>5. w < Word
  <2>1. w > 0 /\ w * MB >= w * 2 /\ w * MB \in Int
    BY <1>1, <1>2, <1>4
  <2> QED BY <1>2, <1>3, <2>1
<1>6. Megabytes(n) = q + 1
  BY DEF Megabytes, q
<1>7. (q + 1) * MB = q * MB + MB /\ q * MB \in Int /\ (q + 1) - 1 = q
  BY <1>1, <1>2
<1> QED BY <1>1, <1>2, <1>4, <1>5, <1>6, <1>7

\* At first no region has been passed.
LEMMA MemInit_Inv == MemInit => MemInv
<1> SUFFICES ASSUME MemInit PROVE MemInv
  OBVIOUS
<1>1. regions \in Seq(Region)
  BY MemMapAssumption DEF MemInit
<1>2. memsz \in 0 .. Word - 1 /\ halted \in BOOLEAN
  <2>1. memsz = 0 /\ halted = FALSE
    BY DEF MemInit
  <2>2. 0 \in 0 .. Word - 1
    BY MemMapAssumption
  <2> QED BY <2>1, <2>2
<1>3. WalkInv(0) /\ 0 \in 0 .. Len(regions)
  <2>1. mmap = Offset(0 + 1)
    BY <1>1, OffsetLemma DEF MemInit
  <2>2. Total(0) = 0
    BY <1>1, TotalLemma
  <2>3. y = 4 + 0 /\ DOMAIN screen = 4 .. 3 + 0 /\ ~halted /\ memsz = 0
    BY DEF MemInit
  <2>4. 0 \in 0 .. Len(regions) /\ \A i \in 1 .. 0 : FALSE
    BY <1>1
  <2> QED BY <2>1, <2>2, <2>3, <2>4 DEF WalkInv
<1> QED BY <1>1, <1>2, <1>3 DEF MemInv

\* A step of the walk leaves the map alone, and with it its sums.
LEMMA MapKept ==
    ASSUME regions' = regions
    PROVE  \A k : /\ Offset(k)' = Offset(k) /\ Total(k)' = Total(k)
                  /\ Row(regions[k])' = Row(regions[k])
<1> SUFFICES ASSUME NEW k
             PROVE  /\ Offset(k)' = Offset(k) /\ Total(k)' = Total(k)
                    /\ Row(regions[k])' = Row(regions[k])
  OBVIOUS
<1>1. Offset(k)' = Offset(k)
  BY DEF Offset
<1>2. Total(k)' = Total(k)
  BY DEF Total, Bytes, Available
<1>3. Row(regions[k])' = Row(regions[k])
  BY DEF Row
<1> QED BY <1>1, <1>2, <1>3

\* A turn of the loop passes one region.
LEMMA PrintRegion_Inv == MemInv /\ PrintRegion => MemInv'
<1> SUFFICES ASSUME MemInv, PrintRegion PROVE MemInv'
  OBVIOUS
<1>1. /\ regions \in Seq(Region) /\ memsz \in 0 .. Word - 1
      /\ ~halted /\ mmap < mmap_length /\ y' = y + 1 /\ regions' = regions /\ halted' = halted
  BY DEF MemInv, PrintRegion
<1>2. PICK k \in 0 .. Len(regions) : WalkInv(k)
  BY DEF MemInv
<1> DEFINE n == Len(regions)
           j == k + 1
           region == regions[j]
<1>3. /\ n \in Nat /\ k \in Nat /\ DOMAIN regions = 1 .. n
      /\ mmap = Offset(k + 1) /\ y = 4 + k /\ DOMAIN screen = 4 .. 3 + k
      /\ \A i \in 1 .. k : screen[3 + i] = Row(regions[i])
      /\ (Total(k) < Word) => (memsz = Total(k))
  BY <1>1, <1>2 DEF WalkInv
<1>4. k < n /\ RegionAt(mmap) = regions[k + 1] /\ NextRegion(regions[k + 1]) = Offset(k + 2)
  BY <1>1, <1>3, NextRegionLemma
<1>5. j \in 1 .. n /\ j - 1 = k /\ j \in 0 .. n /\ region \in Region
  BY <1>1, <1>3, <1>4
<1>6. /\ memsz' = (IF region.type = 1 THEN (memsz + length_low(region)) % Word ELSE memsz)
      /\ screen' = [row \in DOMAIN screen \cup {y} |-> IF row = y THEN Row(region) ELSE screen[row]]
      /\ mmap' = Offset(j + 1)
  <2>1. j + 1 = k + 2
    BY <1>3
  <2> HIDE DEF Offset
  <2> QED BY <1>4, <2>1 DEF PrintRegion, Row
<1>7. memsz' \in 0 .. Word - 1
  <2>1. length_low(region) \in 0 .. Word - 1 /\ Word \in Nat /\ Word > 0
    BY <1>5, RegionFacts, MemMapAssumption
  <2>2. (memsz + length_low(region)) % Word \in 0 .. Word - 1
    BY <1>1, <2>1
  <2> QED BY <1>1, <1>6, <2>2
<1>8. (Total(j) < Word) => (memsz' = Total(j))
  <2> SUFFICES ASSUME Total(j) < Word PROVE memsz' = Total(j)
    OBVIOUS
  <2>1. Total(j) = Total(k) + Bytes(j)
    BY <1>1, <1>5, TotalLemma
  <2>2. Total(k) \in Nat /\ Total(j) \in Nat /\ Word \in Nat
    BY <1>1, <1>2, <1>5, TotalNat, MemMapAssumption
  <2>3. CASE region.type = 1
    <3>1. Bytes(j) = region.length /\ region.length \in Nat
      BY <1>3, <1>5, <2>3, RegionFacts DEF Bytes, Available
    <3>2. region.length < Word /\ memsz = Total(k)
      BY <1>3, <2>1, <2>2, <3>1
    <3>3. length_low(region) = region.length
      BY <3>1, <3>2, LowWord DEF length_low
    <3>4. (memsz + length_low(region)) % Word = Total(j)
      BY <2>1, <2>2, <3>1, <3>2, <3>3, LowWord
    <3> QED BY <1>6, <2>3, <3>4
  <2>4. CASE region.type # 1
    <3>1. Bytes(j) = 0
      BY <1>3, <1>5, <2>4 DEF Bytes, Available
    <3>2. Total(j) = Total(k)
      BY <2>1, <2>2, <3>1
    <3> QED BY <1>3, <1>6, <2>4, <3>2
  <2> QED BY <2>3, <2>4
<1>9. DOMAIN screen' = 4 .. 3 + j
  <2>1. 4 .. 3 + j = (4 .. 3 + k) \cup {4 + k}
    BY <1>3
  <2> QED BY <1>3, <1>6, <2>1
<1>10. \A i \in 1 .. j : screen'[3 + i] = Row(regions[i])
  <2> SUFFICES ASSUME NEW i \in 1 .. j PROVE screen'[3 + i] = Row(regions[i])
    OBVIOUS
  <2>1. CASE i = j
    <3>1. 3 + i = y
      BY <1>3, <2>1
    <3> QED BY <1>6, <2>1, <3>1
  <2>2. CASE i # j
    <3>1. i \in 1 .. k /\ 3 + i \in DOMAIN screen /\ 3 + i # y
      BY <1>3, <2>2
    <3>2. screen'[3 + i] = screen[3 + i]
      BY <1>6, <3>1
    <3> QED BY <1>3, <3>1, <3>2
  <2> QED BY <2>1, <2>2
<1>11. WalkInv(j)'
  <2>1. y' = 4 + j /\ ~halted'
    BY <1>1, <1>3
  <2>2. Offset(j + 1)' = Offset(j + 1) /\ Total(j)' = Total(j)
    BY <1>1, MapKept
  <2>3. \A i \in 1 .. j : Row(regions[i])' = Row(regions[i])
    BY <1>1, MapKept
  <2> HIDE DEF j
  <2> QED BY <1>6, <1>8, <1>9, <1>10, <2>1, <2>2, <2>3 DEF WalkInv
<1>12. regions' \in Seq(Region) /\ j \in 0 .. Len(regions')
  BY <1>1, <1>5
<1>13. halted' \in BOOLEAN
  BY <1>1 DEF MemInv
<1> HIDE DEF j
<1> QED BY <1>7, <1>11, <1>12, <1>13 DEF MemInv

\* Past the last region the size is printed.
LEMMA PrintSize_Inv == MemInv /\ PrintSize => MemInv'
<1> SUFFICES ASSUME MemInv, PrintSize PROVE MemInv'
  OBVIOUS
<1>1. /\ regions \in Seq(Region) /\ memsz \in 0 .. Word - 1
      /\ ~halted /\ mmap >= mmap_length /\ y' = 2 /\ regions' = regions /\ mmap' = mmap
      /\ halted' = TRUE /\ memsz' = Megabytes(memsz)
      /\ screen' = [row \in DOMAIN screen \cup {2} |->
             IF row = 2 THEN <<toString(Megabytes(memsz), 10)>> ELSE screen[row]]
  BY DEF MemInv, PrintSize
<1>2. PICK k \in 0 .. Len(regions) : WalkInv(k)
  BY DEF MemInv
<1>3. /\ k \in Nat
      /\ mmap = Offset(k + 1) /\ DOMAIN screen = 4 .. 3 + k
      /\ \A i \in 1 .. k : screen[3 + i] = Row(regions[i])
      /\ (Total(k) < Word) => (memsz = Total(k))
  BY <1>1, <1>2 DEF WalkInv
<1>4. k = Len(regions)
  <2>1. (mmap < mmap_length) <=> (k < Len(regions))
    BY <1>1, <1>3, NextRegionLemma
  <2>2. mmap \in Nat /\ mmap_length \in Nat
    <3>1. k + 1 \in 1 .. Len(regions) + 1 /\ Len(regions) + 1 \in 1 .. Len(regions) + 1
      BY <1>1, <1>3
    <3> QED BY <1>1, <1>3, <3>1, OffsetsApart DEF mmap_length
  <2> QED BY <1>1, <2>1, <2>2
<1>5. memsz' \in 0 .. Word - 1
  BY <1>1, MegabytesLemma
<1>6. /\ DOMAIN screen' = {2} \cup 4 .. 3 + k
      /\ screen'[2] = <<toString(memsz', 10)>>
      /\ \A i \in 1 .. k : screen'[3 + i] = Row(regions[i])
  <2>1. \A i \in 1 .. k : 3 + i \in DOMAIN screen /\ 3 + i # 2
    BY <1>3
  <2>2. \A i \in 1 .. k : screen'[3 + i] = screen[3 + i]
    BY <1>1, <2>1
  <2>3. DOMAIN screen' = {2} \cup 4 .. 3 + k
    BY <1>1, <1>3
  <2>4. screen'[2] = <<toString(memsz', 10)>>
    BY <1>1
  <2> QED BY <1>3, <2>2, <2>3, <2>4
<1>7. WalkInv(k)'
  <2>1. Offset(k + 1)' = Offset(k + 1) /\ Total(k)' = Total(k)
    BY <1>1, MapKept
  <2>2. \A i \in 1 .. k : Row(regions[i])' = Row(regions[i])
    BY <1>1, MapKept
  <2>3. k = Len(regions') /\ y' = 2 /\ halted' /\ mmap' = Offset(k + 1)
    BY <1>1, <1>3, <1>4
  <2>4. (Total(k) < Word) => (memsz' = Megabytes(Total(k)))
    BY <1>1, <1>3
  <2> QED BY <1>6, <2>1, <2>2, <2>3, <2>4 DEF WalkInv
<1>8. regions' \in Seq(Region) /\ halted' \in BOOLEAN /\ k \in 0 .. Len(regions')
  BY <1>1
<1> QED BY <1>5, <1>7, <1>8 DEF MemInv

\* The walk never loses its place, whatever the loader's map.
LEMMA MemInductive == Spec => []MemInv
<1>1. Init => MemInv
  BY MemInit_Inv DEF Init
<1>2. ASSUME MemInv, [Next]_vars PROVE MemInv'
  <2>1. CASE PrintRegion
    BY <1>2, <2>1, PrintRegion_Inv
  <2>2. CASE PrintSize
    BY <1>2, <2>2, PrintSize_Inv
  <2>3. CASE UNCHANGED memos
    <3>1. regions' = regions /\ mmap' = mmap /\ memsz' = memsz /\ y' = y
          /\ screen' = screen /\ halted' = halted
      BY <2>3 DEF memos
    <3>2. PICK k \in 0 .. Len(regions) : WalkInv(k)
      BY <1>2 DEF MemInv
    <3>3. WalkInv(k)'
      <4>1. Offset(k + 1)' = Offset(k + 1) /\ Total(k)' = Total(k)
        BY <3>1, MapKept
      <4>2. \A i \in 1 .. k : Row(regions[i])' = Row(regions[i])
        BY <3>1, MapKept
      <4>3. Megabytes(Total(k))' = Megabytes(Total(k))
        BY <4>1 DEF Megabytes
      <4> QED BY <3>1, <3>2, <4>1, <4>2, <4>3 DEF WalkInv
    <3> QED BY <1>2, <3>1, <3>3 DEF MemInv
  <2>4. CASE UNCHANGED <<terminal, booted>> /\ MemNext
    BY <2>1, <2>2, <2>4 DEF MemNext
  <2> QED BY <1>2, <2>3, <2>4 DEF Next, vars
<1> QED BY <1>1, <1>2, PTL DEF Spec

\* Every region is on a row of its own, in the order of the map, and nothing else is
\* printed below; what toString made of base and end reads as base and end.
LEMMA RangesLemma == MemInv => RangesPrinted
<1> SUFFICES ASSUME MemInv PROVE RangesPrinted
  OBVIOUS
<1> DEFINE n == Len(regions)
<1>1. regions \in Seq(Region) /\ n \in Nat /\ halted \in BOOLEAN
  BY DEF MemInv
<1>2. PICK k \in 0 .. n : WalkInv(k)
  BY DEF MemInv
<1> DEFINE printed == DOMAIN screen \ {2}
<1>3. printed = 4 .. 3 + k /\ k \in Nat
  BY <1>1, <1>2 DEF WalkInv
<1>4. printed \subseteq 4 .. 3 + n
  BY <1>1, <1>2, <1>3
<1>5. halted => printed = 4 .. 3 + n
  BY <1>2, <1>3 DEF WalkInv
<1>6. ASSUME NEW row \in printed
      PROVE  LET region == regions[row - 3]
             IN  /\ Value(screen[row][1], 16) = region.base % Word
                 /\ region.base + region.length < Word =>
                     Value(screen[row][2], 16) = region.base + region.length
                 /\ screen[row][3] = "available" <=> region.type = 1
  <2> DEFINE i == row - 3
             region == regions[i]
  <2>1. i \in 1 .. k /\ i \in 1 .. n /\ row = 3 + i
    BY <1>1, <1>2, <1>3
  <2>2. region \in Region
    BY <1>1, <2>1
  <2>3. screen[row] = Row(region)
    <3>1. screen[3 + i] = Row(regions[i])
      BY <1>2, <2>1 DEF WalkInv
    <3> QED BY <2>1, <3>1
  <2> HIDE DEF region
  <2>4. /\ screen[row][1] = toString(base_addr_low(region), 16)
        /\ screen[row][2] = toString(endAddr(region), 16)
        /\ screen[row][3] = (IF region.type = 1 THEN "available" ELSE "reserved")
    BY <2>3 DEF Row
  <2>5. /\ Value(screen[row][1], 16) = base_addr_low(region)
        /\ Value(screen[row][2], 16) = endAddr(region)
    BY <2>2, <2>4, RegionFacts, ToStringLemma
  <2>6. ASSUME region.base + region.length < Word
        PROVE  endAddr(region) = region.base + region.length
    <3>1. region.base \in Nat /\ region.length \in Nat /\ Word \in Nat
      BY <2>2, RegionFacts, MemMapAssumption
    <3>2. region.base < Word /\ region.length < Word
      BY <2>6, <3>1
    <3>3. region.base % Word = region.base /\ region.length % Word = region.length
      BY <3>1, <3>2, LowWord
    <3>4. base_addr_low(region) = region.base /\ length_low(region) = region.length
      BY <3>3 DEF base_addr_low, length_low
    <3>5. (region.base + region.length) % Word = region.base + region.length
      BY <2>6, <3>1, LowWord
    <3> QED BY <3>4, <3>5 DEF endAddr
  <2>7. (screen[row][3] = "available") <=> (region.type = 1)
    BY <2>4
  <2> QED BY <2>5, <2>6, <2>7 DEF base_addr_low, region
<1> QED BY <1>4, <1>5, <1>6 DEF RangesPrinted

\* The size printed reads as the megabytes of the available bytes, if they fit a word.
LEMMA SizeLemma == MemInv => SizePrinted
<1> SUFFICES ASSUME MemInv PROVE SizePrinted
  OBVIOUS
<1> SUFFICES ASSUME halted, Total(Len(regions)) < Word
             PROVE  /\ (Value(screen[2][1], 10) - 1) * MB <= Total(Len(regions))
                    /\ Total(Len(regions)) < Value(screen[2][1], 10) * MB
  <2>1. DOMAIN regions = 1 .. Len(regions)
    BY DEF MemInv
  <2>2. Total(Len(regions)) =
            SumOf([k \in DOMAIN regions |-> IF k \in Available THEN regions[k].length ELSE 0])
    BY <2>1 DEF Total, Bytes
  <2> QED BY <2>2 DEF SizePrinted
<1> DEFINE n == Len(regions)
           t == Total(n)
<1>1. regions \in Seq(Region) /\ n \in Nat /\ memsz \in 0 .. Word - 1
  BY DEF MemInv
<1>2. t \in 0 .. Word - 1
  BY <1>1, TotalNat, MemMapAssumption
<1>3. screen[2] = <<toString(memsz, 10)>> /\ memsz = Megabytes(t)
  BY DEF MemInv, WalkInv
<1>4. Value(screen[2][1], 10) = memsz
  BY <1>1, <1>3, ToStringLemma
<1> HIDE DEF t
<1>5. (Megabytes(t) - 1) * MB <= t /\ t < Megabytes(t) * MB
  BY <1>2, MegabytesLemma
<1> QED BY <1>3, <1>4, <1>5 DEF t

\* Whatever the map, every region is printed once, in its order, on a row of its own, and
\* the digits printed read as its bounds (memos-2.c).
THEOREM RangesArePrinted == Spec => []RangesPrinted
BY MemInductive, RangesLemma, PTL

\* Whatever the map, the size printed reads as the available megabytes, the one that is
\* not full counted as well, as long as the available bytes fit a word.
THEOREM SizeIsPrinted == Spec => []SizePrinted
BY MemInductive, SizeLemma, PTL

-----------------------------------------------------------------------------
(* The terminal.                                                           *)

\* How much of the k-th text is on the screen, and where a cell is in that text.
Written(k) ==
    IF writing /\ k = Len(texts) THEN Len(texts[k]) - Len(data) ELSE Len(texts[k])
Place(i, k) == i - StartRow(k) * VGA_WIDTH

Blank(i) == IF i \in Window THEN make_vgaentry(Space, Grey) ELSE 0
Shown(i, k) == make_vgaentry(texts[k][Place(i, k) + 1], Grey)

\* What is written of each text is on its place, all else is blank.
Drawn ==
    \A i \in Cells :
        /\ \A k \in DOMAIN texts :
            Place(i, k) \in 0 .. Written(k) - 1 => terminal_buffer[i] = Shown(i, k)
        /\ (\A k \in DOMAIN texts : Place(i, k) \notin 0 .. Written(k) - 1)
            => terminal_buffer[i] = Blank(i)

\* The texts fit into the window.
Fits == StartRow(Len(texts) + 1) <= VGA_HEIGHT

\* The text being written, and the place of its next character.
Half ==
    /\ Len(texts) > 0 /\ Len(data) <= Len(texts[Len(texts)])
    /\ \A i \in 1 .. Len(data) : data[i] = texts[Len(texts)][Written(Len(texts)) + i]
    /\ Fits => terminal_row * VGA_WIDTH + terminal_column
                   = StartRow(Len(texts)) * VGA_WIDTH + Written(Len(texts))

TermInv ==
    /\ texts \in Seq(Texts) /\ data \in Seq(1 .. 127) /\ writing \in BOOLEAN
    /\ terminal_color = Grey
    /\ terminal_row \in Nat /\ terminal_column \in 0 .. VGA_WIDTH - 1
    /\ terminal_buffer = [i \in Cells |-> terminal_buffer[i]]
    /\ Fits => Drawn
    /\ writing => Half
    /\ ~writing => terminal_column = 0 /\ (Fits => terminal_row = StartRow(Len(texts) + 1))

\* The order of numbers is that of their multiples.
LEMMA Multiples ==
    ASSUME NEW a \in Nat, NEW b \in Nat, NEW w \in Nat, w > 0
    PROVE  /\ (a * w < b * w) => (a < b)
           /\ (a <= b) => (a * w <= b * w)
<1>1. ASSUME NEW c \in Nat, NEW d \in Nat, c <= d PROVE c * w <= d * w
  <2>1. PICK e \in Nat : d = c + e
    <3>1. d - c \in Nat /\ d = c + (d - c)
      BY <1>1
    <3> QED BY <3>1
  <2>2. d * w = c * w + e * w /\ e * w \in Nat /\ c * w \in Nat
    BY <2>1
  <2> QED BY <2>2
<1>2. ASSUME a * w < b * w, ~(a < b) PROVE FALSE
  <2>1. b * w <= a * w
    BY <1>1, <1>2
  <2>2. a * w \in Nat /\ b * w \in Nat
    OBVIOUS
  <2> QED BY <1>2, <2>1, <2>2
<1> QED BY <1>1, <1>2

\* A place of the screen is one row and one column.
LEMMA RowUnique ==
    ASSUME NEW a \in Nat, NEW b \in Nat, NEW w \in Nat, w > 0,
           NEW c \in 0 .. w - 1, NEW d \in 0 .. w - 1, a * w + c = b * w + d
    PROVE  a = b
<1>1. ASSUME NEW p \in Nat, NEW q \in Nat, p < q PROVE p * w + w <= q * w
  <2>1. (p + 1) * w <= q * w
    BY <1>1, Multiples
  <2>2. (p + 1) * w = p * w + w
    OBVIOUS
  <2> QED BY <2>1, <2>2
<1>2. a * w \in Nat /\ b * w \in Nat
  OBVIOUS
<1>3. ~(a < b)
  BY <1>1, <1>2
<1>4. ~(b < a)
  BY <1>1, <1>2
<1> QED BY <1>3, <1>4

\* A text of length n takes n \div VGA_WIDTH rows and what is left of it one more.
LEMMA RowsOfText ==
    ASSUME NEW n \in Nat
    PROVE  /\ n \div VGA_WIDTH \in Nat /\ n % VGA_WIDTH \in 0 .. VGA_WIDTH - 1
           /\ n = (n \div VGA_WIDTH) * VGA_WIDTH + (n % VGA_WIDTH)
           /\ n < ((n \div VGA_WIDTH) + 1) * VGA_WIDTH
<1>1. VGA_WIDTH \in Nat /\ VGA_WIDTH > 0
  BY TerminalAssumption
<1> DEFINE q == n \div VGA_WIDTH
           r == n % VGA_WIDTH
<1>2. q \in Nat /\ r \in 0 .. VGA_WIDTH - 1 /\ n = q * VGA_WIDTH + r
  BY <1>1
<1> HIDE DEF q, r
<1>3. (q + 1) * VGA_WIDTH = q * VGA_WIDTH + VGA_WIDTH /\ q * VGA_WIDTH \in Nat
  BY <1>1, <1>2
<1>4. n < (q + 1) * VGA_WIDTH
  BY <1>1, <1>2, <1>3
<1> QED BY <1>2, <1>4 DEF q, r

\* The texts stand one below the other.
LEMMA StartLemma ==
    ASSUME texts \in Seq(Texts)
    PROVE  /\ StartRow(1) = 0
           /\ \A k \in 1 .. Len(texts) :
                 StartRow(k + 1) = StartRow(k) + ((Len(texts[k]) \div VGA_WIDTH) + 1)
<1>1. StartRow(1) = 0
  <2> DEFINE n == 0
             s == [j \in 1 .. 1 - 1 |-> (Len(texts[j]) \div VGA_WIDTH) + 1]
  <2>1. n \in Nat /\ DOMAIN s = 1 .. n
    OBVIOUS
  <2> HIDE DEF s
  <2>2. SumOf(s) = 0
    BY <2>1, SumLemma
  <2> QED BY <2>2 DEF StartRow, s
<1>2. ASSUME NEW k \in 1 .. Len(texts)
      PROVE  StartRow(k + 1) = StartRow(k) + ((Len(texts[k]) \div VGA_WIDTH) + 1)
  <2> DEFINE n == k - 1
             s == [j \in 1 .. k - 1 |-> (Len(texts[j]) \div VGA_WIDTH) + 1]
             t == [j \in 1 .. k + 1 - 1 |-> (Len(texts[j]) \div VGA_WIDTH) + 1]
  <2>1. /\ n \in Nat /\ DOMAIN s = 1 .. n /\ DOMAIN t = 1 .. n + 1 /\ n + 1 = k
        /\ t[k] = (Len(texts[k]) \div VGA_WIDTH) + 1 /\ \A j \in 1 .. n : s[j] = t[j]
    OBVIOUS
  <2> HIDE DEF n, s, t
  <2>2. SumOf(t) = SumOf(s) + t[n + 1]
    BY <2>1, SumLemma
  <2> QED BY <2>1, <2>2 DEF StartRow, s, t
<1> QED BY <1>1, <1>2

\* None overlaps another.
LEMMA StartsApart ==
    ASSUME texts \in Seq(Texts)
    PROVE  \A j \in 1 .. Len(texts) + 1 :
              /\ StartRow(j) \in Nat
              /\ \A i \in 1 .. j - 1 :
                    StartRow(i) * VGA_WIDTH + Len(texts[i]) < StartRow(j) * VGA_WIDTH
<1> DEFINE OK(j) ==
               /\ StartRow(j) \in Nat
               /\ \A i \in 1 .. j - 1 :
                     StartRow(i) * VGA_WIDTH + Len(texts[i]) < StartRow(j) * VGA_WIDTH
           Bad == {j \in 1 .. Len(texts) + 1 : ~OK(j)}
<1> SUFFICES ASSUME Bad # {} PROVE FALSE
  OBVIOUS
<1>1. /\ Len(texts) \in Nat /\ VGA_WIDTH \in Nat /\ VGA_WIDTH > 0
      /\ \A k \in 1 .. Len(texts) : Len(texts[k]) \in Nat
  <2>1. \A text \in Texts : Len(text) \in Nat
    BY TerminalAssumption
  <2> QED BY <2>1, TerminalAssumption
<1>2. PICK j \in Bad : \A m \in Bad : j <= m
  <2> Bad \in SUBSET Nat
    BY <1>1
  <2> HIDE DEF Bad
  <2> QED BY Least
<1>3. j \in 1 .. Len(texts) + 1 /\ ~OK(j)
  BY <1>2
<1>4. CASE j = 1
  BY <1>3, <1>4, StartLemma
<1>5. CASE j # 1
  <2> DEFINE k == j - 1
             size == Len(texts[k])
             rows == (size \div VGA_WIDTH) + 1
  <2>1. k \in 1 .. Len(texts) /\ k \in 1 .. Len(texts) + 1 /\ k < j /\ j = k + 1
    BY <1>1, <1>3, <1>5
  <2> HIDE DEF k
  <2>2. OK(k)
    <3>1. k \notin Bad
      <4> HIDE DEF Bad
      <4> QED BY <1>1, <1>2, <1>3, <2>1
    <3> HIDE DEF OK
    <3> QED BY <2>1, <3>1
  <2>3. StartRow(j) = StartRow(k) + rows
    BY <2>1, StartLemma
  <2>4. size \in Nat /\ rows \in Nat /\ size < rows * VGA_WIDTH
    <3>1. size \in Nat
      BY <1>1, <2>1
    <3> HIDE DEF size
    <3>2. (size \div VGA_WIDTH) \in Nat /\ size < rows * VGA_WIDTH
      BY <3>1, RowsOfText
    <3> QED BY <3>1, <3>2
  <2> HIDE DEF rows, size
  <2>5. StartRow(k) \in Nat /\ StartRow(j) \in Nat
    BY <2>2, <2>3, <2>4
  <2>6. /\ StartRow(j) * VGA_WIDTH = StartRow(k) * VGA_WIDTH + rows * VGA_WIDTH
        /\ StartRow(k) * VGA_WIDTH \in Nat /\ rows * VGA_WIDTH \in Nat
    BY <1>1, <2>3, <2>4, <2>5
  <2>7. StartRow(k) * VGA_WIDTH + size < StartRow(j) * VGA_WIDTH
    <3>1. PICK a \in Nat, b \in Nat, d \in Nat :
              a = StartRow(k) * VGA_WIDTH /\ b = rows * VGA_WIDTH /\ d = size
      BY <2>4, <2>6
    <3>2. StartRow(j) * VGA_WIDTH = a + b /\ d < b
      BY <2>4, <2>6, <3>1
    <3>3. a + d < a + b
      BY <3>2
    <3> QED BY <3>1, <3>2, <3>3
  <2>8. \A i \in 1 .. j - 1 : i = k \/ i \in 1 .. k - 1
    BY <1>1, <2>1
  <2>9. ASSUME NEW i \in 1 .. j - 1
        PROVE  StartRow(i) * VGA_WIDTH + Len(texts[i]) < StartRow(j) * VGA_WIDTH
    <3>1. CASE i = k
      BY <2>7, <3>1 DEF size
    <3>2. CASE i \in 1 .. k - 1
      <4>1. StartRow(i) * VGA_WIDTH + Len(texts[i]) < StartRow(k) * VGA_WIDTH
        BY <2>2, <3>2
      <4>2. StartRow(i) \in Nat
        <5>1. i \in 1 .. Len(texts) + 1 /\ i < j
          BY <1>1, <2>1, <3>2
        <5>2. i \notin Bad
          <6> HIDE DEF Bad
          <6> QED BY <1>1, <1>2, <1>3, <5>1
        <5> QED BY <5>1, <5>2
      <4>3. StartRow(i) * VGA_WIDTH \in Nat /\ Len(texts[i]) \in Nat
        BY <1>1, <2>1, <3>2, <4>2
      <4> QED BY <2>4, <2>6, <4>1, <4>3
    <3> QED BY <2>8, <3>1, <3>2
  <2> QED BY <1>3, <2>5, <2>9
<1> QED BY <1>4, <1>5

\* A cell is on at most one of the texts.
LEMMA OnePlace ==
    ASSUME texts \in Seq(Texts)
    PROVE  \A i \in Int : \A j, k \in 1 .. Len(texts) :
              /\ Place(i, j) \in Int
              /\ (Place(i, j) \in 0 .. Len(texts[j]) /\ Place(i, k) \in 0 .. Len(texts[k]))
                    => j = k
<1> SUFFICES ASSUME NEW i \in Int, NEW j \in 1 .. Len(texts), NEW k \in 1 .. Len(texts)
             PROVE  /\ Place(i, j) \in Int
                    /\ (Place(i, j) \in 0 .. Len(texts[j]) /\ Place(i, k) \in 0 .. Len(texts[k]))
                          => j = k
  OBVIOUS
<1>1. Len(texts) \in Nat /\ VGA_WIDTH \in Nat /\ Len(texts[j]) \in Nat /\ Len(texts[k]) \in Nat
  <2>1. \A text \in Texts : Len(text) \in Nat
    BY TerminalAssumption
  <2> QED BY <2>1, TerminalAssumption
<1> DEFINE a == StartRow(j) * VGA_WIDTH
           b == StartRow(k) * VGA_WIDTH
           n == Len(texts[j])
           m == Len(texts[k])
<1>2. a \in Nat /\ b \in Nat
  BY <1>1, StartsApart
<1>3. ((j < k) => (a + n < b)) /\ ((k < j) => (b + m < a))
  <2>1. j \in 1 .. Len(texts) + 1 /\ k \in 1 .. Len(texts) + 1
    BY <1>1
  <2>2. CASE j < k
    <3>1. j \in 1 .. k - 1 /\ ~(k < j)
      BY <1>1, <2>2
    <3> QED BY <2>1, <3>1, StartsApart
  <2>3. CASE k < j
    <3>1. k \in 1 .. j - 1 /\ ~(j < k)
      BY <1>1, <2>3
    <3> QED BY <2>1, <3>1, StartsApart
  <2> QED BY <2>2, <2>3
<1>4. Place(i, j) = i - a /\ Place(i, k) = i - b
  BY DEF Place
<1>5. n \in Nat /\ m \in Nat
  BY <1>1
<1> HIDE DEF a, b, n, m
<1>6. (i - a \in 0 .. n /\ i - b \in 0 .. m) => j = k
  BY <1>1, <1>2, <1>3, <1>5
<1> QED BY <1>2, <1>4, <1>6 DEF n, m

\* A cleared window has no text on it.
LEMMA TermInit_Inv == terminal_initialize => TermInv
<1> SUFFICES ASSUME terminal_initialize PROVE TermInv
  OBVIOUS
<1>1. /\ terminal_row = 0 /\ terminal_column = 0 /\ terminal_color = Grey
      /\ terminal_buffer = [i \in Cells |-> Blank(i)]
      /\ data = <<>> /\ writing = FALSE /\ texts = <<>>
  BY DEF terminal_initialize, Blank
<1>2. /\ texts \in Seq(Texts) /\ data \in Seq(1 .. 127) /\ writing \in BOOLEAN
      /\ Len(texts) = 0 /\ DOMAIN texts = {}
  <2>1. <<>> \in Seq(Texts) /\ <<>> \in Seq(1 .. 127) /\ Len(<<>>) = 0 /\ DOMAIN <<>> = {}
    OBVIOUS
  <2>2. writing \in BOOLEAN
    BY <1>1
  <2> QED BY <1>1, <2>1, <2>2, Zenon
<1>3. terminal_row \in Nat /\ terminal_column \in 0 .. VGA_WIDTH - 1
  BY <1>1, TerminalAssumption
<1>4. terminal_buffer = [i \in Cells |-> terminal_buffer[i]]
  BY <1>1
<1>5. Drawn
  BY <1>1, <1>2 DEF Drawn
<1>6. terminal_row = StartRow(Len(texts) + 1)
  <2>1. StartRow(1) = 0 /\ Len(texts) + 1 = 1
    BY <1>2, StartLemma
  <2> QED BY <1>1, <2>1
<1> QED BY <1>1, <1>2, <1>3, <1>4, <1>5, <1>6 DEF TermInv

\* A text more starts below those that are there.
LEMMA StartsOfMore ==
    ASSUME texts \in Seq(Texts), NEW text \in Texts, texts' = Append(texts, text),
           NEW n \in Nat, n = Len(texts)
    PROVE  /\ \A k \in 1 .. n + 1 : StartRow(k)' = StartRow(k)
           /\ StartRow(n + 2)' = StartRow(n + 1) + ((Len(text) \div VGA_WIDTH) + 1)
<1>1. texts'[n + 1] = text /\ \A j \in 1 .. n : texts'[j] = texts[j]
  OBVIOUS
<1>2. ASSUME NEW k \in 1 .. n + 1 PROVE StartRow(k)' = StartRow(k)
  <2> DEFINE s == [j \in 1 .. k - 1 |-> (Len(texts[j]) \div VGA_WIDTH) + 1]
             t == [j \in 1 .. k - 1 |-> (Len(texts'[j]) \div VGA_WIDTH) + 1]
  <2>1. \A j \in 1 .. k - 1 : texts'[j] = texts[j]
    BY <1>1
  <2>2. s = t
    BY <2>1
  <2> QED BY <2>2 DEF StartRow
<1>3. StartRow(n + 2)' = StartRow(n + 1) + ((Len(text) \div VGA_WIDTH) + 1)
  <2> DEFINE s == [j \in 1 .. n + 1 - 1 |-> (Len(texts[j]) \div VGA_WIDTH) + 1]
             t == [j \in 1 .. n + 2 - 1 |-> (Len(texts'[j]) \div VGA_WIDTH) + 1]
  <2>1. /\ n \in Nat /\ DOMAIN s = 1 .. n /\ DOMAIN t = 1 .. n + 1
        /\ t[n + 1] = (Len(text) \div VGA_WIDTH) + 1 /\ \A j \in 1 .. n : s[j] = t[j]
    BY <1>1
  <2>2. SumOf(t) = StartRow(n + 2)' /\ SumOf(s) = StartRow(n + 1)
    BY DEF StartRow
  <2> HIDE DEF s, t
  <2>3. SumOf(t) = SumOf(s) + t[n + 1]
    BY <2>1, SumLemma
  <2> QED BY <2>1, <2>2, <2>3
<1> QED BY <1>2, <1>3

\* The call writes nothing.
LEMMA WriteString_Inv ==
    ASSUME TermInv, NEW text \in Texts, WriteString(text)
    PROVE  TermInv'
<1> PICK n \in Nat : n = Len(texts)
  BY DEF TermInv
<1>1. /\ texts \in Seq(Texts) /\ writing' = TRUE /\ data' = text /\ texts' = Append(texts, text)
      /\ terminal_row' = terminal_row /\ terminal_column' = terminal_column
      /\ terminal_color' = terminal_color /\ terminal_buffer' = terminal_buffer
      /\ ~writing
  BY DEF TermInv, WriteString
<1>2. /\ text \in Seq(1 .. 127) /\ Len(text) \in Nat /\ n \in Nat /\ VGA_WIDTH \in Nat
      /\ \A k \in 1 .. n : Len(texts[k]) \in Nat
  <2>1. \A e \in Texts : e \in Seq(1 .. 127) /\ Len(e) \in Nat
    BY TerminalAssumption
  <2> QED BY <1>1, <2>1, TerminalAssumption
<1>3. /\ Len(texts') = n + 1 /\ texts'[n + 1] = text /\ texts' \in Seq(Texts)
      /\ \A k \in 1 .. n : texts'[k] = texts[k]
      /\ DOMAIN texts = 1 .. n /\ DOMAIN texts' = 1 .. n + 1
  BY <1>1
<1>4. /\ \A k \in 1 .. n + 1 : StartRow(k)' = StartRow(k)
      /\ StartRow(n + 2)' = StartRow(n + 1) + ((Len(text) \div VGA_WIDTH) + 1)
  BY <1>1, StartsOfMore
<1>5. StartRow(n + 1) \in Nat /\ (Len(text) \div VGA_WIDTH) \in Nat
  <2>1. n + 1 \in 1 .. n + 1
    BY <1>2
  <2> QED BY <1>1, <1>2, <2>1, StartsApart, RowsOfText
<1>6. Fits' => Fits
  <2>1. Fits' => StartRow(n + 2)' <= VGA_HEIGHT
    <3>1. n + 1 + 1 = n + 2
      BY <1>2
    <3> QED BY <1>3, <3>1 DEF Fits
  <2>2. StartRow(n + 1) <= VGA_HEIGHT => Fits
    BY DEF Fits
  <2> QED BY <1>4, <1>5, <2>1, <2>2, TerminalAssumption
<1>7. /\ \A k \in 1 .. n : Written(k)' = Written(k)
      /\ Written(n + 1)' = 0
  <2>1. Written(n + 1)' = 0
    BY <1>1, <1>2, <1>3 DEF Written
  <2>2. ASSUME NEW k \in 1 .. n PROVE Written(k)' = Written(k)
    <3>1. k # n + 1 /\ texts'[k] = texts[k]
      BY <1>2, <1>3
    <3> QED BY <1>1, <1>3, <3>1 DEF Written
  <2> QED BY <2>1, <2>2
<1>8. \A i : \A k \in 1 .. n : Place(i, k)' = Place(i, k) /\ Shown(i, k)' = Shown(i, k)
  <2> SUFFICES ASSUME NEW i, NEW k \in 1 .. n
               PROVE  Place(i, k)' = Place(i, k) /\ Shown(i, k)' = Shown(i, k)
    OBVIOUS
  <2>1. k \in 1 .. n + 1
    BY <1>2
  <2>2. Place(i, k)' = Place(i, k)
    BY <1>4, <2>1 DEF Place
  <2> QED BY <1>3, <2>2 DEF Shown
<1>9. ASSUME Drawn PROVE Drawn'
  <2> SUFFICES ASSUME NEW i \in Cells
               PROVE  /\ \A k \in 1 .. n + 1 : Place(i, k)' \in 0 .. Written(k)' - 1
                            => terminal_buffer[i] = Shown(i, k)'
                      /\ (\A k \in 1 .. n + 1 : Place(i, k)' \notin 0 .. Written(k)' - 1)
                            => terminal_buffer[i] = Blank(i)
    <3> QED BY <1>1, <1>3 DEF Drawn, Blank, Cells, Window
  <2>1. \A k \in 1 .. n + 1 : k \in 1 .. n \/ k = n + 1
    BY <1>2
  <2>2. Place(i, n + 1)' \notin 0 .. Written(n + 1)' - 1
    BY <1>7
  <2>3. \A k \in 1 .. n : k \in 1 .. n + 1
    BY <1>2
  <2>4. /\ \A k \in 1 .. n :
            Place(i, k) \in 0 .. Written(k) - 1 => terminal_buffer[i] = Shown(i, k)
        /\ (\A k \in 1 .. n : Place(i, k) \notin 0 .. Written(k) - 1)
            => terminal_buffer[i] = Blank(i)
    BY <1>3, <1>9 DEF Drawn
  <2> QED BY <1>7, <1>8, <2>1, <2>2, <2>3, <2>4
<1>10. Half'
  <2>1. Len(texts') > 0 /\ Len(data') <= Len(texts'[Len(texts')])
    BY <1>1, <1>2, <1>3
  <2>2. Written(Len(texts))' = 0
    BY <1>3, <1>7, Zenon
  <2>3. \A i \in 1 .. Len(data') : data'[i] = texts'[Len(texts')][Written(Len(texts))' + i]
    <3>1. \A i \in 1 .. Len(text) : 0 + i = i
      BY <1>2
    <3> QED BY <1>1, <1>3, <2>2, <3>1
  <2>4. ASSUME Fits'
        PROVE  terminal_row' * VGA_WIDTH + terminal_column'
                   = StartRow(Len(texts))' * VGA_WIDTH + Written(Len(texts))'
    <3>1. terminal_column = 0 /\ terminal_row = StartRow(n + 1)
      BY <1>1, <1>6, <2>4 DEF TermInv
    <3>2. StartRow(Len(texts))' = StartRow(n + 1)
      <4>1. n + 1 \in 1 .. n + 1
        BY <1>2
      <4>2. StartRow(Len(texts))' = StartRow(n + 1)'
        BY <1>3, Zenon
      <4> QED BY <1>4, <4>1, <4>2
    <3> QED BY <1>1, <2>2, <3>1, <3>2
  <2> QED BY <2>1, <2>3, <2>4 DEF Half
<1>11. /\ data' \in Seq(1 .. 127) /\ terminal_color' = Grey
       /\ terminal_row' \in Nat /\ terminal_column' \in 0 .. VGA_WIDTH - 1
       /\ terminal_buffer' = [i \in Cells |-> terminal_buffer'[i]]
  BY <1>1, <1>2 DEF TermInv
<1>12. Fits' => Drawn'
  BY <1>6, <1>9 DEF TermInv
<1>13. writing' \in BOOLEAN /\ writing'
  BY <1>1
<1> QED BY <1>3, <1>10, <1>11, <1>12, <1>13 DEF TermInv, Cells

\* While the texts fit, a character is written into the window and the next place is the
\* one behind it: the window is not left, and its first row not taken again.
LEMMA NextPlace ==
    ASSUME TermInv, Fits, writing, data # <<>>, PutChar,
           NEW n \in Nat, n = Len(texts), NEW p \in Nat,
           p = terminal_row * VGA_WIDTH + terminal_column
    PROVE  /\ p \in Cells /\ Place(p, n) = Written(n)
           /\ terminal_row' * VGA_WIDTH + terminal_column' = p + 1
<1>1. /\ VGA_WIDTH \in Nat /\ VGA_WIDTH > 0 /\ VGA_HEIGHT \in Nat /\ Rows \in Nat
      /\ VGA_HEIGHT <= Rows /\ n > 0
      /\ texts \in Seq(Texts) /\ Len(texts[n]) \in Nat /\ Len(data) \in Nat /\ Len(data) > 0
      /\ terminal_row \in Nat /\ terminal_column \in 0 .. VGA_WIDTH - 1
  <2>1. \A text \in Texts : Len(text) \in Nat
    BY TerminalAssumption
  <2>2. texts \in Seq(Texts) /\ n > 0 /\ data \in Seq(1 .. 127)
    BY DEF TermInv, Half
  <2> QED BY <2>1, <2>2, TerminalAssumption DEF TermInv
<1>2. Written(n) = Len(texts[n]) - Len(data)
  BY DEF Written
<1>3. p = StartRow(n) * VGA_WIDTH + Written(n)
  BY DEF TermInv, Half
<1> DEFINE a == StartRow(n)
           b == StartRow(n + 1)
<1>4. a \in Nat /\ b \in Nat /\ a * VGA_WIDTH + Len(texts[n]) < b * VGA_WIDTH
  <2>1. n \in 1 .. Len(texts) + 1 /\ n + 1 \in 1 .. Len(texts) + 1 /\ n \in 1 .. n + 1 - 1
    BY <1>1
  <2> QED BY <1>1, <2>1, StartsApart
<1>5. b <= VGA_HEIGHT
  BY DEF Fits
<1> HIDE DEF a, b
<1>6. a * VGA_WIDTH \in Nat /\ b * VGA_WIDTH \in Nat /\ VGA_WIDTH * Rows = Rows * VGA_WIDTH
  BY <1>1, <1>4
<1>7. p + 1 < b * VGA_WIDTH
  BY <1>1, <1>2, <1>3, <1>4, <1>6 DEF a
<1>8. p \in Cells
  <2>1. b <= Rows
    BY <1>1, <1>4, <1>5
  <2>2. b * VGA_WIDTH <= Rows * VGA_WIDTH
    BY <1>1, <1>4, <2>1, Multiples
  <2>3. Rows * VGA_WIDTH \in Nat
    BY <1>1
  <2> QED BY <1>6, <1>7, <2>2, <2>3 DEF Cells
<1>9. Place(p, n) = Written(n)
  <2>1. Written(n) \in Int
    BY <1>1, <1>2
  <2> QED BY <1>3, <1>6, <2>1 DEF Place, a
<1>10. terminal_row' * VGA_WIDTH + terminal_column' = p + 1
  <2>1. terminal_row * VGA_WIDTH \in Nat
    BY <1>1
  <2>2. CASE Wraps
    <3>1. terminal_column + 1 = VGA_WIDTH /\ terminal_column' = 0
          /\ terminal_row' = (IF terminal_row + 1 = VGA_HEIGHT THEN 0 ELSE terminal_row + 1)
      BY <2>2 DEF PutChar, Wraps
    <3> DEFINE r == terminal_row + 1
    <3>2. r \in Nat /\ r * VGA_WIDTH = terminal_row * VGA_WIDTH + VGA_WIDTH
      BY <1>1
    <3>3. r * VGA_WIDTH = p + 1
      BY <1>1, <2>1, <3>1, <3>2
    <3> HIDE DEF r
    <3>4. r < b
      BY <1>1, <1>4, <1>7, <3>2, <3>3, Multiples
    <3>5. r # VGA_HEIGHT
      BY <1>1, <1>4, <1>5, <3>2, <3>4
    <3>6. terminal_row' = r /\ terminal_column' = 0
      BY <3>1, <3>5 DEF r
    <3> QED BY <3>2, <3>3, <3>6
  <2>3. CASE ~Wraps
    <3>1. terminal_column' = terminal_column + 1 /\ terminal_row' = terminal_row
      BY <2>3 DEF PutChar
    <3> QED BY <1>1, <2>1, <3>1
  <2> QED BY <2>2, <2>3
<1> QED BY <1>8, <1>9, <1>10

\* A character is added to the text being written.
LEMMA PutChar_Inv ==
    ASSUME TermInv, PutChar
    PROVE  TermInv'
<1>1. /\ writing /\ data # <<>> /\ data' = Tail(data)
      /\ terminal_buffer' = [terminal_buffer EXCEPT
             ![terminal_row * VGA_WIDTH + terminal_column] =
                 make_vgaentry(Head(data), terminal_color)]
      /\ terminal_color' = terminal_color /\ writing' = writing /\ texts' = texts
  BY DEF PutChar
<1>2. PICK n \in Nat : n = Len(texts)
  BY DEF TermInv
<1>3. PICK p \in Nat : p = terminal_row * VGA_WIDTH + terminal_column
  <2>1. terminal_row \in Nat /\ terminal_column \in Nat /\ VGA_WIDTH \in Nat
    BY TerminalAssumption DEF TermInv
  <2> QED BY <2>1
<1>4. /\ texts \in Seq(Texts) /\ data \in Seq(1 .. 127) /\ terminal_color = Grey
      /\ Len(texts[n]) \in Nat /\ n > 0 /\ DOMAIN texts = 1 .. n
      /\ \A k \in 1 .. n : Len(texts[k]) \in Nat
      /\ Len(data) \in Nat /\ Len(data) > 0 /\ Len(data) <= Len(texts[n])
      /\ terminal_buffer = [i \in Cells |-> terminal_buffer[i]]
  <2>1. \A text \in Texts : Len(text) \in Nat
    BY TerminalAssumption
  <2>2. /\ texts \in Seq(Texts) /\ n > 0 /\ data \in Seq(1 .. 127)
        /\ Len(data) <= Len(texts[n]) /\ terminal_color = Grey
        /\ terminal_buffer = [i \in Cells |-> terminal_buffer[i]]
    BY <1>1, <1>2 DEF TermInv, Half
  <2> QED BY <1>1, <1>2, <2>1, <2>2
<1>5. /\ data' \in Seq(1 .. 127) /\ Len(data') = Len(data) - 1
      /\ \A i \in 1 .. Len(data) - 1 : data'[i] = data[i + 1]
      /\ Head(data) = data[1]
  BY <1>1, <1>4
<1>6. /\ Written(n) = Len(texts[n]) - Len(data) /\ Written(n)' = Written(n) + 1
      /\ Written(n) \in 0 .. Len(texts[n]) - 1
      /\ \A k \in 1 .. n : k # n => Written(k) = Len(texts[k]) /\ Written(k)' = Written(k)
  <2>1. Written(n) = Len(texts[n]) - Len(data)
    BY <1>1, <1>2 DEF Written
  <2>2. Written(n)' = Len(texts[n]) - (Len(data) - 1)
    BY <1>1, <1>2, <1>5 DEF Written
  <2>3. \A k \in 1 .. n : k # n => Written(k) = Len(texts[k]) /\ Written(k)' = Written(k)
    BY <1>1, <1>2 DEF Written
  <2> QED BY <1>4, <2>1, <2>2, <2>3
<1>7. \A k : /\ StartRow(k)' = StartRow(k)
             /\ \A i : Place(i, k)' = Place(i, k) /\ Shown(i, k)' = Shown(i, k)
  BY <1>1 DEF StartRow, Place, Shown
<1>8. Fits' <=> Fits
  <2>1. StartRow(n + 1)' = StartRow(n + 1)
    BY <1>7
  <2> QED BY <1>1, <1>2, <2>1 DEF Fits
<1>9. Head(data) = texts[n][Written(n) + 1]
  <2>1. 1 \in 1 .. Len(data)
    BY <1>4
  <2> QED BY <1>1, <1>2, <1>5, <2>1 DEF TermInv, Half
<1>10. ASSUME Fits
       PROVE  /\ p \in Cells /\ Place(p, n) = Written(n)
              /\ terminal_row' * VGA_WIDTH + terminal_column' = p + 1
  BY <1>1, <1>2, <1>3, <1>10, NextPlace
<1>11. ASSUME Fits PROVE Drawn'
  <2> SUFFICES ASSUME NEW i \in Cells
               PROVE  /\ \A k \in 1 .. n : Place(i, k) \in 0 .. Written(k)' - 1
                            => terminal_buffer'[i] = Shown(i, k)
                      /\ (\A k \in 1 .. n : Place(i, k) \notin 0 .. Written(k)' - 1)
                            => terminal_buffer'[i] = Blank(i)
    BY <1>1, <1>4, <1>7 DEF Drawn, Blank, Cells, Window
  <2>1. /\ \A k \in 1 .. n :
            Place(i, k) \in 0 .. Written(k) - 1 => terminal_buffer[i] = Shown(i, k)
        /\ (\A k \in 1 .. n : Place(i, k) \notin 0 .. Written(k) - 1)
            => terminal_buffer[i] = Blank(i)
    BY <1>4, <1>11 DEF TermInv, Drawn
  <2>2. i \in Int
    BY TerminalAssumption DEF Cells
  <2>3. /\ \A k \in 1 .. n : Place(i, k) \in Int /\ Place(p, k) \in Int
        /\ \A j, k \in 1 .. n :
               (Place(p, j) \in 0 .. Len(texts[j]) /\ Place(p, k) \in 0 .. Len(texts[k])) => j = k
    <3>1. p \in Int
      OBVIOUS
    <3>2. \A h \in Int : \A j, k \in 1 .. n :
              /\ Place(h, j) \in Int
              /\ (Place(h, j) \in 0 .. Len(texts[j]) /\ Place(h, k) \in 0 .. Len(texts[k]))
                    => j = k
      BY <1>2, <1>4, OnePlace, Zenon
    <3> QED BY <2>2, <3>1, <3>2, Zenon
  <2>4. CASE i = p
    <3>1. terminal_buffer'[p] = Shown(p, n)
      <4>1. terminal_buffer'[p] = make_vgaentry(Head(data), Grey)
        BY <1>1, <1>3, <1>4, <1>10, <1>11
      <4> QED BY <1>9, <1>10, <1>11, <4>1 DEF Shown
    <3>2. Place(p, n) \in 0 .. Len(texts[n]) /\ Place(p, n) \in 0 .. Written(n)' - 1
      BY <1>4, <1>6, <1>10, <1>11
    <3>3. ASSUME NEW k \in 1 .. n, k # n PROVE Place(p, k) \notin 0 .. Written(k)' - 1
      <4>1. Place(p, k) \notin 0 .. Len(texts[k])
        BY <1>4, <2>3, <3>2, <3>3
      <4>2. Written(k)' = Len(texts[k]) /\ Len(texts[k]) \in Nat
        BY <1>4, <1>6, <3>3
      <4> QED BY <2>3, <4>1, <4>2
    <3>4. n \in 1 .. n
      BY <1>4
    <3> QED BY <2>4, <3>1, <3>2, <3>3, <3>4
  <2>5. CASE i # p
    <3>1. terminal_buffer'[i] = terminal_buffer[i]
      BY <1>1, <1>3, <1>4, <2>5
    <3>2. ASSUME NEW k \in 1 .. n
          PROVE  (Place(i, k) \in 0 .. Written(k)' - 1) <=> (Place(i, k) \in 0 .. Written(k) - 1)
      <4>1. CASE k # n
        BY <1>6, <4>1
      <4>2. CASE k = n
        <5>1. Place(i, n) # Written(n)
          <6>1. Place(i, n) = i - StartRow(n) * VGA_WIDTH
                /\ Place(p, n) = p - StartRow(n) * VGA_WIDTH
            BY DEF Place
          <6>2. StartRow(n) * VGA_WIDTH \in Int
            <7>1. n \in 1 .. Len(texts) + 1 /\ VGA_WIDTH \in Nat
              BY <1>2, <1>4, TerminalAssumption
            <7>2. StartRow(n) \in Nat
              BY <1>4, <7>1, StartsApart
            <7> QED BY <7>1, <7>2
          <6> QED BY <1>10, <1>11, <2>2, <2>5, <6>1, <6>2
        <5>2. Place(i, n) \in Int /\ Written(n) \in Nat
          BY <1>4, <1>6, <2>3
        <5> QED BY <1>6, <4>2, <5>1, <5>2
      <4> QED BY <4>1, <4>2
    <3> QED BY <2>1, <3>1, <3>2
  <2> QED BY <2>4, <2>5
<1>12. Half'
  <2>1. Len(texts') > 0 /\ Len(data') <= Len(texts'[Len(texts')])
    BY <1>1, <1>2, <1>4, <1>5
  <2>2. \A i \in 1 .. Len(data') : data'[i] = texts'[n][Written(n)' + i]
    <3> SUFFICES ASSUME NEW i \in 1 .. Len(data) - 1
                 PROVE  data[i + 1] = texts[n][Written(n) + 1 + i]
      BY <1>1, <1>5, <1>6
    <3>1. i + 1 \in 1 .. Len(data)
      BY <1>4
    <3>2. Written(n) + (i + 1) = Written(n) + 1 + i
      <4>1. \A w \in Int : w + (i + 1) = w + 1 + i
        OBVIOUS
      <4>2. Written(n) \in Int
        BY <1>4, <1>6
      <4> QED BY <4>1, <4>2
    <3>3. data[i + 1] = texts[n][Written(n) + (i + 1)]
      BY <1>1, <1>2, <3>1 DEF TermInv, Half
    <3> QED BY <3>2, <3>3
  <2>3. ASSUME Fits'
        PROVE  terminal_row' * VGA_WIDTH + terminal_column'
                   = StartRow(n)' * VGA_WIDTH + Written(n)'
    <3>1. Fits
      BY <1>8, <2>3
    <3>2. p = StartRow(n) * VGA_WIDTH + Written(n)
      BY <1>1, <1>2, <1>3, <3>1 DEF TermInv, Half
    <3>3. StartRow(n) * VGA_WIDTH \in Int
      <4>1. n \in 1 .. Len(texts) + 1 /\ VGA_WIDTH \in Nat
        BY <1>2, <1>4, TerminalAssumption
      <4>2. StartRow(n) \in Nat
        BY <1>4, <4>1, StartsApart
      <4> QED BY <4>1, <4>2
    <3>4. p + 1 = StartRow(n) * VGA_WIDTH + (Written(n) + 1)
      BY <1>4, <1>6, <3>2, <3>3
    <3>5. terminal_row' * VGA_WIDTH + terminal_column' = p + 1
      BY <1>10, <3>1
    <3> QED BY <1>6, <1>7, <3>4, <3>5
  <2>4. n = Len(texts')
    BY <1>1, <1>2
  <2> QED BY <2>1, <2>2, <2>3, <2>4 DEF Half
<1>13. terminal_row' \in Nat /\ terminal_column' \in 0 .. VGA_WIDTH - 1
  <2>1. terminal_row \in Nat /\ terminal_column \in 0 .. VGA_WIDTH - 1
        /\ VGA_WIDTH \in Nat /\ VGA_WIDTH > 0
    BY TerminalAssumption DEF TermInv
  <2>2. CASE Wraps
    <3>1. terminal_column' = 0
          /\ terminal_row' = (IF terminal_row + 1 = VGA_HEIGHT THEN 0 ELSE terminal_row + 1)
      BY <2>2 DEF PutChar
    <3> QED BY <2>1, <3>1
  <2>3. CASE ~Wraps
    <3>1. terminal_column' = terminal_column + 1 /\ terminal_row' = terminal_row
      BY <2>3 DEF PutChar
    <3> QED BY <2>1, <2>3, <3>1 DEF Wraps
  <2> QED BY <2>2, <2>3
<1>14. terminal_buffer' = [i \in Cells |-> terminal_buffer'[i]]
  BY <1>1, <1>4
<1>15. writing' \in BOOLEAN /\ writing' /\ texts' \in Seq(Texts) /\ terminal_color' = Grey
  BY <1>1, <1>4
<1> QED BY <1>5, <1>8, <1>11, <1>12, <1>13, <1>14, <1>15 DEF TermInv, Cells

\* The new row is the one below the text.
LEMMA NewRow_Inv ==
    ASSUME TermInv, NewRow
    PROVE  TermInv'
<1>1. /\ writing /\ data = <<>> /\ data' = data /\ writing' = FALSE
      /\ terminal_row' = terminal_row + 1 /\ terminal_column' = 0
      /\ terminal_color' = terminal_color /\ terminal_buffer' = terminal_buffer /\ texts' = texts
  BY DEF NewRow
<1>2. PICK n \in Nat : n = Len(texts)
  BY DEF TermInv
<1>3. /\ texts \in Seq(Texts) /\ data \in Seq(1 .. 127) /\ terminal_color = Grey
      /\ Len(texts[n]) \in Nat /\ n > 0 /\ DOMAIN texts = 1 .. n /\ Len(data) = 0
      /\ terminal_row \in Nat /\ terminal_column \in 0 .. VGA_WIDTH - 1
      /\ VGA_WIDTH \in Nat /\ VGA_WIDTH > 0
      /\ terminal_buffer = [i \in Cells |-> terminal_buffer[i]]
  <2>1. \A text \in Texts : Len(text) \in Nat
    BY TerminalAssumption
  <2>2. texts \in Seq(Texts) /\ n > 0
    BY <1>1, <1>2 DEF TermInv, Half
  <2> QED BY <1>1, <1>2, <2>1, <2>2, TerminalAssumption DEF TermInv
<1>4. Written(n) = Len(texts[n]) /\ \A k \in 1 .. n : Written(k)' = Written(k)
  <2>1. Written(n) = Len(texts[n])
    BY <1>1, <1>2, <1>3 DEF Written
  <2>2. ASSUME NEW k \in 1 .. n PROVE Written(k)' = Written(k)
    <3>1. Written(k)' = Len(texts[k])
      BY <1>1 DEF Written
    <3>2. CASE k = n
      BY <2>1, <3>1, <3>2
    <3>3. CASE k # n
      BY <1>2, <3>1, <3>3 DEF Written
    <3> QED BY <3>2, <3>3
  <2> QED BY <2>1, <2>2
<1>5. \A k : /\ StartRow(k)' = StartRow(k)
             /\ \A i : Place(i, k)' = Place(i, k) /\ Shown(i, k)' = Shown(i, k)
  BY <1>1 DEF StartRow, Place, Shown
<1>6. Fits' <=> Fits
  <2>1. StartRow(n + 1)' = StartRow(n + 1)
    BY <1>5
  <2> QED BY <1>1, <1>2, <2>1 DEF Fits
<1>7. ASSUME Fits PROVE Drawn'
  <2>1. Drawn
    BY <1>7 DEF TermInv
  <2> QED BY <1>1, <1>3, <1>4, <1>5, <2>1 DEF Drawn, Blank, Cells, Window
<1>8. ASSUME Fits PROVE terminal_row' = StartRow(Len(texts) + 1)'
  <2> DEFINE size == Len(texts[n])
             q == size \div VGA_WIDTH
             m == size % VGA_WIDTH
             a == StartRow(n)
  <2>1. terminal_row * VGA_WIDTH + terminal_column = a * VGA_WIDTH + size
    BY <1>1, <1>2, <1>4, <1>8 DEF TermInv, Half
  <2>2. a \in Nat
    <3>1. n \in 1 .. Len(texts) + 1
      BY <1>2, <1>3
    <3> QED BY <1>3, <3>1, StartsApart
  <2>3. StartRow(n + 1) = a + (q + 1)
    <3>1. n \in 1 .. Len(texts)
      BY <1>2, <1>3
    <3> QED BY <1>3, <3>1, StartLemma
  <2>4. size \in Nat
    BY <1>3
  <2> HIDE DEF size
  <2>5. q \in Nat /\ m \in 0 .. VGA_WIDTH - 1 /\ size = q * VGA_WIDTH + m
    BY <2>4, RowsOfText
  <2> HIDE DEF q, m, a
  <2>6. (a + q) * VGA_WIDTH + m = terminal_row * VGA_WIDTH + terminal_column
    <3>1. (a + q) * VGA_WIDTH = a * VGA_WIDTH + q * VGA_WIDTH
          /\ a * VGA_WIDTH \in Nat /\ q * VGA_WIDTH \in Nat
      BY <1>3, <2>2, <2>5
    <3> QED BY <1>3, <2>1, <2>4, <2>5, <3>1
  <2> DEFINE e == a + q
  <2>7. e \in Nat
    BY <2>2, <2>5
  <2> HIDE DEF e
  <2>8. e = terminal_row
    BY <1>3, <2>5, <2>6, <2>7, RowUnique DEF e
  <2>9. StartRow(Len(texts) + 1)' = StartRow(n + 1)
    <3>1. n = Len(texts')
      BY <1>1, <1>2
    <3>2. StartRow(Len(texts) + 1)' = StartRow(n + 1)'
      BY <3>1, Zenon
    <3> QED BY <1>5, <3>2
  <2> QED BY <1>1, <2>2, <2>3, <2>5, <2>8, <2>9 DEF e
<1>9. terminal_row' \in Nat /\ terminal_column' \in 0 .. VGA_WIDTH - 1
  BY <1>1, <1>3
<1>10. /\ data' \in Seq(1 .. 127) /\ terminal_color' = Grey /\ texts' \in Seq(Texts)
       /\ terminal_buffer' = [i \in Cells |-> terminal_buffer'[i]]
  BY <1>1, <1>3
<1>11. writing' \in BOOLEAN /\ ~writing'
  BY <1>1
<1> QED BY <1>1, <1>6, <1>7, <1>8, <1>9, <1>10, <1>11 DEF TermInv, Cells

\* The place on the screen is right throughout, as long as the texts fit.
LEMMA TermInductive == Spec => []TermInv
<1>1. Init => TermInv
  BY TermInit_Inv DEF Init
<1>2. ASSUME TermInv, [Next]_vars PROVE TermInv'
  <2>1. CASE \E text \in Texts : WriteString(text)
    BY <1>2, <2>1, WriteString_Inv
  <2>2. CASE PutChar
    BY <1>2, <2>2, PutChar_Inv
  <2>3. CASE NewRow
    BY <1>2, <2>3, NewRow_Inv
  <2>4. CASE UNCHANGED terminal
    <3>1. /\ terminal_row' = terminal_row /\ terminal_column' = terminal_column
          /\ terminal_color' = terminal_color /\ terminal_buffer' = terminal_buffer
          /\ data' = data /\ writing' = writing /\ texts' = texts
      BY <2>4 DEF terminal
    <3>2. (Fits' <=> Fits) /\ (Drawn' <=> Drawn) /\ (Half' <=> Half)
      BY <3>1 DEF Half, Fits, Drawn, Written, Place, Shown, Blank, Cells, Window, StartRow
    <3>3. StartRow(Len(texts) + 1)' = StartRow(Len(texts) + 1) /\ Cells' = Cells
      BY <3>1 DEF StartRow, Cells
    <3> QED BY <1>2, <3>1, <3>2, <3>3 DEF TermInv
  <2>5. CASE TerminalNext
    BY <2>1, <2>2, <2>3, <2>5 DEF TerminalNext
  <2> QED BY <1>2, <2>4, <2>5 DEF Next, vars
<1> QED BY <1>1, <1>2, PTL DEF Spec

\* Between two texts the screen is the picture of all that was written.
LEMMA PictureLemma == TermInv => PictureRight
<1> SUFFICES ASSUME TermInv, ~writing, Fits
             PROVE  terminal_buffer = Picture
  BY DEF TermInv, PictureRight, Fits
<1> DEFINE n == Len(texts)
           Shows(i, k) == i - StartRow(k) * VGA_WIDTH \in 0 .. Len(texts[k]) - 1
<1>1. texts \in Seq(Texts) /\ n \in Nat /\ DOMAIN texts = 1 .. n /\ Drawn
      /\ terminal_buffer = [i \in Cells |-> terminal_buffer[i]]
  BY DEF TermInv
<1>2. \A i : \A k \in 1 .. n : Shows(i, k) <=> Place(i, k) \in 0 .. Written(k) - 1
  BY DEF Place, Written
<1>3. ASSUME NEW i \in Cells PROVE terminal_buffer[i] = Picture[i]
  <2>1. Picture[i] =
            IF \E k \in DOMAIN texts : Shows(i, k)
            THEN make_vgaentry(texts[CHOOSE k \in DOMAIN texts : Shows(i, k)]
                     [i - StartRow(CHOOSE k \in DOMAIN texts : Shows(i, k)) * VGA_WIDTH + 1], Grey)
            ELSE Blank(i)
    BY <1>3 DEF Picture, Blank
  <2> HIDE DEF Shows
  <2>2. CASE \E k \in DOMAIN texts : Shows(i, k)
    <3> DEFINE k == CHOOSE k \in DOMAIN texts : Shows(i, k)
    <3>1. k \in 1 .. n /\ Shows(i, k)
      BY <1>1, <2>2
    <3> HIDE DEF k
    <3>2. terminal_buffer[i] = Shown(i, k)
      BY <1>1, <1>2, <1>3, <3>1 DEF Drawn
    <3> QED BY <2>1, <2>2, <3>2 DEF Shown, Place, k
  <2>3. CASE ~ \E k \in DOMAIN texts : Shows(i, k)
    <3>1. \A k \in DOMAIN texts : Place(i, k) \notin 0 .. Written(k) - 1
      BY <1>1, <1>2, <2>3
    <3> QED BY <1>1, <1>3, <2>1, <2>3, <3>1 DEF Drawn
  <2> QED BY <2>2, <2>3
<1>4. Picture = [i \in Cells |-> Picture[i]]
  BY DEF Picture
<1> QED BY <1>1, <1>3, <1>4, Zenon

\* Whatever the window and the texts, as long as they fit into it the screen shows them
\* all, one below the other (display.h).
THEOREM PictureIsRight == Spec => []PictureRight
BY TermInductive, PictureLemma, PTL

-----------------------------------------------------------------------------
(* The types.                                                              *)

\* The rows that the text being written still takes, the new row included.
RowsLeft == IF writing THEN ((terminal_column + Len(data)) \div VGA_WIDTH) + 1 ELSE 0

\* With no more than K rows for a text, terminal_row is below all the rows of the texts.
RowsInv(K) ==
    /\ Len(texts) <= MaxTexts
    /\ terminal_row + RowsLeft <= Len(texts) * K
    /\ terminal_buffer \in [Cells -> 0 .. UINT16_MAX]

\* No text takes more than K rows.
RowsUpTo(K) == \A text \in Texts : (Len(text) \div VGA_WIDTH) + 1 <= K

\* A row less is left when the column goes past the last one, none when it does not.
LEMMA RowsLeftLemma ==
    ASSUME NEW n \in Nat
    PROVE  /\ n < VGA_WIDTH => n \div VGA_WIDTH = 0
           /\ (VGA_WIDTH + n) \div VGA_WIDTH = (n \div VGA_WIDTH) + 1
<1>1. VGA_WIDTH \in Nat /\ VGA_WIDTH > 0
  BY TerminalAssumption
<1> DEFINE q == n \div VGA_WIDTH
           r == n % VGA_WIDTH
           p == (VGA_WIDTH + n) \div VGA_WIDTH
           d == (VGA_WIDTH + n) % VGA_WIDTH
<1>2. /\ q \in Nat /\ r \in 0 .. VGA_WIDTH - 1 /\ n = q * VGA_WIDTH + r
  BY <1>1, RowsOfText
<1>3. VGA_WIDTH + n \in Nat
  BY <1>1
<1>4. /\ p \in Nat /\ d \in 0 .. VGA_WIDTH - 1 /\ VGA_WIDTH + n = p * VGA_WIDTH + d
  BY <1>3, RowsOfText
<1> HIDE DEF q, r, p, d
<1>5. (q + 1) * VGA_WIDTH = q * VGA_WIDTH + VGA_WIDTH /\ q * VGA_WIDTH \in Nat
  BY <1>1, <1>2
<1>6. (q + 1) * VGA_WIDTH + r = p * VGA_WIDTH + d
  BY <1>1, <1>2, <1>4, <1>5
<1>7. q + 1 \in Nat
  BY <1>2
<1>8. q + 1 = p
  BY <1>1, <1>2, <1>4, <1>6, <1>7, RowUnique
<1>9. ASSUME n < VGA_WIDTH PROVE q = 0
  <2>1. 0 * VGA_WIDTH + n = q * VGA_WIDTH + r /\ n \in 0 .. VGA_WIDTH - 1
    BY <1>1, <1>2, <1>9
  <2> QED BY <1>1, <1>2, <2>1, RowUnique
<1> QED BY <1>8, <1>9 DEF q, p

\* There are rows left while a text is written, in this state or any other.
LEMMA RowsCount ==
    ASSUME NEW c \in Nat, NEW n \in Nat
    PROVE  ((c + n) \div VGA_WIDTH) + 1 \in Nat
<1>1. c + n \in Nat
  OBVIOUS
<1>2. (c + n) \div VGA_WIDTH \in Nat
  BY <1>1, RowsOfText
<1> QED BY <1>2

\* A character in the colour of the terminal fits a cell.
LEMMA EntryLemma ==
    ASSUME NEW c \in Nat, c <= 127
    PROVE  make_vgaentry(c, Grey) \in 0 .. UINT16_MAX
<1>1. make_vgaentry(c, Grey) = c + (7 + 0 * 16) * 256
  BY DEF make_vgaentry, Grey, make_color, COLOR_LIGHT_GREY, COLOR_BLACK
<1>2. c + (7 + 0 * 16) * 256 \in Nat /\ c + (7 + 0 * 16) * 256 <= 65535
  OBVIOUS
<1>3. UINT16_MAX \in Nat /\ 65535 <= UINT16_MAX
  BY DEF UINT16_MAX
<1>4. make_vgaentry(c, Grey) \in Nat /\ make_vgaentry(c, Grey) <= UINT16_MAX
  BY <1>1, <1>2, <1>3
<1> QED BY <1>3, <1>4

\* The head of a sequence and the length of its tail.
LEMMA HeadLemma ==
    ASSUME NEW S, NEW s \in Seq(S), s # <<>>
    PROVE  Head(s) \in S /\ Len(s) \in Nat /\ Len(s) > 0 /\ Len(Tail(s)) = Len(s) - 1
OBVIOUS

\* The screen is cleared to start with.
LEMMA InitRows ==
    ASSUME NEW K \in Nat, terminal_initialize
    PROVE  RowsInv(K)
<1>1. /\ terminal_row = 0 /\ writing = FALSE /\ texts = <<>> /\ Len(<<>>) = 0
      /\ terminal_buffer = [i \in Cells |-> IF i \in Window THEN make_vgaentry(Space, Grey) ELSE 0]
  BY DEF terminal_initialize
<1>2. make_vgaentry(Space, Grey) \in 0 .. UINT16_MAX /\ 0 \in 0 .. UINT16_MAX
  <2>1. Space \in Nat /\ Space <= 127
    BY DEF Space
  <2>2. make_vgaentry(Space, Grey) \in 0 .. UINT16_MAX
    BY <2>1, EntryLemma
  <2>3. UINT16_MAX \in Nat
    BY DEF UINT16_MAX
  <2> QED BY <2>2, <2>3
<1>3. terminal_buffer \in [Cells -> 0 .. UINT16_MAX]
  <2> HIDE DEF make_vgaentry
  <2> QED BY <1>1, <1>2
<1>4. 0 * K = 0 /\ 0 <= MaxTexts
  BY TerminalAssumption
<1> QED BY <1>1, <1>3, <1>4 DEF RowsInv, RowsLeft

\* A call of terminal_writestring brings at most K rows.
LEMMA WriteRows ==
    ASSUME NEW K \in Nat, RowsUpTo(K),
           TermInv, RowsInv(K), NEW text \in Texts, WriteString(text)
    PROVE  RowsInv(K)'
<1>1. /\ ~writing /\ Len(texts) < MaxTexts /\ writing' = TRUE /\ data' = text
      /\ texts' = Append(texts, text)
      /\ terminal_row' = terminal_row /\ terminal_column' = terminal_column
      /\ terminal_buffer' = terminal_buffer
  BY DEF WriteString
<1>2. PICK n \in Nat : n = Len(texts)
  BY DEF TermInv
<1>3. Len(texts') = n + 1 /\ terminal_column = 0 /\ terminal_row \in Nat
  BY <1>1, <1>2 DEF TermInv
<1>4. Len(text) \in Nat /\ (Len(text) \div VGA_WIDTH) + 1 <= K /\ Len(text) \div VGA_WIDTH \in Nat
  <2>1. Len(text) \in Nat
    BY TerminalAssumption
  <2> QED BY <2>1, RowsOfText DEF RowsUpTo
<1>5. RowsLeft' = (Len(text) \div VGA_WIDTH) + 1
  <2>1. terminal_column' + Len(data') = Len(text)
    BY <1>1, <1>3, <1>4
  <2> QED BY <1>1, <2>1 DEF RowsLeft
<1>6. RowsLeft = 0 /\ terminal_row <= n * K
  <2>1. RowsLeft = 0
    BY <1>1 DEF RowsLeft
  <2> QED BY <1>2, <1>3, <2>1 DEF RowsInv
<1>7. (n + 1) * K = n * K + K /\ n * K \in Nat
  OBVIOUS
<1>8. terminal_row' + RowsLeft' <= Len(texts') * K
  BY <1>1, <1>3, <1>4, <1>5, <1>6, <1>7
<1>9. Len(texts') <= MaxTexts /\ Cells' = Cells
  BY <1>1, <1>2, <1>3, TerminalAssumption DEF Cells
<1> QED BY <1>1, <1>8, <1>9 DEF RowsInv

\* A character goes to the next column, or to the next row and takes one of those left.
LEMMA PutCharRows ==
    ASSUME NEW K \in Nat, TermInv, RowsInv(K), PutChar
    PROVE  RowsInv(K)'
<1>1. /\ writing /\ data # <<>> /\ data' = Tail(data) /\ writing' = writing /\ texts' = texts
      /\ terminal_buffer' = [terminal_buffer EXCEPT
             ![terminal_row * VGA_WIDTH + terminal_column] =
                 make_vgaentry(Head(data), terminal_color)]
      /\ IF terminal_column + 1 = VGA_WIDTH
         THEN terminal_column' = 0 /\ terminal_row' \in {0, terminal_row + 1}
         ELSE terminal_column' = terminal_column + 1 /\ terminal_row' = terminal_row
  BY DEF PutChar, Wraps
<1>2. /\ data \in Seq(1 .. 127) /\ terminal_color = Grey
      /\ terminal_row \in Nat /\ terminal_column \in 0 .. VGA_WIDTH - 1
      /\ texts \in Seq(Texts) /\ VGA_WIDTH \in Nat /\ VGA_WIDTH > 0
  BY TerminalAssumption DEF TermInv
<1>3. PICK m \in Nat : Len(data) = m + 1 /\ Len(data') = m /\ Head(data) \in 1 .. 127
  <2>1. Len(data) \in Nat /\ Len(data) > 0 /\ Len(Tail(data)) = Len(data) - 1
        /\ Head(data) \in 1 .. 127
    <3>1. data # <<>> /\ data \in Seq(1 .. 127)
      BY <1>1, <1>2
    <3> QED BY <3>1, HeadLemma
  <2>2. Len(data) - 1 \in Nat /\ Len(data) = (Len(data) - 1) + 1
    BY <2>1
  <2> QED BY <1>1, <2>1, <2>2
<1>4. make_vgaentry(Head(data), terminal_color) \in 0 .. UINT16_MAX
  <2>1. Head(data) \in Nat /\ Head(data) <= 127
    <3>1. \A n \in Nat : \A c \in 1 .. n : c \in Nat /\ c <= n
      OBVIOUS
    <3> QED BY <1>3, <3>1, Zenon
  <2> QED BY <1>2, <2>1, EntryLemma, Zenon
<1>5. terminal_buffer' \in [Cells -> 0 .. UINT16_MAX] /\ Cells' = Cells
  <2>1. terminal_buffer \in [Cells -> 0 .. UINT16_MAX]
    BY DEF RowsInv
  <2>2. terminal_buffer' \in [Cells -> 0 .. UINT16_MAX]
    BY <1>1, <1>4, <2>1
  <2> QED BY <2>2 DEF Cells
<1>6. terminal_row' + RowsLeft' <= terminal_row + RowsLeft
  <2>1. CASE terminal_column + 1 = VGA_WIDTH
    <3>1. terminal_column + Len(data) = VGA_WIDTH + m /\ terminal_column' + Len(data') = m
      BY <1>1, <1>2, <1>3, <2>1
    <3>2. RowsLeft = ((VGA_WIDTH + m) \div VGA_WIDTH) + 1 /\ RowsLeft' = (m \div VGA_WIDTH) + 1
      BY <1>1, <3>1 DEF RowsLeft
    <3>3. (VGA_WIDTH + m) \div VGA_WIDTH = (m \div VGA_WIDTH) + 1 /\ m \div VGA_WIDTH \in Nat
      BY RowsLeftLemma, RowsOfText
    <3>4. RowsLeft' \in Nat /\ RowsLeft = RowsLeft' + 1
      BY <3>2, <3>3
    <3>5. terminal_row' = 0 \/ terminal_row' = terminal_row + 1
      BY <1>1, <2>1
    <3> QED BY <1>2, <3>4, <3>5
  <2>2. CASE terminal_column + 1 # VGA_WIDTH
    <3>1. terminal_column' = terminal_column + 1 /\ terminal_row' = terminal_row
      BY <1>1, <2>2
    <3>2. PICK c \in Nat : terminal_column = c
      BY <1>2
    <3>3. terminal_column + Len(data) = terminal_column' + Len(data')
      <4>1. c + (m + 1) = (c + 1) + m
        BY <3>2
      <4> QED BY <1>3, <3>1, <3>2, <4>1
    <3>4. RowsLeft' = RowsLeft
      BY <1>1, <3>3 DEF RowsLeft
    <3>5. RowsLeft \in Nat
      <4>1. RowsLeft = ((terminal_column + Len(data)) \div VGA_WIDTH) + 1
        BY <1>1 DEF RowsLeft
      <4>2. terminal_column \in Nat /\ Len(data) \in Nat
        BY <1>3, <3>2
      <4> QED BY <4>1, <4>2, RowsCount
    <3> QED BY <1>2, <3>1, <3>4, <3>5
  <2> QED BY <2>1, <2>2
<1>7. terminal_row + RowsLeft <= Len(texts) * K /\ Len(texts) \in Nat
  BY <1>2 DEF RowsInv
<1>8. Len(texts) * K \in Nat /\ terminal_row' + RowsLeft' \in Nat /\ terminal_row + RowsLeft \in Nat
  <2>1. /\ terminal_column \in Nat /\ terminal_column' \in Nat /\ terminal_row' \in Nat
        /\ Len(data) \in Nat /\ Len(data') \in Nat
    <3>1. terminal_column' = 0 \/ terminal_column' = terminal_column + 1
      BY <1>1
    <3>2. terminal_row' \in {0, terminal_row + 1, terminal_row}
      BY <1>1
    <3>3. terminal_column \in Nat /\ terminal_row \in Nat
      BY <1>2
    <3>4. Len(data) \in Nat /\ Len(data') \in Nat
      BY <1>3
    <3> QED BY <3>1, <3>2, <3>3, <3>4
  <2>2. RowsLeft \in Nat /\ RowsLeft' \in Nat
    BY <1>1, <2>1, RowsCount DEF RowsLeft
  <2>3. \A i, k \in Nat : i + k \in Nat /\ i * k \in Nat
    OBVIOUS
  <2> QED BY <1>2, <1>7, <2>1, <2>2, <2>3
<1>9. terminal_row' + RowsLeft' <= Len(texts) * K
  BY <1>6, <1>7, <1>8
<1>10. Len(texts') <= MaxTexts /\ Len(texts') * K = Len(texts) * K
  BY <1>1 DEF RowsInv
<1> QED BY <1>5, <1>9, <1>10 DEF RowsInv

\* The new row at the end of a string is the one that was left.
LEMMA NewRowRows ==
    ASSUME NEW K \in Nat, TermInv, RowsInv(K), NewRow
    PROVE  RowsInv(K)'
<1>1. /\ writing /\ data = <<>> /\ writing' = FALSE /\ texts' = texts
      /\ terminal_row' = terminal_row + 1 /\ terminal_buffer' = terminal_buffer
  BY DEF NewRow
<1>2. /\ terminal_row \in Nat /\ terminal_column \in 0 .. VGA_WIDTH - 1
      /\ VGA_WIDTH \in Nat /\ VGA_WIDTH > 0
  BY TerminalAssumption DEF TermInv
<1>3. RowsLeft = 1 /\ RowsLeft' = 0
  <2>1. Len(data) = 0 /\ terminal_column + Len(data) = terminal_column
        /\ terminal_column \in Nat /\ terminal_column < VGA_WIDTH
    BY <1>1, <1>2
  <2>2. terminal_column \div VGA_WIDTH = 0
    BY <2>1, RowsLeftLemma
  <2>3. RowsLeft = (terminal_column \div VGA_WIDTH) + 1
    BY <1>1, <2>1 DEF RowsLeft
  <2> QED BY <1>1, <2>2, <2>3 DEF RowsLeft
<1>4. terminal_row' + RowsLeft' = terminal_row + RowsLeft
  BY <1>1, <1>2, <1>3
<1>5. Len(texts') * K = Len(texts) * K /\ Cells' = Cells
  BY <1>1 DEF Cells
<1> QED BY <1>1, <1>4, <1>5 DEF RowsInv

\* A step of either system keeps the rows in bounds.
LEMMA NextRows ==
    ASSUME NEW K \in Nat, RowsUpTo(K),
           TermInv, RowsInv(K), [Next]_vars
    PROVE  RowsInv(K)'
<1>1. ASSUME NEW text \in Texts, WriteString(text) PROVE RowsInv(K)'
  BY <1>1, WriteRows
<1>2. CASE PutChar
  BY <1>2, PutCharRows
<1>3. CASE NewRow
  BY <1>3, NewRowRows
<1>4. CASE UNCHANGED terminal
  <2>1. /\ terminal_row' = terminal_row /\ terminal_column' = terminal_column
        /\ terminal_buffer' = terminal_buffer
        /\ data' = data /\ writing' = writing /\ texts' = texts
    BY <1>4 DEF terminal
  <2> QED BY <2>1 DEF RowsInv, RowsLeft, Cells
<1>5. CASE TerminalNext
  BY <1>1, <1>2, <1>3, <1>5 DEF TerminalNext
<1> QED BY <1>4, <1>5 DEF Next, vars

\* When all the rows of all the texts are in the video memory, so is terminal_row.
LEMMA TerminalTypes ==
    ASSUME NEW K \in Nat, MaxTexts * K <= Rows, TermInv, RowsInv(K)
    PROVE  TerminalTypeOK
<1>1. /\ terminal_row \in Nat /\ terminal_column \in 0 .. VGA_WIDTH - 1
      /\ terminal_color = Grey /\ data \in Seq(1 .. 127) /\ writing \in BOOLEAN
      /\ texts \in Seq(Texts) /\ MaxTexts \in Nat /\ Rows \in Nat
  BY TerminalAssumption DEF TermInv
<1>2. Grey \in 0 .. 255
  BY DEF Grey, make_color, COLOR_LIGHT_GREY, COLOR_BLACK
<1>3. PICK n \in Nat : n = Len(texts) /\ n <= MaxTexts
  BY <1>1 DEF RowsInv
<1>4. n * K <= MaxTexts * K /\ n * K \in Nat /\ MaxTexts * K \in Nat
  <2>1. K = 0 \/ K > 0
    OBVIOUS
  <2>2. CASE K = 0
    BY <1>1, <1>3, <2>2
  <2>3. CASE K > 0
    <3>1. MaxTexts \in Nat /\ n * K \in Nat /\ MaxTexts * K \in Nat
      BY <1>1
    <3> QED BY <1>3, <2>3, <3>1, Multiples
  <2> QED BY <2>1, <2>2, <2>3
<1>5. RowsLeft \in Nat
  <2>1. Len(data) \in Nat
    BY <1>1
  <2>2. terminal_column \in Nat
    BY <1>1, TerminalAssumption
  <2> QED BY <2>1, <2>2, RowsCount DEF RowsLeft
<1>6. terminal_row + RowsLeft <= n * K
  BY <1>3 DEF RowsInv
<1>7. terminal_row \in 0 .. Rows
  <2>1. \A i, k, a, b, c \in Nat : i + k <= a /\ a <= b /\ b <= c => i \in 0 .. c
    OBVIOUS
  <2>2. terminal_row \in Nat /\ Rows \in Nat
    BY <1>1
  <2> QED BY <1>4, <1>5, <1>6, <2>1, <2>2
<1> QED BY <1>1, <1>2, <1>7 DEF TerminalTypeOK, RowsInv

\* The walk over the map stays in the map, and memsz in a word.
LEMMA MemTypes == MemInv => MemTypeOK
<1> SUFFICES ASSUME MemInv PROVE MemTypeOK
  OBVIOUS
<1>1. regions \in Seq(Region) /\ memsz \in 0 .. Word - 1 /\ halted \in BOOLEAN
  BY DEF MemInv
<1>2. PICK n \in Nat : n = Len(regions)
  BY <1>1
<1>3. PICK k \in 0 .. n : WalkInv(k)
  BY <1>2 DEF MemInv
<1>4. k \in Nat /\ k <= n
  BY <1>3
<1>5. y \in {2} \cup 4 .. 4 + n
  BY <1>1, <1>3, <1>4 DEF WalkInv
<1>6. DOMAIN screen \subseteq {2} \cup 4 .. 3 + n
  BY <1>1, <1>3, <1>4 DEF WalkInv
<1>7. mmap \in 0 .. mmap_length
  <2>1. mmap = Offset(k + 1) /\ mmap_length = Offset(n + 1)
    BY <1>2, <1>3 DEF WalkInv, mmap_length
  <2>2. k + 1 \in 1 .. n + 1 /\ n + 1 \in 1 .. n + 1
    BY <1>4
  <2>3. Offset(k + 1) \in Nat /\ Offset(n + 1) \in Nat
    BY <1>1, <1>2, <2>2, OffsetsApart
  <2>4. CASE k = n
    BY <2>1, <2>3, <2>4
  <2>5. CASE k # n
    <3>1. k + 1 \in 1 .. (n + 1) - 1
      BY <1>4, <2>5
    <3>2. Offset(k + 1) < Offset(n + 1)
      BY <1>1, <1>2, <2>2, <3>1, OffsetsApart
    <3> QED BY <2>1, <2>3, <3>2
  <2> QED BY <2>4, <2>5
<1> QED BY <1>1, <1>2, <1>5, <1>6, <1>7 DEF MemTypeOK

\* Every variable keeps its type, if the video memory has K rows for each text, the most
\* that one takes: nothing else keeps terminal_row in it (terminal_writestring).
THEOREM TypeCorrect ==
    ASSUME NEW K \in Nat, RowsUpTo(K), MaxTexts * K <= Rows
    PROVE  Spec => []TypeOK
<1>1. Init => RowsInv(K)
  BY InitRows DEF Init
<1>2. TermInv /\ RowsInv(K) /\ [Next]_vars => RowsInv(K)'
  BY NextRows
<1>3. TermInv /\ RowsInv(K) /\ MemInv => TypeOK
  BY TerminalTypes, MemTypes DEF TypeOK
<1> QED BY <1>1, <1>2, <1>3, TermInductive, MemInductive, PTL DEF Spec

=============================================================================
