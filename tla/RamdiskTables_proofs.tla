------------------------ MODULE RamdiskTables_proofs ------------------------
(***************************************************************************)
(* Proofs about RamdiskTables, for any processes and files and any number  *)
(* of tables.                                                              *)
(*                                                                         *)
(* Tables are taken in the order of their addresses and linked to tables   *)
(* taken before, so that a walk ends and a table that got lost never comes *)
(* back (LinksInv); a process that has not found its table keeps finding   *)
(* none until it links one (PidInv).  What a call knows of the tables it   *)
(* works on is CallsInv; whose fault an unfinished table is, UnfinishedInv; *)
(* why a table built alone is before all that may be cut off, AloneInv;    *)
(* what the copy of a table at rest has got so far, CalmInv.               *)
(***************************************************************************)
EXTENDS RamdiskTables, WellFoundedInduction, FiniteSetTheorems, SequenceTheorems, TLAPS

Objects == Files \cup {Root, Garbage, Junk}
Paths == Files \cup {Root, Garbage, Freed}
Pointers == Tables \cup {NULL}

Table == [state : {"used"}, pid : Procs, cur_path : Paths, objects : Seq(Objects),
          next : Pointers \cup {Garbage}]
GetCall == [last : Pointers, from : Pointers, new : Pointers,
            object : Nat \cup {Freed}, alone : BOOLEAN]
OpenCall == [own : Tables, file : Files]

Linked == {p \in Procs : pc[p] \in {"path", "head", "copy"}}
Opening == {p \in Procs : pc[p] \in {"open", "newpath"}}
Taken(t) == FDT[t].state # "none"

\* What the variables hold, by the position of each call.
TypeInv ==
    /\ FDT_list_head \in Pointers
    /\ FDT \in [Tables -> Table \cup {NoTable, FreedTable}]
    /\ alive \in SUBSET Procs
    /\ parent \in [Procs -> Procs \cup {Init_pid}]
    /\ pc \in [Procs -> {"user", "create", "fork", "path", "head", "copy", "open", "newpath"}]
    /\ call \in [Procs -> GetCall \cup OpenCall \cup {NoCall}]
    /\ \A p \in Building : call[p] \in GetCall
    /\ \A p \in Opening : call[p] \in OpenCall
    /\ \A p \in Procs : Inside(p) => p \in alive
    /\ module \in {"new", "entry", "loaded", "freed", "removed"}
    /\ fault \in BOOLEAN
    /\ alone \in SUBSET Tables
    /\ calm \in [Procs -> BOOLEAN]

\* The tables taken are the first ones; a link leads to one taken later, and no two links
\* lead to the same.
LinksInv ==
    /\ \A s, t \in Tables : s < t /\ Taken(t) => Taken(s)
    /\ FDT_list_head \in Tables => Used(FDT_list_head)
    /\ \A t \in Tables : Used(t) /\ FDT[t].next \in Tables =>
        /\ Used(FDT[t].next) /\ t < FDT[t].next
        /\ FDT[t].next # FDT_list_head
    /\ \A s, t \in Tables :
        Used(s) /\ Used(t) /\ FDT[s].next \in Tables /\ FDT[s].next = FDT[t].next => s = t

\* There is a table left for every call that is to take one.
FreshInv == IsFiniteSet(Linking) /\ Cardinality(Linking) <= Cardinality(Fresh)

\* The objects of a table are filled in but for the last one.
ObjectsInv ==
    \A t \in Tables : Used(t) =>
        /\ FDT[t].objects # <<>> => FDT[t].objects[1] = Root
        /\ \A i \in 1 .. Len(FDT[t].objects) - 1 : FDT[t].objects[i] # Garbage

\* The tables a call works on are of its process, but for the one it copies.
CallsInv ==
    /\ \A p \in Building :
        /\ call[p].last \in Tables => Taken(call[p].last)
        /\ call[p].from \in Tables => Taken(call[p].from)
        /\ pc[p] # "create" => call[p].from \in Tables
        /\ pc[p] # "copy" => call[p].object = 0
    /\ \A p \in Linked :
        /\ call[p].new \in Tables /\ Taken(call[p].new) /\ call[p].from < call[p].new
        /\ Used(call[p].new) =>
            /\ FDT[call[p].new].pid = p
            /\ IF pc[p] = "copy" THEN Len(FDT[call[p].new].objects) >= 2
               ELSE FDT[call[p].new].objects = <<>>
    /\ \A p \in Opening :
        /\ Taken(call[p].own)
        /\ Used(call[p].own) => FDT[call[p].own].pid = p /\ FDT[call[p].own].objects # <<>>

\* A process that has not found its table has none in the list, until it links one.
PidInv == OneTable /\ \A p \in Linking : \A t \in Listed : FDT[t].pid # p

\* A field that is not filled in, or leads nowhere, is so by a call that is inside.
UnfinishedInv ==
    \A t \in Tables : Used(t) =>
        /\ FDT[t].next = Garbage => \E q \in Linked : pc[q] = "path" /\ call[q].new = t
        /\ FDT[t].cur_path = Garbage => \E q \in Linked : pc[q] = "path" /\ call[q].new = t
        /\ FDT[t].cur_path = Freed => \E q \in Opening : pc[q] = "newpath" /\ call[q].own = t
        /\ FDT[t].objects = <<>> => \E q \in Linked : pc[q] # "copy" /\ call[q].new = t
        /\ FDT[t].objects # <<>> /\ FDT[t].objects[Len(FDT[t].objects)] = Garbage =>
              \E q \in Linked : pc[q] = "copy" /\ call[q].new = t

\* Before the entry in proc there is nothing, and up to free_FDT nothing is freed.
ModuleInv ==
    /\ module = "new" => alone = {} /\ \A p \in Procs : ~Inside(p)
    /\ module \in {"new", "entry", "loaded"} => \A t \in Tables : FDT[t].state # "freed"

\* A table built alone lies before the place where any call will link.
AloneInv ==
    /\ AloneKept
    /\ \A t \in alone : Taken(t)
    /\ ~fault => \A p \in Building : call[p].alone =>
        /\ Serving /\ Building = {p}
        /\ p \in Linking /\ call[p].last \in Tables => call[p].last \in Listed
        /\ p \in Linked => call[p].new \in Listed
    /\ Serving => \A t \in alone :
        /\ \A p \in Linking : call[p].last \in Tables /\ t <= call[p].last
        /\ \A p \in Linked : pc[p] = "path" => t < call[p].new

\* The table that process p copies is nobody's work, and what is copied so far is the same.
AtRest(p) ==
    /\ \A q \in Linked : call[q].new # call[p].from
    /\ \A q \in Opening : call[q].own # call[p].from
    /\ pc[p] \in {"head", "copy"} => FDT[call[p].new].cur_path = FDT[call[p].from].cur_path
    /\ pc[p] = "copy" =>
          LET i == call[p].object
              source == FDT[call[p].from].objects
              copied == FDT[call[p].new].objects
          IN  /\ i \in 1 .. Len(source) - 1
              /\ Len(copied) = i + 1
              /\ \A j \in 1 .. i : copied[j] = source[j]

\* calm tells that it is so.
CalmInv ==
    /\ \A p \in Procs : p \notin Copying => calm[p]
    /\ Serving => \A p \in Copying :
        /\ parent[p] # Init_pid => FDT[call[p].from].pid = parent[p]
        /\ calm[p] => AtRest(p)

IInv ==
    /\ TypeInv /\ LinksInv /\ FreshInv /\ ObjectsInv /\ CallsInv /\ PidInv
    /\ UnfinishedInv /\ ModuleInv /\ AloneInv /\ CalmInv

-----------------------------------------------------------------------------
\* A set of numbers has a least element, and Min is it.
LEMMA MinLemma ==
    ASSUME NEW S \in SUBSET Nat, S # {}
    PROVE  Min(S) \in S /\ \A x \in S : Min(S) <= x
<1>1. PICK n \in S : \A m \in S : <<m, n>> \notin OpToRel(<, Nat)
  BY WFMin, NatLessThanWellFounded
<1>2. \A m \in S : ~(m < n)
  BY <1>1, Zenon DEF OpToRel
<1>3. \A m \in S : n <= m
  BY <1>2
<1> QED BY <1>3 DEF Min

\* A bounded one has a greatest.
LEMMA MaxLemma ==
    ASSUME NEW n \in Nat, NEW S \in SUBSET (0 .. n), S # {}
    PROVE  Max(S) \in S
<1> DEFINE D == {m \in Nat : n - m \in S}
<1>1. D # {} /\ D \in SUBSET Nat
  <2>1. PICK x \in S : TRUE
    OBVIOUS
  <2>2. n - x \in D
    BY <2>1
  <2> QED BY <2>2
<1>2. Min(D) \in D /\ \A m \in D : Min(D) <= m
  BY <1>1, MinLemma
<1> DEFINE x == n - Min(D)
<1>3. x \in S
  BY <1>2
<1>4. \A y \in S : x >= y
  <2> SUFFICES ASSUME NEW y \in S PROVE x >= y
    OBVIOUS
  <2>1. n - y \in D
    OBVIOUS
  <2>2. Min(D) <= n - y
    BY <1>2, <2>1
  <2> QED BY <1>2, <2>2
<1> QED BY <1>3, <1>4 DEF Max

-----------------------------------------------------------------------------
(* The walk along the list.                                                *)

\* f is the walk up to its step n.
Walk(f, n) ==
    f = [k \in 0 .. n |->
            IF k = 0 THEN FDT_list_head
            ELSE IF Used(f[k - 1]) THEN FDT[f[k - 1]].next ELSE f[k - 1]]

\* At is a walk, for there is one of every length.
LEMMA AtLemma ==
    /\ At[0] = FDT_list_head
    /\ \A k \in 1 .. MaxTables :
        At[k] = IF Used(At[k - 1]) THEN FDT[At[k - 1]].next ELSE At[k - 1]
<1>1. MaxTables \in Nat
  BY TablesAssumption
<1> DEFINE S == {n \in Nat : ~ \E f : Walk(f, n)}
<1>2. S = {}
  <2> SUFFICES ASSUME S # {} PROVE FALSE
    OBVIOUS
  <2>1. Min(S) \in S /\ \A m \in S : Min(S) <= m
    BY MinLemma
  <2> DEFINE n == Min(S)
  <2>2. n \in Nat /\ ~ \E f : Walk(f, n)
    BY <2>1
  <2>3. CASE n = 0
    <3>1. Walk([k \in 0 .. 0 |-> FDT_list_head], 0)
      BY DEF Walk
    <3> QED BY <2>2, <2>3, <3>1
  <2>4. CASE n # 0
    <3>1. n - 1 \in Nat /\ n - 1 \notin S
      <4> HIDE DEF S
      <4>1. n \in Nat /\ \A m \in S : n <= m
        BY <2>1, <2>2
      <4> HIDE DEF n
      <4> QED BY <2>4, <4>1
    <3>2. PICK f : Walk(f, n - 1)
      BY <3>1
    <3> DEFINE last == IF Used(f[n - 1]) THEN FDT[f[n - 1]].next ELSE f[n - 1]
               g == [k \in 0 .. n |-> IF k < n THEN f[k] ELSE last]
    <3> HIDE DEF n
    <3>3. \A k \in 0 .. n - 1 :
            f[k] = IF k = 0 THEN FDT_list_head
                   ELSE IF Used(f[k - 1]) THEN FDT[f[k - 1]].next ELSE f[k - 1]
      BY <3>2 DEF Walk
    <3>4. \A k \in 0 .. n :
            g[k] = IF k = 0 THEN FDT_list_head
                   ELSE IF Used(g[k - 1]) THEN FDT[g[k - 1]].next ELSE g[k - 1]
      BY <2>2, <2>4, <3>3
    <3>5. g = [k \in 0 .. n |->
                IF k = 0 THEN FDT_list_head
                ELSE IF Used(g[k - 1]) THEN FDT[g[k - 1]].next ELSE g[k - 1]]
      BY <3>4
    <3>6. Walk(g, n)
      BY <3>5 DEF Walk
    <3> QED BY <2>2, <3>6
  <2> QED BY <2>3, <2>4
<1>3. At = CHOOSE f : Walk(f, MaxTables)
  BY DEF At, Walk
<1>4. Walk(At, MaxTables)
  BY <1>1, <1>2, <1>3
<1> QED BY <1>1, <1>4 DEF Walk

\* The walk passes tables in the order of their addresses, so that it ends.
LEMMA WalkLemma ==
    ASSUME TypeInv, LinksInv
    PROVE  /\ \A k \in 0 .. MaxTables :
                /\ At[k] \in Pointers \cup {Garbage}
                /\ At[k] \in Tables => Used(At[k])
           /\ \A k \in 0 .. MaxTables : \A j \in 0 .. k - 1 :
                At[k] \in Tables => At[j] \in Tables /\ At[j] < At[k]
           /\ At[MaxTables] \notin Tables
<1>1. MaxTables \in Nat /\ Tables = 1 .. MaxTables /\ NULL \notin Tables /\ Garbage \notin Tables
  BY TablesAssumption DEF Tables, NULL, Garbage
<1>2. \A t \in Tables : Used(t) =>
        /\ FDT[t].next \in Pointers \cup {Garbage}
        /\ FDT[t].next \in Tables => Used(FDT[t].next) /\ t < FDT[t].next
  BY DEF TypeInv, LinksInv, Used, Table, NoTable, FreedTable
<1>3. \A x : Used(x) => x \in Tables
  BY DEF Used
<1> DEFINE OK(k) ==
             /\ At[k] \in Pointers \cup {Garbage}
             /\ At[k] \in Tables => Used(At[k]) /\ At[k] >= k + 1
             /\ \A j \in 0 .. k - 1 : At[k] \in Tables => At[j] \in Tables /\ At[j] < At[k]
           Bad == {k \in 0 .. MaxTables : ~OK(k)}
<1>4. Bad = {}
  <2> SUFFICES ASSUME Bad # {} PROVE FALSE
    OBVIOUS
  <2> DEFINE k == Min(Bad)
  <2>1. k \in Bad /\ \A m \in Bad : k <= m
    <3>1. Bad \in SUBSET Nat
      BY <1>1
    <3> HIDE DEF Bad
    <3> QED BY <3>1, MinLemma
  <2> HIDE DEF k
  <2>2. k \in 0 .. MaxTables /\ ~OK(k)
    BY <2>1
  <2>3. CASE k = 0
    <3>1. At[k] = FDT_list_head /\ FDT_list_head \in Pointers
      BY <2>3, AtLemma DEF TypeInv
    <3>2. At[k] \in Tables => Used(At[k]) /\ At[k] >= k + 1
      BY <1>1, <2>3, <3>1 DEF LinksInv
    <3> QED BY <2>2, <2>3, <3>1, <3>2
  <2>4. CASE k # 0
    <3> DEFINE j == k - 1
    <3>1. j \in 0 .. MaxTables /\ k \in 1 .. MaxTables /\ k = j + 1
      BY <1>1, <2>2, <2>4
    <3>2. OK(j)
      <4>1. j \notin Bad
        <5> HIDE DEF Bad
        <5> QED BY <1>1, <2>1, <2>2, <3>1
      <4> HIDE DEF OK
      <4> QED BY <3>1, <4>1
    <3>3. At[k] = IF Used(At[j]) THEN FDT[At[j]].next ELSE At[j]
      BY <3>1, AtLemma
    <3> HIDE DEF j
    <3>4. CASE Used(At[j])
      <4>1. At[j] \in Tables /\ At[k] = FDT[At[j]].next /\ At[j] >= j + 1
        BY <1>3, <3>2, <3>3, <3>4
      <4>2. At[k] \in Tables => Used(At[k]) /\ At[j] < At[k]
        BY <1>2, <3>4, <4>1
      <4>3. At[k] \in Tables => At[k] >= k + 1
        BY <1>1, <3>1, <4>1, <4>2
      <4>4. ASSUME NEW i \in 0 .. k - 1, At[k] \in Tables
            PROVE  At[i] \in Tables /\ At[i] < At[k]
        <5>1. CASE i = j
          BY <4>1, <4>2, <4>4, <5>1
        <5>2. CASE i # j
          <6>1. i \in 0 .. j - 1
            BY <3>1, <5>2
          <6>2. At[i] \in Tables /\ At[i] < At[j]
            BY <3>2, <4>1, <6>1
          <6> QED BY <1>1, <4>1, <4>2, <4>4, <6>2
        <5> QED BY <5>1, <5>2
      <4> QED BY <1>2, <2>2, <3>4, <4>1, <4>2, <4>3, <4>4
    <3>5. CASE ~Used(At[j])
      <4>1. At[k] = At[j] /\ At[j] \notin Tables
        BY <3>2, <3>3, <3>5
      <4> QED BY <2>2, <3>2, <4>1
    <3> QED BY <3>4, <3>5
  <2> QED BY <2>3, <2>4
<1>5. \A k \in 0 .. MaxTables : OK(k)
  BY <1>4
<1>6. At[MaxTables] \notin Tables
  BY <1>1, <1>5
<1> QED BY <1>5, <1>6

\* Listed is what the links lead to from the head, and nothing else.
ListFacts ==
    /\ Listed \subseteq Tables
    /\ \A t \in Listed : Used(t)
    /\ FDT_list_head \in Tables => FDT_list_head \in Listed
    /\ \A t \in Listed : FDT[t].next \in Tables => FDT[t].next \in Listed
    /\ \A S : /\ FDT_list_head \in Tables => FDT_list_head \in S
              /\ \A t \in S \cap Listed : FDT[t].next \in Tables => FDT[t].next \in S
              => Listed \subseteq S

LEMMA ListLemma == TypeInv /\ LinksInv => ListFacts
<1> SUFFICES ASSUME TypeInv, LinksInv PROVE ListFacts
  OBVIOUS
<1>1. MaxTables \in Nat /\ Listed \subseteq Tables
  BY TablesAssumption DEF Listed
<1>2. \A t \in Listed : \E k \in 0 .. MaxTables : t = At[k]
  BY DEF Listed
<1>3. \A k \in 0 .. MaxTables : At[k] \in Tables => At[k] \in Listed /\ Used(At[k])
  BY WalkLemma DEF Listed
<1>4. \A t \in Listed : Used(t)
  BY <1>1, <1>2, <1>3
<1>5. FDT_list_head \in Tables => FDT_list_head \in Listed
  BY <1>1, <1>3, AtLemma
<1>6. ASSUME NEW t \in Listed, FDT[t].next \in Tables PROVE FDT[t].next \in Listed
  <2>1. PICK k \in 0 .. MaxTables : t = At[k]
    BY <1>2
  <2>2. k # MaxTables
    BY <1>1, <2>1, WalkLemma
  <2>3. k + 1 \in 1 .. MaxTables /\ k + 1 - 1 = k
    BY <1>1, <2>2
  <2>4. At[k + 1] = FDT[t].next
    BY <1>4, <2>1, <2>3, AtLemma
  <2> QED BY <1>1, <1>3, <1>6, <2>3, <2>4
<1>7. ASSUME NEW S, FDT_list_head \in Tables => FDT_list_head \in S,
             \A t \in S \cap Listed : FDT[t].next \in Tables => FDT[t].next \in S
      PROVE  Listed \subseteq S
  <2> DEFINE Bad == {k \in 0 .. MaxTables : At[k] \in Tables /\ At[k] \notin S}
  <2>1. Bad = {}
    <3> SUFFICES ASSUME Bad # {} PROVE FALSE
      OBVIOUS
    <3> DEFINE k == Min(Bad)
    <3>1. k \in Bad /\ \A m \in Bad : k <= m
      <4>1. Bad \in SUBSET Nat
        BY <1>1
      <4> HIDE DEF Bad
      <4> QED BY <4>1, MinLemma
    <3> HIDE DEF k
    <3>2. k \in 0 .. MaxTables /\ At[k] \in Tables /\ At[k] \notin S
      BY <3>1
    <3>3. k # 0
      BY <1>7, <3>2, AtLemma
    <3>4. k \in 1 .. MaxTables /\ k - 1 \in 0 .. MaxTables /\ k - 1 \in 0 .. k - 1 /\ k - 1 < k
      BY <1>1, <3>2, <3>3
    <3>5. At[k - 1] \in Tables /\ Used(At[k - 1])
      BY <3>2, <3>4, WalkLemma
    <3>6. At[k] = FDT[At[k - 1]].next
      BY <3>4, <3>5, AtLemma
    <3>7. At[k - 1] \in S
      <4>1. k - 1 \notin Bad
        <5> HIDE DEF Bad
        <5> QED BY <1>1, <3>1, <3>2, <3>4
      <4> QED BY <3>4, <3>5, <4>1
    <3>8. At[k - 1] \in Listed
      BY <1>3, <3>4, <3>5
    <3> QED BY <1>7, <3>2, <3>6, <3>7, <3>8
  <2> QED BY <1>1, <1>2, <2>1
<1> QED BY <1>1, <1>4, <1>5, <1>6, <1>7 DEF ListFacts

\* Where the walk of a process ends: at its own table, or behind all tables, none of them
\* its own, or at a link that is not filled in.
LEMMA OwnLemma ==
    ASSUME TypeInv, LinksInv, NEW p \in Procs
    PROVE  /\ Own(p) \in Tables => Own(p) \in Listed /\ Used(Own(p)) /\ FDT[Own(p)].pid = p
           /\ Own(p) \notin Tables =>
                /\ \A t \in Listed : FDT[t].pid # p /\ Before(p) \in Tables /\ t <= Before(p)
                /\ Before(p) \in Listed \cup {NULL}
                /\ OfParent(p) \in Listed \cup {NULL}
                /\ OfParent(p) # NULL => FDT[OfParent(p)].pid = parent[p]
                /\ Own(p) = NULL \/ \E t \in Listed : FDT[t].next = Garbage
<1> DEFINE Ends == {k \in 0 .. MaxTables : ~Used(At[k]) \/ IsOwn(At[k], p)}
           n == Steps(p)
<1>1. MaxTables \in Nat /\ (\A x : Used(x) => x \in Tables) /\ NULL \notin Tables
  BY TablesAssumption DEF Used, Tables, NULL
<1>2. n \in Ends /\ \A m \in Ends : n <= m
  <2>1. Ends \in SUBSET Nat /\ MaxTables \in Ends
    BY <1>1, WalkLemma
  <2> HIDE DEF Ends
  <2> QED BY <2>1, MinLemma DEF Steps, Ends
<1> HIDE DEF n
<1>3. n \in 0 .. MaxTables /\ (~Used(At[n]) \/ IsOwn(At[n], p)) /\ Own(p) = At[n]
  BY <1>2 DEF Own, n
<1>4. \A j \in 0 .. n - 1 :
        /\ j \in 0 .. MaxTables /\ j + 1 \in 1 .. MaxTables /\ j + 1 - 1 = j
        /\ At[j] \in Tables /\ At[j] \in Listed /\ Used(At[j]) /\ FDT[At[j]].pid # p
  <2> SUFFICES ASSUME NEW j \in 0 .. n - 1
               PROVE  /\ j \in 0 .. MaxTables /\ j + 1 \in 1 .. MaxTables /\ j + 1 - 1 = j
                      /\ At[j] \in Tables /\ At[j] \in Listed /\ Used(At[j])
                      /\ FDT[At[j]].pid # p
    OBVIOUS
  <2>1. j \in 0 .. MaxTables /\ j + 1 \in 1 .. MaxTables /\ j < n
    BY <1>1, <1>3
  <2>2. j \notin Ends
    <3> HIDE DEF Ends
    <3> QED BY <1>1, <1>2, <1>3, <2>1
  <2>3. Used(At[j]) /\ FDT[At[j]].pid # p
    BY <2>1, <2>2 DEF IsOwn
  <2> QED BY <1>1, <2>1, <2>3 DEF Listed
<1>5. ASSUME Own(p) \in Tables
      PROVE  Own(p) \in Listed /\ Used(Own(p)) /\ FDT[Own(p)].pid = p
  BY <1>3, <1>5, WalkLemma DEF Listed, IsOwn
<1> DEFINE Passed == {At[j] : j \in 0 .. n - 1}
<1>6. ASSUME Own(p) \notin Tables PROVE Listed = Passed
  <2>1. FDT_list_head \in Tables => FDT_list_head \in Passed
    <3> SUFFICES ASSUME FDT_list_head \in Tables PROVE FDT_list_head \in Passed
      OBVIOUS
    <3>1. n # 0
      BY <1>3, <1>6, AtLemma
    <3>2. 0 \in 0 .. n - 1
      BY <1>1, <1>3, <3>1
    <3> QED BY <3>2, AtLemma
  <2>2. ASSUME NEW t \in Passed, FDT[t].next \in Tables PROVE FDT[t].next \in Passed
    <3>1. PICK j \in 0 .. n - 1 : t = At[j]
      OBVIOUS
    <3>2. At[j + 1] = FDT[t].next
      BY <1>4, <3>1, AtLemma
    <3>3. j + 1 # n
      BY <1>3, <1>6, <2>2, <3>2
    <3>4. j + 1 \in 0 .. n - 1
      BY <1>1, <1>3, <3>3
    <3> QED BY <3>2, <3>4
  <2>3. Passed \subseteq Listed
    BY <1>4
  <2> HIDE DEF Passed
  <2>4. Listed \subseteq Passed
    BY <2>1, <2>2, ListLemma DEF ListFacts
  <2> QED BY <2>3, <2>4
<1>7. ASSUME Own(p) \notin Tables, NEW t \in Listed
      PROVE  FDT[t].pid # p /\ Before(p) \in Tables /\ t <= Before(p)
  <2>1. PICK j \in 0 .. n - 1 : t = At[j]
    BY <1>6, <1>7
  <2>2. n - 1 \in 0 .. n - 1 /\ n # 0
    BY <1>1, <1>3
  <2>3. Before(p) = At[n - 1] /\ Before(p) \in Tables
    BY <1>4, <2>2 DEF Before, n
  <2>4. CASE j = n - 1
    <3>1. At[n - 1] \in Int
      BY <1>4, <2>2 DEF Tables
    <3> QED BY <1>4, <2>1, <2>3, <2>4, <3>1
  <2>5. CASE j # n - 1
    <3>1. j \in 0 .. n - 1 - 1 /\ n - 1 \in 0 .. MaxTables
      BY <1>1, <1>3, <2>5
    <3>2. At[j] < At[n - 1] /\ At[j] \in Int /\ At[n - 1] \in Int
      BY <1>4, <2>2, <3>1, WalkLemma DEF Tables
    <3> QED BY <1>4, <2>1, <2>3, <3>2
  <2> QED BY <2>4, <2>5
<1>8. ASSUME Own(p) \notin Tables PROVE Before(p) \in Listed \cup {NULL}
  <2>1. CASE n = 0
    BY <2>1 DEF Before, n
  <2>2. CASE n # 0
    <3>1. n - 1 \in 0 .. n - 1
      BY <1>1, <1>3, <2>2
    <3> QED BY <1>4, <2>2, <3>1 DEF Before, n
  <2> QED BY <2>1, <2>2
<1>9. /\ OfParent(p) \in Listed \cup {NULL}
      /\ OfParent(p) # NULL => FDT[OfParent(p)].pid = parent[p]
  <2> DEFINE ks == {k \in 0 .. n - 1 : FDT[At[k]].pid = parent[p]}
  <2>1. OfParent(p) = IF ks = {} THEN NULL ELSE At[Max(ks)]
    BY DEF OfParent, n
  <2>2. CASE ks # {}
    <3>1. ks \in SUBSET (0 .. MaxTables)
      BY <1>4
    <3>2. Max(ks) \in ks
      <4> HIDE DEF ks
      <4> QED BY <1>1, <2>2, <3>1, MaxLemma
    <3> HIDE DEF ks
    <3>3. OfParent(p) = At[Max(ks)]
      BY <2>1, <2>2
    <3> QED BY <1>4, <3>2, <3>3 DEF ks
  <2> QED BY <2>1, <2>2
<1>10. ASSUME Own(p) \notin Tables, Own(p) # NULL
       PROVE  \E t \in Listed : FDT[t].next = Garbage
  <2>1. At[n] = Garbage
    BY <1>3, <1>10, WalkLemma DEF Pointers
  <2>2. n # 0
    BY <2>1, AtLemma, TablesAssumption DEF TypeInv, Pointers, Tables, NULL, Garbage
  <2>3. n - 1 \in 0 .. n - 1 /\ n \in 1 .. MaxTables
    BY <1>1, <1>3, <2>2
  <2>4. At[n] = FDT[At[n - 1]].next /\ At[n - 1] \in Listed
    BY <1>4, <2>3, AtLemma
  <2> QED BY <2>1, <2>4
<1> QED BY <1>5, <1>7, <1>8, <1>9, <1>10

\* The same of the next state.
LEMMA ListLemmaNext == (TypeInv /\ LinksInv)' => ListFacts'
  BY ListLemma, PTL

\* What an address may hold.
LEMMA TableFacts ==
    ASSUME TypeInv
    PROVE  /\ MaxTables \in Nat /\ Tables = 1 .. MaxTables
           /\ NULL \notin Tables /\ Garbage \notin Tables /\ Freed \notin Tables
           /\ \A x : Used(x) => x \in Tables /\ FDT[x] \in Table /\ Taken(x)
           /\ \A t \in Tables : Used(t) <=> FDT[t].state = "used"
           /\ \A t \in Tables : ~Taken(t) => FDT[t] = NoTable
           /\ \A t \in Tables : Used(t) \/ FDT[t] = NoTable \/ FDT[t] = FreedTable
<1>1. /\ MaxTables \in Nat /\ Tables = 1 .. MaxTables
      /\ NULL \notin Tables /\ Garbage \notin Tables /\ Freed \notin Tables
  BY TablesAssumption DEF Tables, NULL, Garbage, Freed
<1>2. \A t \in Tables : FDT[t] \in Table \/ FDT[t] = NoTable \/ FDT[t] = FreedTable
  BY DEF TypeInv
<1>3. \A t \in Tables : Used(t) <=> FDT[t].state = "used"
  BY DEF Used
<1>4. \A x \in Table : x.state = "used"
  BY DEF Table
<1>5. NoTable.state = "none" /\ FreedTable.state = "freed"
  BY DEF NoTable, FreedTable
<1> QED BY <1>1, <1>2, <1>3, <1>4, <1>5 DEF Used, Taken

\* A step that changes no link leaves the list as it is.
LEMMA SameLinks ==
    ASSUME TypeInv, LinksInv, TypeInv', UNCHANGED FDT_list_head,
           \A t \in Tables : /\ FDT'[t].state = FDT[t].state
                             /\ Used(t) => FDT'[t].next = FDT[t].next
    PROVE  /\ LinksInv' /\ Listed' = Listed /\ Fresh' = Fresh
           /\ \A x : Used(x)' <=> Used(x)
           /\ \A t \in Tables : Taken(t)' <=> Taken(t)
<1>1. /\ \A x : Used(x)' <=> Used(x)
      /\ \A t \in Tables : Taken(t)' <=> Taken(t)
  BY DEF Used, Taken
<1>2. LinksInv'
  BY <1>1 DEF LinksInv
<1>3. Fresh' = Fresh
  BY DEF Fresh
<1>4. ListFacts /\ ListFacts'
  BY <1>2, ListLemma, ListLemmaNext
<1>5. Listed \subseteq Listed'
  BY <1>4 DEF ListFacts
<1>6. Listed' \subseteq Listed
  <2>1. FDT_list_head' \in Tables => FDT_list_head' \in Listed
    BY <1>4 DEF ListFacts
  <2>2. \A t \in Listed \cap Listed' : FDT'[t].next \in Tables => FDT'[t].next \in Listed
    BY <1>4 DEF ListFacts
  <2> QED BY <1>4, <2>1, <2>2 DEF ListFacts
<1> QED BY <1>1, <1>2, <1>3, <1>5, <1>6

\* A step that changes one link: what comes before it stays, and only the table it now
\* leads to is new in the list.
LEMMA OneLink ==
    ASSUME TypeInv, LinksInv, TypeInv', LinksInv', UNCHANGED FDT_list_head,
           NEW x \in Tables, Used(x),
           \A t \in Tables : Used(t) => Used(t)' /\ (t # x => FDT'[t].next = FDT[t].next),
           FDT'[x].next \in Tables => FDT'[FDT'[x].next].next \notin Tables
    PROVE  /\ Listed' \subseteq Listed \cup {FDT'[x].next}
           /\ \A t \in Listed : t <= x => t \in Listed'
           /\ x \in Listed /\ FDT'[x].next \in Tables => FDT'[x].next \in Listed'
<1>1. ListFacts /\ ListFacts' /\ MaxTables \in Nat /\ Tables = 1 .. MaxTables
  BY ListLemma, ListLemmaNext, TableFacts
<1> DEFINE y == FDT'[x].next
           S == Listed \cup {y}
           R == {t \in Listed : t > x \/ t \in Listed'}
<1>2. Listed' \subseteq S
  <2>1. FDT_list_head' \in Tables => FDT_list_head' \in S
    BY <1>1 DEF ListFacts
  <2>2. ASSUME NEW t \in S \cap Listed', FDT'[t].next \in Tables PROVE FDT'[t].next \in S
    <3>1. CASE t = x
      BY <3>1
    <3>2. CASE t # x
      <4>1. t \in Listed /\ t \in Tables /\ Used(t)
        BY <1>1, <2>2 DEF ListFacts
      <4> QED BY <1>1, <2>2, <3>2, <4>1 DEF ListFacts
    <3> QED BY <3>1, <3>2
  <2> HIDE DEF S
  <2> QED BY <1>1, <2>1, <2>2 DEF ListFacts
<1>3. Listed \subseteq R
  <2>1. FDT_list_head \in Tables => FDT_list_head \in R
    BY <1>1 DEF ListFacts
  <2>2. ASSUME NEW t \in R \cap Listed, FDT[t].next \in Tables PROVE FDT[t].next \in R
    <3>1. /\ FDT[t].next \in Listed /\ t \in Tables /\ Used(t)
          /\ t < FDT[t].next
      BY <1>1, <2>2 DEF ListFacts, LinksInv
    <3>2. CASE FDT[t].next > x
      BY <3>1, <3>2
    <3>3. CASE ~(FDT[t].next > x)
      <4>1. t < x /\ t \in Listed'
        BY <1>1, <2>2, <3>1, <3>3
      <4>2. FDT'[t].next = FDT[t].next
        BY <1>1, <3>1, <4>1
      <4> QED BY <1>1, <2>2, <3>1, <4>1, <4>2 DEF ListFacts
    <3> QED BY <3>2, <3>3
  <2> HIDE DEF R
  <2> QED BY <1>1, <2>1, <2>2 DEF ListFacts
<1>4. \A t \in Listed : t <= x => t \in Listed'
  BY <1>1, <1>3 DEF ListFacts
<1>5. x \in Listed /\ y \in Tables => y \in Listed'
  BY <1>1, <1>4 DEF ListFacts
<1> QED BY <1>2, <1>4, <1>5

-----------------------------------------------------------------------------
(* The steps.                                                              *)

\* Steps that only move the module on, faults, and stuttering.
LEMMA QuietPreserves ==
    ASSUME IInv,
           UNCHANGED <<FDT_list_head, FDT, alive, parent, pc, call, alone, calm>>,
           fault' \in BOOLEAN, fault => fault',
           \/ module' = module
           \/ module = "new" /\ module' = "entry"
           \/ module = "entry" /\ module' = "loaded"
           \/ module = "freed" /\ module' = "removed"
           \/ fault' /\ module' = "freed"
    PROVE  IInv'
<1>1. /\ UNCHANGED <<FDT_list_head, FDT, alive, parent, pc, call, alone, calm>>
      /\ Linking' = Linking /\ Linked' = Linked /\ Building' = Building
      /\ Copying' = Copying /\ Opening' = Opening
      /\ \A p \in Procs : Inside(p)' <=> Inside(p)
  BY DEF Linking, Linked, Building, Copying, Opening, Inside
<1>2. TypeInv'
  BY <1>1 DEF IInv, TypeInv
<1>3. /\ LinksInv' /\ Listed' = Listed /\ Fresh' = Fresh
      /\ \A x : Used(x)' <=> Used(x)
      /\ \A t \in Tables : Taken(t)' <=> Taken(t)
  BY <1>1, <1>2, SameLinks DEF IInv
<1>4. FreshInv' /\ ObjectsInv'
  BY <1>1, <1>3 DEF IInv, FreshInv, ObjectsInv
<1>5. CallsInv'
  BY <1>1, <1>3 DEF IInv, CallsInv, TypeInv, Building, Linked, Opening, Copying,
                    GetCall, OpenCall, Pointers
<1>6. PidInv' /\ UnfinishedInv' /\ ModuleInv'
  BY <1>1, <1>3 DEF IInv, PidInv, OneTable, UnfinishedInv, ModuleInv
<1>7. Serving' => Serving \/ module = "new"
  BY DEF Serving
<1>8. module = "new" => alone = {} /\ Building = {} /\ Copying = {}
  BY DEF IInv, ModuleInv, Inside, Building, Copying
<1>9. AloneInv'
  <2>1. AloneKept'
    <3>1. ~Serving' /\ ~fault' => ~Serving /\ ~fault
      BY DEF Serving
    <3> QED BY <1>1, <1>3, <1>7, <1>8, <3>1 DEF IInv, AloneInv, AloneKept
  <2>2. \A t \in alone' : Taken(t)'
    BY <1>1, <1>3 DEF IInv, AloneInv, TypeInv
  <2>3. ~fault' => ~fault /\ (Serving => Serving')
    BY DEF Serving
  <2>4. ~fault' => \A p \in Building' : call'[p].alone =>
            /\ Serving' /\ Building' = {p}
            /\ p \in Linking' /\ call'[p].last \in Tables => call'[p].last \in Listed'
            /\ p \in Linked' => call'[p].new \in Listed'
    BY <1>1, <1>3, <2>3 DEF IInv, AloneInv
  <2>5. Serving' => \A t \in alone' :
            /\ \A p \in Linking' : call'[p].last \in Tables /\ t <= call'[p].last
            /\ \A p \in Linked' : pc'[p] = "path" => t < call'[p].new
    BY <1>1, <1>7, <1>8 DEF IInv, AloneInv
  <2> QED BY <2>1, <2>2, <2>4, <2>5 DEF AloneInv
<1>10. CalmInv'
  BY <1>1, <1>7, <1>8 DEF IInv, CalmInv, AtRest
<1> QED BY <1>2, <1>3, <1>4, <1>5, <1>6, <1>9, <1>10 DEF IInv

\* A process that forks or exits is in no call, and so is its child.
LEMMA ProcessPreserves ==
    ASSUME IInv, NEW p \in Procs, Exit(p) \/ \E q \in Procs \cup {Init_pid} : Fork(q, p)
    PROVE  IInv'
<1>1. /\ UNCHANGED <<FDT_list_head, FDT, pc, call, module, fault, alone, calm>>
      /\ Linking' = Linking /\ Linked' = Linked /\ Building' = Building
      /\ Copying' = Copying /\ Opening' = Opening
      /\ \A q \in Procs : Inside(q)' <=> Inside(q)
      /\ Serving' <=> Serving
  BY DEF Exit, Fork, Linking, Linked, Building, Copying, Opening, Inside, Serving
<1>2. /\ \A q \in Procs : Inside(q) => q \in alive
      /\ ~Inside(p)
  BY DEF IInv, TypeInv, Exit, Fork
<1>3. /\ alive' \in SUBSET Procs
      /\ parent' \in [Procs -> Procs \cup {Init_pid}]
      /\ \A q \in Procs : Inside(q) => q \in alive' /\ parent'[q] \in {parent[q], Init_pid}
  <2>1. CASE Exit(p)
    BY <1>2, <2>1 DEF Exit, IInv, TypeInv
  <2>2. CASE \E q \in Procs \cup {Init_pid} : Fork(q, p)
    BY <1>2, <2>2 DEF Fork, IInv, TypeInv
  <2> QED BY <2>1, <2>2
<1>4. TypeInv'
  BY <1>1, <1>3 DEF IInv, TypeInv
<1>5. /\ LinksInv' /\ Listed' = Listed /\ Fresh' = Fresh
      /\ \A x : Used(x)' <=> Used(x)
      /\ \A t \in Tables : Taken(t)' <=> Taken(t)
  BY <1>1, <1>4, SameLinks DEF IInv
<1>6. FreshInv' /\ ObjectsInv'
  BY <1>1, <1>5 DEF IInv, FreshInv, ObjectsInv
<1>7. CallsInv'
  BY <1>1, <1>5 DEF IInv, CallsInv, TypeInv, Building, Linked, Opening, Copying,
                    GetCall, OpenCall, Pointers
<1>8. PidInv' /\ UnfinishedInv' /\ ModuleInv'
  BY <1>1, <1>5 DEF IInv, PidInv, OneTable, UnfinishedInv, ModuleInv
<1>9. AloneInv'
  BY <1>1, <1>5 DEF IInv, AloneInv, AloneKept, TypeInv
<1>10. CalmInv'
  <2>1. \A q \in Copying : Inside(q)
    BY DEF Copying, Inside
  <2>2. \A q \in Copying : parent'[q] # Init_pid => parent'[q] = parent[q]
    BY <1>3, <2>1 DEF Copying
  <2> QED BY <1>1, <2>2 DEF IInv, CalmInv, AtRest
<1> QED BY <1>4, <1>5, <1>6, <1>7, <1>8, <1>9, <1>10 DEF IInv

\* There are finitely many tables to take.
LEMMA FreshFacts ==
    ASSUME TypeInv, LinksInv
    PROVE  /\ IsFiniteSet(Fresh) /\ Cardinality(Fresh) \in Nat
           /\ Fresh # {} =>
                /\ new_FDT \in Tables /\ ~Taken(new_FDT)
                /\ \A t \in Tables : Taken(t) <=> t < new_FDT
<1>1. MaxTables \in Nat /\ Tables = 1 .. MaxTables
  BY TableFacts
<1>2. IsFiniteSet(Fresh) /\ Cardinality(Fresh) \in Nat
  <2>1. IsFiniteSet(Tables)
    BY <1>1, FS_Interval
  <2>2. IsFiniteSet(Fresh)
    BY <2>1, FS_Subset DEF Fresh
  <2> QED BY <2>2, FS_CardinalityType
<1>3. ASSUME Fresh # {}
      PROVE  /\ new_FDT \in Tables /\ ~Taken(new_FDT)
             /\ \A t \in Tables : Taken(t) <=> t < new_FDT
  <2>1. Fresh \in SUBSET Nat
    BY <1>1 DEF Fresh
  <2>2. new_FDT \in Fresh /\ \A t \in Fresh : new_FDT <= t
    BY <1>3, <2>1, MinLemma DEF new_FDT
  <2>3. new_FDT \in Tables /\ ~Taken(new_FDT)
    BY <2>2 DEF Fresh, Taken
  <2>4. ASSUME NEW t \in Tables PROVE Taken(t) <=> t < new_FDT
    <3>1. ~Taken(t) => new_FDT <= t
      BY <2>2 DEF Fresh, Taken
    <3>2. new_FDT < t => ~Taken(t)
      BY <2>3 DEF LinksInv
    <3> QED BY <1>1, <2>3, <3>1, <3>2
  <2> QED BY <2>3, <2>4
<1> QED BY <1>2, <1>3

\* A call that is not alone any more is otherwise the same.
LEMMA AloneField ==
    ASSUME NEW c \in GetCall, NEW d, d = [c EXCEPT !.alone = FALSE]
    PROVE  /\ d \in GetCall /\ ~d.alone
           /\ d.last = c.last /\ d.from = c.from /\ d.new = c.new /\ d.object = c.object
  BY DEF GetCall

\* The walk of get_FDT up to its first vmalloc: what it has seen is so.
LEMMA GetFDTPreserves ==
    ASSUME IInv, NEW p \in Procs, GetFDT(p)
    PROVE  IInv'
<1>1. CASE Own(p) # NULL
  <2>1. Oops
    BY <1>1 DEF GetFDT
  <2> QED BY <2>1, QuietPreserves DEF Oops
<1>2. CASE Own(p) = NULL
  <2> DEFINE to == IF OfParent(p) = NULL THEN "create" ELSE "fork"
             rec == [last |-> Before(p), from |-> OfParent(p), new |-> NULL, object |-> 0,
                     alone |-> Building = {} /\ Serving]
  <2>1. /\ ~fault /\ p \in alive /\ pc[p] = "user" /\ Callable
        /\ Cardinality(Linking) < Cardinality(Fresh)
        /\ pc' = [pc EXCEPT ![p] = to]
        /\ call' = [q \in Procs |->
              IF q = p THEN rec
              ELSE IF q \in Building THEN [call[q] EXCEPT !.alone = FALSE] ELSE call[q]]
        /\ calm' = [calm EXCEPT ![p] =
              OfParent(p) = NULL \/ \A q \in Procs : Inside(q) => q # parent[p]]
        /\ UNCHANGED <<FDT_list_head, FDT, alive, parent, module, fault, alone>>
    BY <1>2 DEF GetFDT, Moves, Inside
  <2>2. TypeInv /\ LinksInv /\ ListFacts
    BY ListLemma DEF IInv
  <2>3. /\ Own(p) \notin Tables /\ NULL \notin Tables
        /\ \A t \in Tables : Used(t) => Taken(t)
    BY <1>2, <2>2, TableFacts
  <2>4. /\ \A t \in Listed : FDT[t].pid # p /\ Before(p) \in Tables /\ t <= Before(p)
        /\ Before(p) \in Listed \cup {NULL}
        /\ OfParent(p) \in Listed \cup {NULL}
        /\ OfParent(p) # NULL => FDT[OfParent(p)].pid = parent[p]
    BY <2>2, <2>3, OwnLemma
  <2>5. /\ Before(p) \in Pointers /\ OfParent(p) \in Pointers
        /\ Before(p) \in Tables => Before(p) \in Listed /\ Taken(Before(p))
        /\ OfParent(p) \in Tables => Used(OfParent(p)) /\ Taken(OfParent(p))
        /\ OfParent(p) # NULL => OfParent(p) \in Tables
    BY <2>2, <2>3, <2>4 DEF ListFacts, Pointers
  <2>6. /\ Linking' = Linking \cup {p} /\ p \notin Linking
        /\ Building' = Building \cup {p} /\ p \notin Building
        /\ Linked' = Linked /\ p \notin Linked
        /\ Opening' = Opening /\ p \notin Opening
        /\ Copying' = IF OfParent(p) = NULL THEN Copying ELSE Copying \cup {p}
        /\ p \notin Copying
    <3>1. /\ pc'[p] = to /\ to \in {"create", "fork"} /\ (to = "fork" <=> OfParent(p) # NULL)
          /\ \A q \in Procs : q # p => pc'[q] = pc[q]
      BY <2>1, <2>2 DEF TypeInv
    <3> QED BY <2>1, <3>1 DEF Linking, Building, Linked, Opening, Copying
  <2>7. /\ call'[p] = rec
        /\ \A q \in Building : call'[q] = [call[q] EXCEPT !.alone = FALSE]
        /\ \A q \in Opening : call'[q] = call[q]
    BY <2>1, <2>6 DEF Building, Opening, Copying
  <2>8. /\ rec \in GetCall
        /\ rec.last = Before(p) /\ rec.from = OfParent(p)
        /\ rec.object = 0 /\ (rec.alone <=> Building = {} /\ Serving)
    BY <2>5 DEF GetCall, Pointers
  <2> HIDE DEF rec
  <2>9. /\ \A q \in Building : /\ call[q] \in GetCall /\ call'[q] \in GetCall
                               /\ call'[q].last = call[q].last /\ call'[q].from = call[q].from
                               /\ call'[q].new = call[q].new /\ call'[q].object = call[q].object
                               /\ ~call'[q].alone
        /\ Linked \subseteq Building /\ Copying \subseteq Building /\ Linking \subseteq Building
    <3>1. Linked \subseteq Building /\ Copying \subseteq Building /\ Linking \subseteq Building
      BY DEF Linked, Copying, Building, Linking
    <3>2. ASSUME NEW q \in Building
          PROVE  /\ call[q] \in GetCall /\ call'[q] \in GetCall
                 /\ call'[q].last = call[q].last /\ call'[q].from = call[q].from
                 /\ call'[q].new = call[q].new /\ call'[q].object = call[q].object
                 /\ ~call'[q].alone
      <4>1. call[q] \in GetCall /\ call'[q] = [call[q] EXCEPT !.alone = FALSE]
        BY <2>2, <2>7 DEF TypeInv
      <4> QED BY <4>1, AloneField
    <3> QED BY <3>1, <3>2
  <2>10. TypeInv'
    <3>1. call' \in [Procs -> GetCall \cup OpenCall \cup {NoCall}]
      BY <2>1, <2>2, <2>8, <2>9 DEF TypeInv
    <3>2. \A q \in Procs : Inside(q)' => q \in alive'
      BY <2>1, <2>2 DEF TypeInv, Inside
    <3>3. \A q \in Building' : call'[q] \in GetCall
      BY <2>6, <2>7, <2>8, <2>9
    <3>4. \A q \in Opening' : call'[q] \in OpenCall
      BY <2>2, <2>6, <2>7 DEF TypeInv
    <3> QED BY <2>1, <2>2, <3>1, <3>2, <3>3, <3>4 DEF TypeInv
  <2>11. /\ LinksInv' /\ Listed' = Listed /\ Fresh' = Fresh
         /\ \A x : Used(x)' <=> Used(x)
         /\ \A t \in Tables : Taken(t)' <=> Taken(t)
    BY <2>1, <2>2, <2>10, SameLinks
  <2>12. FreshInv'
    <3>1. IsFiniteSet(Linking) /\ Cardinality(Linking) \in Nat
      BY FS_CardinalityType DEF IInv, FreshInv
    <3>2. IsFiniteSet(Linking') /\ Cardinality(Linking') = Cardinality(Linking) + 1
      BY <2>6, <3>1, FS_AddElement
    <3>3. Cardinality(Fresh) \in Nat
      BY <2>2, FreshFacts
    <3> QED BY <2>1, <2>11, <3>1, <3>2, <3>3 DEF FreshInv
  <2>13. ObjectsInv' /\ ModuleInv'
    BY <2>1, <2>11 DEF IInv, ObjectsInv, ModuleInv, Callable
  <2>14. /\ \A q \in Procs : q # p => pc'[q] = pc[q]
         /\ pc'[p] = IF OfParent(p) = NULL THEN "create" ELSE "fork"
         /\ \A q \in Building \cup Opening : q \in Procs /\ q # p
         /\ UNCHANGED <<FDT_list_head, FDT, alive, parent, module, fault, alone>>
    BY <2>1, <2>2, <2>6 DEF TypeInv, Building, Copying, Opening
  <2>15. CallsInv'
    <3>1. ASSUME NEW q \in Building'
          PROVE  /\ call'[q].last \in Tables => Taken(call[q].last)'
                 /\ call'[q].from \in Tables => Taken(call[q].from)'
                 /\ pc'[q] # "create" => call'[q].from \in Tables
                 /\ pc'[q] # "copy" => call'[q].object = 0
      <4>1. CASE q = p
        BY <2>5, <2>7, <2>8, <2>11, <2>14, <4>1
      <4>2. CASE q # p
        <5>1. q \in Building /\ pc'[q] = pc[q]
          BY <2>6, <2>14, <4>2
        <5>2. /\ call[q].last \in Tables => Taken(call[q].last)
              /\ call[q].from \in Tables => Taken(call[q].from)
              /\ pc[q] # "create" => call[q].from \in Tables
              /\ pc[q] # "copy" => call[q].object = 0
          BY <5>1 DEF IInv, CallsInv
        <5> QED BY <2>9, <2>11, <5>1, <5>2
      <4> QED BY <4>1, <4>2
    <3>2. ASSUME NEW q \in Linked'
          PROVE  /\ call'[q].new = call[q].new /\ call'[q].from = call[q].from
                 /\ call'[q].object = call[q].object /\ pc'[q] = pc[q]
                 /\ q \in Linked /\ call[q].new \in Tables
      BY <2>6, <2>9, <2>14, <3>2 DEF IInv, CallsInv, Linked
    <3>3. ASSUME NEW q \in Opening'
          PROVE  call'[q] = call[q] /\ call[q].own \in Tables
      BY <2>2, <2>6, <2>7, <3>3 DEF TypeInv, OpenCall
    <3>4. ASSUME NEW q \in Linked'
          PROVE  /\ call'[q].new \in Tables /\ Taken(call[q].new)'
                 /\ call'[q].from < call'[q].new
                 /\ Used(call[q].new)' =>
                     /\ FDT'[call'[q].new].pid = q
                     /\ IF pc'[q] = "copy" THEN Len(FDT'[call'[q].new].objects) >= 2
                        ELSE FDT'[call'[q].new].objects = <<>>
      BY <2>11, <2>14, <3>2, <3>4 DEF IInv, CallsInv
    <3>5. ASSUME NEW q \in Opening'
          PROVE  /\ Taken(call[q].own)'
                 /\ Used(call[q].own)' => /\ FDT'[call'[q].own].pid = q
                                           /\ FDT'[call'[q].own].objects # <<>>
      BY <2>6, <2>11, <2>14, <3>3, <3>5 DEF IInv, CallsInv
    <3> QED BY <3>1, <3>4, <3>5 DEF CallsInv
  <2>16. PidInv'
    BY <2>1, <2>4, <2>6, <2>11 DEF IInv, PidInv, OneTable
  <2>17. UnfinishedInv'
    <3>1. \A q \in Linked : q \in Linked' /\ pc'[q] = pc[q] /\ call'[q].new = call[q].new
      BY <2>6, <2>9, <2>14
    <3>2. \A q \in Opening : q \in Opening' /\ pc'[q] = pc[q] /\ call'[q].own = call[q].own
      BY <2>6, <2>7, <2>14
    <3> QED BY <2>11, <2>14, <3>1, <3>2 DEF IInv, UnfinishedInv
  <2>18. AloneInv'
    <3>1. Serving' = Serving
      BY <2>1 DEF Serving
    <3>2. AloneKept' /\ \A t \in alone' : Taken(t)'
      BY <2>1, <2>2, <2>11, <3>1 DEF IInv, AloneInv, AloneKept, TypeInv
    <3>3. ASSUME NEW q \in Building', call'[q].alone
          PROVE  /\ Serving' /\ Building' = {q}
                 /\ q \in Linking' /\ call'[q].last \in Tables => call'[q].last \in Listed'
                 /\ q \in Linked' => call'[q].new \in Listed'
      <4>1. q = p /\ Building = {} /\ Serving
        BY <2>6, <2>7, <2>8, <2>9, <3>3
      <4> QED BY <2>5, <2>6, <2>7, <2>8, <2>11, <3>1, <4>1
    <3>4. ASSUME Serving', NEW t \in alone'
          PROVE  /\ \A q \in Linking' : call'[q].last \in Tables /\ t <= call'[q].last
                 /\ \A q \in Linked' : pc'[q] = "path" => t < call'[q].new
      <4>1. t \in Listed /\ t \in alone /\ Serving
        BY <2>1, <3>1, <3>4 DEF IInv, AloneInv, AloneKept
      <4>2. call'[p].last \in Tables /\ t <= call'[p].last
        BY <2>4, <2>7, <2>8, <4>1
      <4>3. \A q \in Linking : call'[q].last \in Tables /\ t <= call'[q].last
        BY <2>9, <4>1 DEF IInv, AloneInv
      <4>4. \A q \in Linked : pc[q] = "path" => t < call[q].new
        BY <4>1 DEF IInv, AloneInv
      <4>5. \A q \in Linked' : q \in Building /\ q # p /\ pc'[q] = pc[q]
        BY <2>6, <2>9, <2>14
      <4> QED BY <2>6, <2>9, <4>2, <4>3, <4>4, <4>5
    <3> QED BY <3>2, <3>3, <3>4 DEF AloneInv
  <2>19. CalmInv'
    <3>1. calm'[p] = (OfParent(p) = NULL \/ \A q \in Procs : Inside(q) => q # parent[p])
      BY <2>1, <2>2 DEF TypeInv
    <3>2. \A q \in Procs : q # p => calm'[q] = calm[q]
      BY <2>1, <2>2 DEF TypeInv
    <3>3. ASSUME NEW q \in Procs, q \notin Copying' PROVE calm'[q]
      BY <2>6, <3>1, <3>2, <3>3 DEF IInv, CalmInv
    <3>4. ASSUME p \in Copying'
          PROVE  /\ parent'[p] # Init_pid => FDT'[call'[p].from].pid = parent'[p]
                 /\ pc'[p] = "fork"
                 /\ calm'[p] =>
                    /\ \A q \in Linked' : call'[q].new # call'[p].from
                    /\ \A q \in Opening' : call'[q].own # call'[p].from
      <4>1. OfParent(p) # NULL /\ call'[p].from = OfParent(p) /\ pc'[p] = "fork"
        BY <2>6, <2>7, <2>8, <2>14, <3>4
      <4>2. Used(OfParent(p)) /\ FDT[OfParent(p)].pid = parent[p]
        BY <2>4, <2>5, <4>1
      <4>3. \A q \in Linked : call[q].new = OfParent(p) => q = parent[p]
        BY <4>2 DEF IInv, CallsInv
      <4>4. \A q \in Opening : call[q].own = OfParent(p) => q = parent[p]
        BY <4>2 DEF IInv, CallsInv
      <4>5. \A q \in Linked \cup Opening : q \in Procs /\ Inside(q)
        BY DEF Linked, Opening, Inside
      <4> QED BY <2>6, <2>7, <2>9, <2>14, <3>1, <4>1, <4>2, <4>3, <4>4, <4>5
    <3>5. ASSUME NEW q \in Copying', q # p
          PROVE  /\ q \in Copying /\ pc'[q] = pc[q] /\ calm'[q] = calm[q]
                 /\ call'[q].from = call[q].from /\ call'[q].new = call[q].new
                 /\ call'[q].object = call[q].object
      BY <2>6, <2>9, <2>14, <3>2, <3>5 DEF Copying
    <3>6. (Serving' <=> Serving) /\ UNCHANGED <<FDT, parent>>
      BY <2>1 DEF Serving
    <3>7. ASSUME Serving', NEW q \in Copying', q # p
          PROVE  /\ parent'[q] # Init_pid => FDT'[call'[q].from].pid = parent'[q]
                 /\ calm'[q] => AtRest(q)'
      <4>1. calm'[q] => AtRest(q)
        BY <3>5, <3>6, <3>7 DEF IInv, CalmInv
      <4>2. AtRest(q) => AtRest(q)'
        BY <2>6, <2>7, <2>9, <3>5, <3>6, <3>7 DEF AtRest
      <4> QED BY <3>5, <3>6, <3>7, <4>1, <4>2 DEF IInv, CalmInv
    <3>8. p \in Copying' => (calm'[p] => AtRest(p)')
      BY <3>4 DEF AtRest
    <3> QED BY <3>3, <3>4, <3>7, <3>8 DEF CalmInv
  <2> QED BY <2>10, <2>11, <2>12, <2>13, <2>15, <2>16, <2>17, <2>18, <2>19 DEF IInv
<1> QED BY <1>1, <1>2

\* What linking a new table does to the addresses and to the links.
LEMMA LinkTables ==
    ASSUME IInv, NEW p \in Linking, ~LostLast(p),
           NEW rec \in Table, rec.next \notin Tables, Link(p, new_FDT, rec)
    PROVE  /\ new_FDT \in Tables /\ ~Taken(new_FDT)
           /\ \A t \in Tables : Taken(t) => t < new_FDT
           /\ call[p].last = NULL \/ Used(call[p].last)
           /\ FDT_list_head' = IF call[p].last = NULL THEN new_FDT ELSE FDT_list_head
           /\ FDT' \in [Tables -> Table \cup {NoTable, FreedTable}]
           /\ FDT'[new_FDT] = rec
           /\ \A t \in Tables : t # new_FDT /\ t # call[p].last => FDT'[t] = FDT[t]
           /\ \A t \in Tables : t # new_FDT /\ Used(t) =>
                /\ FDT'[t].pid = FDT[t].pid /\ FDT'[t].cur_path = FDT[t].cur_path
                /\ FDT'[t].objects = FDT[t].objects
           /\ call[p].last # NULL => FDT'[call[p].last].next = new_FDT
           /\ \A x : Used(x)' <=> Used(x) \/ x = new_FDT
           /\ \A t \in Tables : Taken(t)' <=> Taken(t) \/ t = new_FDT
           /\ Fresh' = Fresh \ {new_FDT} /\ new_FDT \in Fresh
           /\ LinksInv'
<1> DEFINE n == new_FDT
           last == call[p].last
<1>1. TypeInv /\ LinksInv /\ MaxTables \in Nat /\ Tables = 1 .. MaxTables /\ NULL \notin Tables
  BY TableFacts DEF IInv
<1>2. Fresh # {}
  <2>1. IsFiniteSet(Linking) /\ Cardinality(Linking) \in Nat
        /\ Cardinality(Linking) <= Cardinality(Fresh)
    BY FS_CardinalityType DEF IInv, FreshInv
  <2>2. Cardinality(Linking) # 0
    BY <2>1, FS_EmptySet
  <2>3. Cardinality({}) = 0
    BY FS_EmptySet
  <2> QED BY <2>1, <2>2, <2>3
<1>3. n \in Tables /\ ~Taken(n) /\ \A t \in Tables : Taken(t) <=> t < n
  BY <1>1, <1>2, FreshFacts
<1>4. last # NULL => last \in Tables /\ Used(last) /\ Taken(last) /\ FDT[last] \in Table
  BY <1>1, TableFacts DEF LostLast
<1>5. n \in Fresh
  BY <1>3 DEF Fresh, Taken
<1>6. rec.state = "used" /\ NoTable.state = "none" /\ FreedTable.state = "freed"
  BY DEF Table, NoTable, FreedTable
<1> HIDE DEF n, last
<1>7. /\ FDT_list_head' = IF last = NULL THEN n ELSE FDT_list_head
      /\ FDT'[n] = rec
      /\ \A t \in Tables : t # n /\ t # last => FDT'[t] = FDT[t]
      /\ last # NULL => FDT'[last] = [FDT[last] EXCEPT !.next = n]
      /\ FDT' \in [Tables -> Table \cup {NoTable, FreedTable}]
  <2>1. FDT \in [Tables -> Table \cup {NoTable, FreedTable}]
    BY <1>1 DEF TypeInv
  <2>2. CASE last = NULL
    <3>1. FDT_list_head' = n /\ FDT' = [FDT EXCEPT ![n] = rec]
      BY <2>2 DEF Link, last, n
    <3> QED BY <1>1, <1>3, <2>1, <2>2, <3>1
  <2>3. CASE last # NULL
    <3>1. FDT_list_head' = FDT_list_head /\ FDT' = [FDT EXCEPT ![n] = rec, ![last].next = n]
      BY <2>3 DEF Link, last, n
    <3>2. last \in Tables /\ last # n /\ FDT[last] \in Table
      BY <1>3, <1>4, <2>3
    <3>3. [FDT[last] EXCEPT !.next = n] \in Table
      BY <1>3, <3>2 DEF Table, Pointers
    <3> QED BY <1>1, <1>3, <2>1, <2>3, <3>1, <3>2, <3>3
  <2> QED BY <2>2, <2>3
<1>8. last # NULL => /\ last \in Tables /\ last < n /\ last # n
                     /\ FDT'[last].next = n /\ FDT'[last].state = FDT[last].state
                     /\ FDT'[last].pid = FDT[last].pid /\ FDT'[last].objects = FDT[last].objects
                     /\ FDT'[last].cur_path = FDT[last].cur_path
  <2> SUFFICES ASSUME last # NULL
               PROVE  /\ last \in Tables /\ last < n /\ last # n
                      /\ FDT'[last].next = n /\ FDT'[last].state = FDT[last].state
                      /\ FDT'[last].pid = FDT[last].pid
                      /\ FDT'[last].objects = FDT[last].objects
                      /\ FDT'[last].cur_path = FDT[last].cur_path
    OBVIOUS
  <2>1. last \in Tables /\ last < n /\ last # n /\ FDT[last] \in Table
    BY <1>1, <1>3, <1>4
  <2> QED BY <1>7, <2>1 DEF Table
<1>9. \A t \in Tables : t # n =>
        /\ FDT'[t].state = FDT[t].state
        /\ Used(t) => /\ FDT'[t].pid = FDT[t].pid /\ FDT'[t].cur_path = FDT[t].cur_path
                      /\ FDT'[t].objects = FDT[t].objects
  <2> SUFFICES ASSUME NEW t \in Tables, t # n
               PROVE  /\ FDT'[t].state = FDT[t].state
                      /\ Used(t) => /\ FDT'[t].pid = FDT[t].pid
                                    /\ FDT'[t].cur_path = FDT[t].cur_path
                                    /\ FDT'[t].objects = FDT[t].objects
    OBVIOUS
  <2>1. CASE t = last
    BY <1>1, <1>8, <2>1
  <2>2. CASE t # last
    BY <1>7, <2>2
  <2> QED BY <2>1, <2>2
<1>10. /\ \A x : Used(x)' <=> Used(x) \/ x = n
       /\ \A t \in Tables : Taken(t)' <=> Taken(t) \/ t = n
       /\ Fresh' = Fresh \ {n}
  BY <1>3, <1>6, <1>7, <1>9 DEF Used, Taken, Fresh
<1>11. LinksInv'
  <2>1. \A s, t \in Tables : s < t /\ Taken(t)' => Taken(s)'
    BY <1>1, <1>3, <1>10
  <2>2. FDT_list_head' \in Tables => Used(FDT_list_head)'
    BY <1>1, <1>7, <1>10 DEF LinksInv
  <2>3. \A t \in Tables : Used(t)' /\ FDT'[t].next \in Tables =>
            /\ t # n
            /\ \/ t = last /\ FDT'[t].next = n
               \/ t # last /\ FDT'[t].next = FDT[t].next /\ Used(t) /\ Used(FDT[t].next)
                  /\ FDT[t].next # n
    BY <1>1, <1>3, <1>7, <1>8, <1>10, TableFacts DEF LinksInv
  <2>4. \A t \in Tables : Used(t)' /\ FDT'[t].next \in Tables =>
            /\ Used(FDT[t].next)' /\ t < FDT'[t].next
            /\ FDT'[t].next # FDT_list_head'
    <3> SUFFICES ASSUME NEW t \in Tables, Used(t)', FDT'[t].next \in Tables
                 PROVE  /\ Used(FDT[t].next)' /\ t < FDT'[t].next
                        /\ FDT'[t].next # FDT_list_head'
      OBVIOUS
    <3>1. CASE t = last /\ FDT'[t].next = n
      <4>1. FDT_list_head' = FDT_list_head /\ FDT_list_head # n /\ t < n
        BY <1>1, <1>3, <1>7, <1>8, <3>1, TableFacts DEF LinksInv
      <4>2. Used(FDT[t].next)'
        BY <1>10, <3>1
      <4> QED BY <3>1, <4>1, <4>2
    <3>2. CASE t # last /\ FDT'[t].next = FDT[t].next /\ Used(t) /\ Used(FDT[t].next)
               /\ FDT[t].next # n
      <4>1. Used(FDT[t].next)'
        <5>1. Used(FDT[t].next) /\ FDT'[t].next = FDT[t].next
          BY <3>2
        <5> QED BY <1>10, <5>1
      <4> QED BY <1>1, <1>7, <3>2, <4>1 DEF LinksInv
    <3> QED BY <2>3, <3>1, <3>2
  <2>5. \A s, t \in Tables :
          Used(s)' /\ Used(t)' /\ FDT'[s].next \in Tables /\ FDT'[s].next = FDT'[t].next
          => s = t
    BY <1>1, <2>3 DEF LinksInv
  <2> QED BY <2>1, <2>2, <2>4, <2>5 DEF LinksInv
<1>12. last = NULL \/ Used(last)
  BY <1>4
<1> QED BY <1>3, <1>5, <1>7, <1>8, <1>9, <1>10, <1>11, <1>12 DEF n, last

\* What it does to the list: only the new table is new in it, what comes before the table
\* it is linked to stays, and the new one is in it unless that one is lost.
LEMMA LinkList ==
    ASSUME IInv, NEW p \in Linking, ~LostLast(p),
           NEW rec \in Table, rec.next \notin Tables, Link(p, new_FDT, rec), TypeInv'
    PROVE  /\ Listed' \subseteq Listed \cup {new_FDT}
           /\ \A t \in Listed : call[p].last \in Tables /\ t <= call[p].last => t \in Listed'
           /\ call[p].last = NULL \/ call[p].last \in Listed => new_FDT \in Listed'
<1> DEFINE n == new_FDT
           last == call[p].last
<1>1. /\ n \in Tables /\ ~Taken(n)
      /\ \A t \in Tables : Taken(t) => t < n
      /\ last = NULL \/ Used(last)
      /\ FDT_list_head' = IF last = NULL THEN n ELSE FDT_list_head
      /\ FDT'[n] = rec
      /\ \A t \in Tables : t # n /\ t # last => FDT'[t] = FDT[t]
      /\ last # NULL => FDT'[last].next = n
      /\ \A x : Used(x)' <=> Used(x) \/ x = n
      /\ LinksInv'
  BY LinkTables
<1>2. TypeInv /\ LinksInv /\ NULL \notin Tables /\ \A x : Used(x) => x \in Tables /\ Taken(x)
  BY TableFacts DEF IInv
<1>3. ListFacts'
  BY <1>1, ListLemmaNext
<1> HIDE DEF n, last
<1>4. CASE last = NULL
  <2>1. FDT_list_head' = n /\ n \in Listed'
    BY <1>1, <1>3, <1>4 DEF ListFacts
  <2>2. \A t \in {n} \cap Listed' : FDT'[t].next \in Tables => FDT'[t].next \in {n}
    BY <1>1
  <2>3. Listed' \subseteq {n}
    BY <1>3, <2>1, <2>2 DEF ListFacts
  <2> QED BY <1>2, <1>4, <2>1, <2>3 DEF n, last
<1>5. CASE last # NULL
  <2>1. last \in Tables /\ Used(last) /\ last # n /\ UNCHANGED FDT_list_head
    BY <1>1, <1>2, <1>5
  <2>2. ASSUME NEW t \in Tables, Used(t)
        PROVE  Used(t)' /\ (t # last => FDT'[t].next = FDT[t].next)
    BY <1>1, <1>2, <2>2
  <2>3. FDT'[last].next = n /\ FDT'[n].next \notin Tables
    BY <1>1, <1>5
  <2>4. /\ Listed' \subseteq Listed \cup {FDT'[last].next}
        /\ \A t \in Listed : t <= last => t \in Listed'
        /\ last \in Listed /\ FDT'[last].next \in Tables => FDT'[last].next \in Listed'
    BY <1>1, <1>2, <2>1, <2>2, <2>3, OneLink
  <2> QED BY <1>1, <1>5, <2>1, <2>3, <2>4 DEF n, last
<1> QED BY <1>4, <1>5

\* A call that has taken its table is otherwise the same.
LEMMA NewField ==
    ASSUME NEW c \in GetCall, NEW n \in Pointers, NEW d, d = [c EXCEPT !.new = n]
    PROVE  /\ d \in GetCall /\ d.new = n
           /\ d.last = c.last /\ d.from = c.from /\ d.object = c.object /\ d.alone = c.alone
  BY DEF GetCall

\* A table is linked: filled in, and the call is over, or not, and the copy begins.
LEMMA LinkPreserves ==
    ASSUME IInv, NEW p \in Linking, ~fault, ~LostLast(p),
           NEW rec \in Table, Link(p, new_FDT, rec), rec.pid = p,
           NEW c, NEW to \in {"user", "path"},
           pc' = [pc EXCEPT ![p] = to], call' = [call EXCEPT ![p] = c],
           to = "user" => /\ pc[p] = "create" /\ c = NoCall
                          /\ alone' = IF call[p].alone THEN alone \cup {new_FDT} ELSE alone
                          /\ rec.cur_path = Root /\ rec.objects = <<Root>> /\ rec.next = NULL,
           to = "path" => /\ pc[p] = "fork" /\ c = [call[p] EXCEPT !.new = new_FDT]
                          /\ Used(call[p].from) /\ alone' = alone
                          /\ rec.cur_path = Garbage /\ rec.objects = <<>>
                          /\ rec.next \in {NULL, Garbage},
           UNCHANGED <<alive, parent, module, fault, calm>>
    PROVE  IInv'
<1> DEFINE n == new_FDT
           last == call[p].last
<1>1. /\ TypeInv /\ NULL \notin Tables /\ Garbage \notin Tables /\ NULL # Garbage
      /\ \A x : Used(x) => x \in Tables /\ Taken(x)
      /\ MaxTables \in Nat /\ Tables = 1 .. MaxTables
  BY TableFacts DEF IInv, NULL, Garbage
<1>2. p \in Procs /\ pc[p] \in {"create", "fork"} /\ rec.next \notin Tables
  BY <1>1 DEF Linking
<1>3. /\ n \in Tables /\ ~Taken(n)
      /\ \A t \in Tables : Taken(t) => t < n
      /\ FDT_list_head' = IF last = NULL THEN n ELSE FDT_list_head
      /\ FDT' \in [Tables -> Table \cup {NoTable, FreedTable}]
      /\ FDT'[n] = rec
      /\ \A t \in Tables : t # n /\ t # last => FDT'[t] = FDT[t]
      /\ \A t \in Tables : t # n /\ Used(t) =>
           /\ FDT'[t].pid = FDT[t].pid /\ FDT'[t].cur_path = FDT[t].cur_path
           /\ FDT'[t].objects = FDT[t].objects
      /\ last # NULL => FDT'[last].next = n
      /\ \A x : Used(x)' <=> Used(x) \/ x = n
      /\ \A t \in Tables : Taken(t)' <=> Taken(t) \/ t = n
      /\ Fresh' = Fresh \ {n} /\ n \in Fresh
      /\ LinksInv'
  BY <1>2, LinkTables
<1>4. /\ Linking' = Linking \ {p} /\ p \notin Linked /\ p \in Building /\ p \notin Opening
      /\ Copying' = Copying /\ Opening' = Opening
      /\ to = "user" => Building' = Building \ {p} /\ Linked' = Linked /\ p \notin Copying
      /\ to = "path" => Building' = Building /\ Linked' = Linked \cup {p} /\ p \in Copying
      /\ pc'[p] = to /\ call'[p] = c
      /\ \A q \in Procs : q # p => pc'[q] = pc[q] /\ call'[q] = call[q]
      /\ Serving' <=> Serving
  <2>1. /\ pc'[p] = to /\ call'[p] = c
        /\ \A q \in Procs : q # p => pc'[q] = pc[q] /\ call'[q] = call[q]
    BY <1>1, <1>2 DEF TypeInv
  <2> QED BY <1>2, <2>1 DEF Linking, Linked, Building, Copying, Opening, Serving
<1>5. call[p] \in GetCall
  BY <1>1, <1>4 DEF TypeInv
<1>6. to = "path" => /\ c \in GetCall /\ c.new = n /\ c.last = last /\ c.from = call[p].from
                     /\ c.object = call[p].object /\ c.alone = call[p].alone
  BY <1>3, <1>5, NewField DEF Pointers
<1>7. TypeInv'
  <2>1. FDT_list_head' \in Pointers
    BY <1>1, <1>3 DEF TypeInv, Pointers
  <2>2. call' \in [Procs -> GetCall \cup OpenCall \cup {NoCall}]
    BY <1>1, <1>6 DEF TypeInv
  <2>3. pc' \in [Procs -> {"user", "create", "fork", "path", "head", "copy", "open", "newpath"}]
    BY <1>1 DEF TypeInv
  <2>4. \A q \in Building' : call'[q] \in GetCall
    BY <1>1, <1>4, <1>6 DEF TypeInv, Building, Copying
  <2>5. \A q \in Opening' : call'[q] \in OpenCall
    BY <1>1, <1>4 DEF TypeInv, Opening
  <2>6. \A q \in Procs : Inside(q)' => q \in alive'
    BY <1>1, <1>2, <1>4 DEF TypeInv, Inside
  <2>7. alone' \in SUBSET Tables
    BY <1>1, <1>3 DEF TypeInv
  <2> QED BY <1>1, <1>3, <2>1, <2>2, <2>3, <2>4, <2>5, <2>6, <2>7 DEF TypeInv
<1>8. /\ Listed' \subseteq Listed \cup {n}
      /\ \A t \in Listed : last \in Tables /\ t <= last => t \in Listed'
      /\ last = NULL \/ last \in Listed => n \in Listed'
  BY <1>2, <1>7, LinkList
<1>9. \A t \in Listed : t \in Tables /\ Used(t) /\ Taken(t) /\ t # n
  BY <1>1, <1>3, ListLemma DEF ListFacts, IInv
<1> HIDE DEF n, last
<1>10. FreshInv'
  <2>1. IsFiniteSet(Linking) /\ Cardinality(Linking) \in Nat
        /\ Cardinality(Linking) <= Cardinality(Fresh)
    BY FS_CardinalityType DEF IInv, FreshInv
  <2>2. IsFiniteSet(Linking') /\ Cardinality(Linking') = Cardinality(Linking) - 1
    BY <1>4, <2>1, FS_RemoveElement
  <2>3. IsFiniteSet(Fresh) /\ Cardinality(Fresh) \in Nat
    BY <1>1, FreshFacts DEF IInv
  <2>4. Cardinality(Fresh') = Cardinality(Fresh) - 1
    BY <1>3, <2>3, FS_RemoveElement
  <2> QED BY <2>1, <2>2, <2>3, <2>4 DEF FreshInv
<1>11. ObjectsInv'
  <2> SUFFICES ASSUME NEW t \in Tables, Used(t)'
               PROVE  /\ FDT'[t].objects # <<>> => FDT'[t].objects[1] = Root
                      /\ \A i \in 1 .. Len(FDT'[t].objects) - 1 :
                            FDT'[t].objects[i] # Garbage
    BY DEF ObjectsInv
  <2>1. CASE t = n
    <3>1. rec.objects = <<>> \/ rec.objects = <<Root>>
      OBVIOUS
    <3>2. FDT'[t].objects = rec.objects
      BY <1>3, <2>1
    <3>3. CASE rec.objects = <<>>
      BY <3>2, <3>3
    <3>4. CASE rec.objects = <<Root>>
      BY <3>2, <3>4
    <3> QED BY <3>1, <3>3, <3>4
  <2>2. CASE t # n
    BY <1>3, <2>2 DEF IInv, ObjectsInv
  <2> QED BY <2>1, <2>2
<1>12. PidInv'
  <2>1. \A t \in Listed' : \/ t \in Listed /\ FDT'[t].pid = FDT[t].pid
                           \/ t = n /\ FDT'[t].pid = p
    BY <1>3, <1>8, <1>9
  <2>2. \A t \in Listed : FDT[t].pid # p
    BY DEF IInv, PidInv
  <2>3. OneTable'
    BY <2>1, <2>2 DEF IInv, PidInv, OneTable
  <2>4. \A q \in Linking' : \A t \in Listed' : FDT'[t].pid # q
    BY <1>4, <2>1 DEF IInv, PidInv
  <2> QED BY <2>3, <2>4 DEF PidInv
<1>13. ModuleInv'
  <2>1. Inside(p)
    BY <1>2 DEF Inside
  <2>2. module # "new"
    BY <1>2, <2>1 DEF IInv, ModuleInv
  <2>3. module \in {"entry", "loaded"} => \A t \in Tables : FDT'[t].state # "freed"
    <3> SUFFICES ASSUME module \in {"entry", "loaded"}, NEW t \in Tables, t # n
                 PROVE  FDT'[t].state # "freed"
      BY <1>3 DEF Table
    <3>1. CASE Used(t)
      <4>1. FDT'[t].state = "used"
        BY <1>3, <3>1 DEF Used
      <4> QED BY <4>1
    <3>2. CASE ~Used(t)
      <4>1. t # last
        BY <1>3, <3>2, TableFacts DEF LostLast, last, IInv, Pointers
      <4> QED BY <1>3, <4>1 DEF IInv, ModuleInv
    <3> QED BY <3>1, <3>2
  <2> QED BY <2>2, <2>3 DEF ModuleInv
<1>14. CallsInv'
  <2>1. ASSUME NEW q \in Building'
        PROVE  /\ call'[q].last \in Tables => Taken(call[q].last)'
               /\ call'[q].from \in Tables => Taken(call[q].from)'
               /\ pc'[q] # "create" => call'[q].from \in Tables
               /\ pc'[q] # "copy" => call'[q].object = 0
    <3>1. q \in Building
      BY <1>4, <2>1
    <3>2. /\ call[q].last \in Tables => Taken(call[q].last)
          /\ call[q].from \in Tables => Taken(call[q].from)
          /\ pc[q] # "create" => call[q].from \in Tables
          /\ pc[q] # "copy" => call[q].object = 0
      BY <3>1 DEF IInv, CallsInv
    <3>3. /\ call'[q].last = call[q].last /\ call'[q].from = call[q].from
          /\ call'[q].object = call[q].object /\ (pc'[q] # "copy" => pc[q] # "copy")
      BY <1>2, <1>4, <1>6, <2>1 DEF last, Building, Copying
    <3>5. pc[q] = "create" /\ pc'[q] # "create" => call[q].from \in Tables
      BY <1>1, <1>4, <2>1 DEF Building, Copying
    <3> QED BY <1>3, <3>2, <3>3, <3>5
  <2>2. ASSUME NEW q \in Linked', q # p
        PROVE  /\ q \in Linked /\ call'[q] = call[q] /\ pc'[q] = pc[q]
               /\ call[q].new \in Tables /\ Taken(call[q].new) /\ call[q].new # n
               /\ Used(call[q].new)' <=> Used(call[q].new)
    <3>1. q \in Linked
      BY <1>4, <2>2
    <3>2. call[q].new \in Tables /\ Taken(call[q].new)
      BY <3>1 DEF IInv, CallsInv
    <3>3. call[q].new # n
      BY <1>3, <3>2
    <3>4. call'[q] = call[q] /\ pc'[q] = pc[q]
      BY <1>4, <2>2, <3>1 DEF Linked
    <3> QED BY <1>3, <3>1, <3>2, <3>3, <3>4
  <2>3. ASSUME NEW q \in Opening'
        PROVE  /\ q \in Opening /\ call'[q] = call[q] /\ pc'[q] = pc[q]
               /\ call[q].own \in Tables /\ Taken(call[q].own) /\ call[q].own # n
               /\ Used(call[q].own)' <=> Used(call[q].own)
    <3>1. q \in Opening /\ q # p
      BY <1>4, <2>3
    <3>2. call[q].own \in Tables /\ Taken(call[q].own)
      BY <1>1, <3>1 DEF IInv, CallsInv, TypeInv, OpenCall
    <3>3. call[q].own # n
      BY <1>3, <3>2
    <3>4. call'[q] = call[q] /\ pc'[q] = pc[q]
      BY <1>4, <3>1 DEF Opening
    <3> QED BY <1>3, <3>1, <3>2, <3>3, <3>4
  <2>4. ASSUME NEW q \in Linked'
        PROVE  /\ call'[q].new \in Tables /\ Taken(call[q].new)'
               /\ call'[q].from < call'[q].new
               /\ Used(call[q].new)' =>
                   /\ FDT'[call'[q].new].pid = q
                   /\ IF pc'[q] = "copy" THEN Len(FDT'[call'[q].new].objects) >= 2
                      ELSE FDT'[call'[q].new].objects = <<>>
    <3>1. CASE q = p
      <4>1. to = "path"
        BY <1>4, <2>4, <3>1
      <4>2. call'[q].new = n /\ call'[q].from = call[p].from /\ Taken(call[p].from)
            /\ call[p].from \in Tables
        BY <1>1, <1>4, <1>6, <3>1, <4>1
      <4>3. FDT'[n].pid = p /\ FDT'[n].objects = <<>> /\ pc'[q] = "path"
        BY <1>3, <1>4, <3>1, <4>1
      <4> QED BY <1>3, <3>1, <4>2, <4>3
    <3>2. CASE q # p
      <4>1. /\ q \in Linked /\ call'[q] = call[q] /\ pc'[q] = pc[q]
            /\ call[q].new \in Tables /\ Taken(call[q].new) /\ call[q].new # n
            /\ Used(call[q].new)' <=> Used(call[q].new)
        BY <2>2, <2>4, <3>2
      <4>2. Used(call[q].new) => /\ FDT'[call[q].new].pid = FDT[call[q].new].pid
                                 /\ FDT'[call[q].new].objects = FDT[call[q].new].objects
        BY <1>3, <4>1
      <4> QED BY <1>3, <4>1, <4>2 DEF IInv, CallsInv
    <3> QED BY <3>1, <3>2
  <2>5. ASSUME NEW q \in Opening'
        PROVE  /\ Taken(call[q].own)'
               /\ Used(call[q].own)' => /\ FDT'[call'[q].own].pid = q
                                         /\ FDT'[call'[q].own].objects # <<>>
    <3>1. Used(call[q].own) => /\ FDT'[call[q].own].pid = FDT[call[q].own].pid
                               /\ FDT'[call[q].own].objects = FDT[call[q].own].objects
      BY <1>3, <2>3, <2>5
    <3> QED BY <1>3, <2>3, <2>5, <3>1 DEF IInv, CallsInv
  <2> QED BY <2>1, <2>4, <2>5 DEF CallsInv
<1>15. UnfinishedInv'
  <2> SUFFICES ASSUME NEW t \in Tables, Used(t)'
               PROVE  /\ FDT'[t].next = Garbage =>
                            \E q \in Linked' : pc'[q] = "path" /\ call'[q].new = t
                      /\ FDT'[t].cur_path = Garbage =>
                            \E q \in Linked' : pc'[q] = "path" /\ call'[q].new = t
                      /\ FDT'[t].cur_path = Freed =>
                            \E q \in Opening' : pc'[q] = "newpath" /\ call'[q].own = t
                      /\ FDT'[t].objects = <<>> =>
                            \E q \in Linked' : pc'[q] # "copy" /\ call'[q].new = t
                      /\ FDT'[t].objects # <<>>
                         /\ FDT'[t].objects[Len(FDT'[t].objects)] = Garbage =>
                            \E q \in Linked' : pc'[q] = "copy" /\ call'[q].new = t
    BY DEF UnfinishedInv
  <2>1. CASE t = n /\ to = "path"
    <3>1. p \in Linked' /\ pc'[p] = "path" /\ call'[p].new = t
      BY <1>4, <1>6, <2>1
    <3>2. FDT'[t].objects = <<>> /\ FDT'[t].cur_path # Freed
      BY <1>3, <2>1 DEF Garbage, Freed
    <3> QED BY <3>1, <3>2
  <2>2. CASE t = n /\ to = "user"
    <3>1. FDT'[t].objects = <<Root>> /\ FDT'[t].next = NULL /\ FDT'[t].cur_path = Root
      BY <1>3, <2>2
    <3>2. Len(<<Root>>) = 1 /\ <<Root>>[1] = Root /\ <<Root>> # <<>>
      OBVIOUS
    <3> QED BY <1>1, <3>1, <3>2 DEF Root, Garbage, Freed, NULL
  <2>3. CASE t # n
    <3>1. /\ Used(t) /\ FDT'[t].cur_path = FDT[t].cur_path /\ FDT'[t].objects = FDT[t].objects
          /\ FDT'[t].next = Garbage => FDT[t].next = Garbage
      BY <1>1, <1>3, <2>3 DEF IInv, TypeInv
    <3>2. \A q \in Linked : q \in Linked' /\ call'[q] = call[q] /\ pc'[q] = pc[q]
      BY <1>4 DEF Linked
    <3>3. \A q \in Opening : q \in Opening' /\ call'[q] = call[q] /\ pc'[q] = pc[q]
      BY <1>4 DEF Opening
    <3> QED BY <3>1, <3>2, <3>3 DEF IInv, UnfinishedInv
  <2> QED BY <2>1, <2>2, <2>3
<1>16. AloneInv'
  <2>1. Serving => \A t \in alone : t \in Listed /\ last \in Tables /\ t <= last
    BY <1>2 DEF IInv, AloneInv, AloneKept, last, Linking
  <2>2. call[p].alone => /\ Serving /\ Building = {p} /\ n \in Listed'
    <3>1. call[p].alone => /\ Serving /\ Building = {p} /\ (last \in Tables => last \in Listed)
      BY <1>4, <1>2 DEF IInv, AloneInv, last
    <3>2. last \in Tables \/ last = NULL
      BY <1>5 DEF GetCall, Pointers, last
    <3> QED BY <1>8, <3>1, <3>2
  <2>3. \A t \in alone' : t \in alone \/ (t = n /\ call[p].alone /\ to = "user")
    BY DEF n
  <2>4. AloneKept'
    <3>1. Serving' => alone' \subseteq Listed'
      BY <1>4, <1>8, <2>1, <2>2, <2>3
    <3>2. ~Serving' /\ ~fault' => \A t \in alone' : ~Used(t)'
      <4> SUFFICES ASSUME ~Serving, NEW t \in alone' PROVE ~Used(t)'
        BY <1>4
      <4>1. t \in alone
        BY <2>2, <2>3
      <4>2. ~Used(t) /\ Taken(t) /\ t \in Tables
        BY <1>1, <4>1 DEF IInv, AloneInv, AloneKept, TypeInv
      <4> QED BY <1>3, <4>2
    <3> QED BY <3>1, <3>2 DEF AloneKept
  <2>5. \A t \in alone : Taken(t) /\ t \in Tables /\ t < n
    BY <1>1, <1>3 DEF IInv, AloneInv, TypeInv
  <2>6. \A t \in alone' : Taken(t)'
    BY <1>3, <2>3, <2>5
  <2>7. ASSUME NEW q \in Building', call'[q].alone
        PROVE  /\ Serving' /\ Building' = {q}
               /\ q \in Linking' /\ call'[q].last \in Tables => call'[q].last \in Listed'
               /\ q \in Linked' => call'[q].new \in Listed'
    <3>1. q = p /\ to = "path"
      <4>1. CASE q # p
        <5>1. q \in Building /\ call[q].alone
          BY <1>4, <2>7, <4>1 DEF Building, Copying
        <5>2. Building = {q}
          BY <5>1 DEF IInv, AloneInv
        <5> QED BY <1>4, <4>1, <5>2
      <4>2. CASE q = p
        BY <1>4, <2>7, <4>2
      <4> QED BY <4>1, <4>2
    <3>2. call[p].alone /\ call'[q].new = n
      BY <1>4, <1>6, <2>7, <3>1
    <3> QED BY <1>4, <2>2, <3>1, <3>2
  <2>8. ASSUME Serving', NEW t \in alone'
        PROVE  /\ \A q \in Linking' : call'[q].last \in Tables /\ t <= call'[q].last
               /\ \A q \in Linked' : pc'[q] = "path" => t < call'[q].new
    <3>1. ASSUME NEW q \in Linking'
          PROVE  call'[q].last \in Tables /\ t <= call'[q].last
      <4>1. q \in Linking /\ q # p /\ call'[q] = call[q] /\ q \in Building
        BY <1>4, <3>1 DEF Linking, Building, Copying
      <4>2. t \in alone
        BY <2>2, <2>3, <4>1
      <4> QED BY <1>4, <2>8, <4>1, <4>2 DEF IInv, AloneInv
    <3>2. ASSUME NEW q \in Linked', pc'[q] = "path"
          PROVE  t < call'[q].new
      <4>1. CASE q = p
        <5>1. t \in alone /\ call'[q].new = n
          BY <1>4, <1>6, <2>3, <3>2, <4>1
        <5> QED BY <2>5, <5>1
      <4>2. CASE q # p
        <5>1. q \in Linked /\ pc[q] = "path" /\ call'[q] = call[q] /\ q \in Building
          BY <1>4, <3>2, <4>2 DEF Linked, Building, Copying
        <5>2. t \in alone
          BY <2>2, <2>3, <4>2, <5>1
        <5> QED BY <1>4, <2>8, <5>1, <5>2 DEF IInv, AloneInv
      <4> QED BY <4>1, <4>2
    <3> QED BY <3>1, <3>2
  <2> QED BY <2>4, <2>6, <2>7, <2>8 DEF AloneInv
<1>17. CalmInv'
  <2>1. \A q \in Procs : q \notin Copying' => calm'[q]
    BY <1>4 DEF IInv, CalmInv
  <2>2. ASSUME Serving', NEW q \in Copying'
        PROVE  /\ parent'[q] # Init_pid => FDT'[call'[q].from].pid = parent'[q]
               /\ calm'[q] => AtRest(q)'
    <3>1. q \in Copying /\ q \in Building /\ Serving
      BY <1>4, <2>2 DEF Building
    <3>2. call'[q].from = call[q].from
      BY <1>4, <1>6, <3>1 DEF Copying
    <3>3. call[q].from \in Tables /\ Taken(call[q].from)
      BY <3>1 DEF IInv, CallsInv, Copying
    <3>4. \A t \in Tables : Taken(t) => Used(t) /\ t # n
      <4>1. module \in {"entry", "loaded"}
        BY <3>1 DEF Serving
      <4>2. \A t \in Tables : FDT[t].state # "freed"
        BY <4>1 DEF IInv, ModuleInv
      <4>3. \A t \in Tables : Taken(t) => Used(t)
        BY <1>1, <4>2, TableFacts DEF FreedTable, NoTable, Taken
      <4> QED BY <1>3, <4>3
    <3>5. \A t \in Tables : Taken(t) => /\ FDT'[t].pid = FDT[t].pid
                                        /\ FDT'[t].cur_path = FDT[t].cur_path
                                        /\ FDT'[t].objects = FDT[t].objects
      BY <1>3, <3>4
    <3>6. parent'[q] # Init_pid => FDT'[call'[q].from].pid = parent'[q]
      BY <3>1, <3>2, <3>3, <3>5 DEF IInv, CalmInv
    <3>7. ASSUME calm'[q] PROVE AtRest(q)'
      <4>1. AtRest(q)
        BY <3>1, <3>7 DEF IInv, CalmInv
      <4>2. ASSUME NEW r \in Linked' PROVE call'[r].new # call'[q].from
        <5>1. CASE r = p
          BY <1>4, <1>6, <3>2, <3>3, <3>4, <4>2, <5>1
        <5>2. CASE r # p
          BY <1>4, <3>2, <4>1, <4>2, <5>2 DEF AtRest, Linked
        <5> QED BY <5>1, <5>2
      <4>3. \A r \in Opening' : call'[r].own # call'[q].from
        BY <1>4, <3>2, <4>1 DEF AtRest, Opening
      <4>4. CASE q = p
        <5>1. pc'[q] = "path"
          BY <1>4, <3>1, <4>4
        <5> QED BY <4>2, <4>3, <5>1 DEF AtRest
      <4>5. CASE q # p
        <5>1. q \in Procs /\ pc'[q] = pc[q] /\ call'[q] = call[q]
          BY <1>4, <3>1, <4>5 DEF Copying
        <5>2. pc[q] \in {"head", "copy"} => call[q].new \in Tables /\ Taken(call[q].new)
          BY <5>1 DEF IInv, CallsInv, Linked
        <5>3. /\ FDT'[call'[q].from].cur_path = FDT[call[q].from].cur_path
              /\ FDT'[call'[q].from].objects = FDT[call[q].from].objects
              /\ pc[q] \in {"head", "copy"} =>
                    /\ FDT'[call'[q].new].cur_path = FDT[call[q].new].cur_path
                    /\ FDT'[call'[q].new].objects = FDT[call[q].new].objects
          BY <3>3, <3>5, <5>1, <5>2
        <5>4. pc'[q] \in {"head", "copy"} =>
                FDT'[call'[q].new].cur_path = FDT'[call'[q].from].cur_path
          BY <4>1, <5>1, <5>3 DEF AtRest
        <5>5. pc'[q] = "copy" =>
                /\ call'[q].object \in 1 .. Len(FDT'[call'[q].from].objects) - 1
                /\ Len(FDT'[call'[q].new].objects) = call'[q].object + 1
                /\ \A j \in 1 .. call'[q].object :
                      FDT'[call'[q].new].objects[j] = FDT'[call'[q].from].objects[j]
          <6> DEFINE Same(k, source, copied) ==
                /\ k \in 1 .. Len(source) - 1
                /\ Len(copied) = k + 1
                /\ \A j \in 1 .. k : copied[j] = source[j]
          <6>1. pc[q] = "copy" =>
                  Same(call[q].object, FDT[call[q].from].objects, FDT[call[q].new].objects)
            BY <4>1, Zenon DEF AtRest
          <6> HIDE DEF Same
          <6>2. pc'[q] = "copy" =>
                  Same(call'[q].object, FDT'[call'[q].from].objects, FDT'[call'[q].new].objects)
            BY <5>1, <5>3, <6>1
          <6> QED BY <6>2, Zenon DEF Same
        <5> QED BY <4>2, <4>3, <5>4, <5>5 DEF AtRest
      <4> QED BY <4>4, <4>5
    <3> QED BY <3>6, <3>7
  <2> QED BY <2>1, <2>2 DEF CalmInv
<1> QED BY <1>3, <1>7, <1>10, <1>11, <1>12, <1>13, <1>14, <1>15, <1>16, <1>17 DEF IInv

\* create_FDT builds a table that is filled in.
LEMMA CreatePreserves ==
    ASSUME IInv, NEW p \in Procs, Create(p)
    PROVE  IInv'
<1>1. CASE LostLast(p)
  <2>1. Oops
    BY <1>1 DEF Create
  <2> QED BY <2>1, QuietPreserves DEF Oops
<1>2. CASE ~LostLast(p)
  <2> DEFINE rec == [state |-> "used", pid |-> p, cur_path |-> Root,
                     objects |-> <<Root>>, next |-> NULL]
  <2>1. /\ ~fault /\ pc[p] = "create" /\ Link(p, new_FDT, rec)
        /\ pc' = [pc EXCEPT ![p] = "user"] /\ call' = [call EXCEPT ![p] = NoCall]
        /\ alone' = IF call[p].alone THEN alone \cup {new_FDT} ELSE alone
        /\ UNCHANGED <<alive, parent, module, fault, calm>>
    BY <1>2 DEF Create, Moves
  <2>2. rec \in Table
    <3>1. <<Root>> \in Seq(Objects)
      BY DEF Objects
    <3> QED BY <3>1 DEF Table, Paths, Pointers
  <2>3. /\ rec.cur_path = Root /\ rec.objects = <<Root>> /\ rec.next = NULL /\ rec.pid = p
    OBVIOUS
  <2>4. p \in Linking
    BY <2>1 DEF Linking
  <2> HIDE DEF rec
  <2> QED BY <1>2, <2>1, <2>2, <2>3, <2>4, LinkPreserves
<1> QED BY <1>1, <1>2

\* create_FDT_from_parent links a table of which only the pid is filled in.
LEMMA ForkLinkPreserves ==
    ASSUME IInv, NEW p \in Procs, ForkLink(p)
    PROVE  IInv'
<1>1. CASE Oops
  BY <1>1, QuietPreserves DEF Oops
<1>2. CASE ~Oops
  <2>1. /\ ~fault /\ pc[p] = "fork" /\ ~LostLast(p) /\ Used(call[p].from)
        /\ \E next \in {NULL, Garbage} :
              Link(p, new_FDT, [state |-> "used", pid |-> p, cur_path |-> Garbage,
                                objects |-> <<>>, next |-> next])
        /\ pc' = [pc EXCEPT ![p] = "path"]
        /\ call' = [call EXCEPT ![p].new = new_FDT]
        /\ UNCHANGED <<alive, parent, module, fault, alone, calm>>
    BY <1>2, Zenon DEF ForkLink, Moves
  <2>2. PICK next \in {NULL, Garbage} :
          Link(p, new_FDT, [state |-> "used", pid |-> p, cur_path |-> Garbage,
                            objects |-> <<>>, next |-> next])
    BY <2>1
  <2> DEFINE rec == [state |-> "used", pid |-> p, cur_path |-> Garbage,
                     objects |-> <<>>, next |-> next]
  <2>3. rec \in Table
    BY DEF Table, Paths, Pointers
  <2>4. /\ rec.cur_path = Garbage /\ rec.objects = <<>> /\ rec.next = next /\ rec.pid = p
    OBVIOUS
  <2>5. p \in Linking
    BY <2>1 DEF Linking
  <2>6. call' = [call EXCEPT ![p] = [call[p] EXCEPT !.new = new_FDT]]
    BY <2>1
  <2>7. Link(p, new_FDT, rec)
    BY <2>2
  <2> HIDE DEF rec
  <2> QED BY <2>1, <2>3, <2>4, <2>5, <2>6, <2>7, LinkPreserves
<1> QED BY <1>1, <1>2

\* A table with another path, behind which nothing is linked yet, is a table.
LEMMA PathField ==
    \A r \in Table, path \in Paths :
        LET d == [r EXCEPT !.cur_path = path, !.next = NULL]
        IN  /\ d \in Table /\ d.cur_path = path /\ d.next = NULL
            /\ d.pid = r.pid /\ d.objects = r.objects /\ d.state = r.state
  BY DEF Table, Pointers

\* The path is copied and the end of the list marked.
LEMMA ForkPathPreserves ==
    ASSUME IInv, NEW p \in Procs, ForkPath(p)
    PROVE  IInv'
<1> DEFINE new == call[p].new
           from == call[p].from
           path == FDT[from].cur_path
<1>1. CASE Oops
  BY <1>1, QuietPreserves DEF Oops
<1>2. CASE ~Oops
  <2>1. /\ ~fault /\ pc[p] = "path" /\ Used(from) /\ Used(new)
        /\ path \notin {Garbage, Freed}
        /\ FDT' = [FDT EXCEPT ![new] = [@ EXCEPT !.cur_path = path, !.next = NULL]]
        /\ pc' = [pc EXCEPT ![p] = "head"]
        /\ UNCHANGED <<FDT_list_head, alive, parent, call, module, fault, alone, calm>>
    BY <1>2, Zenon DEF ForkPath, Moves, WithPath
  <2>2. /\ TypeInv /\ LinksInv /\ NULL \notin Tables /\ Garbage \notin Tables /\ NULL # Garbage
        /\ \A x : Used(x) => x \in Tables /\ FDT[x] \in Table /\ Taken(x)
        /\ MaxTables \in Nat /\ Tables = 1 .. MaxTables
    BY TableFacts DEF IInv, NULL, Garbage
  <2>3. p \in Linked /\ p \in Building /\ p \in Copying /\ p \notin Linking
    BY <2>1 DEF Linked, Building, Copying, Linking
  <2>4. /\ from \in Tables /\ new \in Tables /\ from # new /\ FDT[new].pid = p
        /\ FDT[new].objects = <<>> /\ call[p].object = 0
    BY <2>1, <2>2, <2>3 DEF IInv, CallsInv
  <2> HIDE DEF new, from
  <2>5. path \in Files \cup {Root} /\ path \in Paths
    BY <2>1, <2>2 DEF Table, Paths
  <2>6. /\ FDT'[new] \in Table /\ FDT'[new].cur_path = path /\ FDT'[new].next = NULL
        /\ FDT'[new].pid = FDT[new].pid /\ FDT'[new].objects = FDT[new].objects
        /\ FDT'[new].state = FDT[new].state
        /\ \A t \in Tables : t # new => FDT'[t] = FDT[t]
        /\ FDT' \in [Tables -> Table \cup {NoTable, FreedTable}]
    <3> DEFINE d == [FDT[new] EXCEPT !.cur_path = path, !.next = NULL]
    <3>1. FDT[new] \in Table
      BY <2>1, <2>2
    <3> HIDE DEF path
    <3>2. /\ d = [FDT[new] EXCEPT !.cur_path = path, !.next = NULL]
          /\ FDT' = [FDT EXCEPT ![new] = d]
      BY <2>1
    <3> HIDE DEF d
    <3>3. /\ d \in Table /\ d.cur_path = path /\ d.next = NULL
          /\ d.pid = FDT[new].pid /\ d.objects = FDT[new].objects /\ d.state = FDT[new].state
      BY <2>5, <3>1, <3>2, PathField, Zenon
    <3>4. /\ FDT'[new] = d
          /\ \A t \in Tables : t # new => FDT'[t] = FDT[t]
          /\ FDT' \in [Tables -> Table \cup {NoTable, FreedTable}]
      BY <2>2, <2>4, <3>2, <3>3 DEF TypeInv
    <3> QED BY <3>3, <3>4
  <2>7. /\ Linking' = Linking /\ Linked' = Linked /\ Building' = Building
        /\ Copying' = Copying /\ Opening' = Opening
        /\ \A q \in Procs : Inside(q)' <=> Inside(q)
        /\ pc'[p] = "head" /\ \A q \in Procs : q # p => pc'[q] = pc[q]
        /\ Serving' <=> Serving
    <3>1. pc'[p] = "head" /\ \A q \in Procs : q # p => pc'[q] = pc[q]
      BY <2>1, <2>2 DEF TypeInv
    <3> QED BY <2>1, <3>1 DEF Linking, Linked, Building, Copying, Opening, Inside, Serving
  <2>8. TypeInv'
    <3>1. pc' \in [Procs -> {"user", "create", "fork", "path", "head", "copy", "open", "newpath"}]
      BY <2>1, <2>2 DEF TypeInv
    <3> QED BY <2>1, <2>2, <2>6, <2>7, <3>1 DEF TypeInv
  <2>9. /\ \A x : Used(x)' <=> Used(x)
        /\ \A t \in Tables : Taken(t)' <=> Taken(t)
        /\ Fresh' = Fresh
        /\ \A t \in Tables : FDT'[t].state = FDT[t].state /\ FDT'[t].pid = FDT[t].pid
                             /\ FDT'[t].objects = FDT[t].objects
    BY <2>6 DEF Used, Taken, Fresh
  <2>10. LinksInv'
    <3>1. \A t \in Tables : FDT'[t].next \in Tables => FDT'[t].next = FDT[t].next
      BY <2>2, <2>6
    <3> QED BY <2>1, <2>2, <2>9, <3>1 DEF LinksInv
  <2>11. /\ Listed' \subseteq Listed
         /\ \A t \in Listed : t <= new => t \in Listed'
    <3>1. \A t \in Tables : Used(t) => Used(t)' /\ (t # new => FDT'[t].next = FDT[t].next)
      BY <2>6, <2>9
    <3>2. FDT'[new].next = NULL /\ UNCHANGED FDT_list_head
      BY <2>1, <2>6
    <3>3. /\ Listed' \subseteq Listed \cup {FDT'[new].next}
          /\ \A t \in Listed : t <= new => t \in Listed'
      BY <2>1, <2>2, <2>4, <2>8, <2>10, <3>1, <3>2, OneLink
    <3>4. Listed' \subseteq Tables
      BY <2>8, <2>10, ListLemmaNext DEF ListFacts
    <3> QED BY <2>2, <3>2, <3>3, <3>4
  <2>12. Listed \subseteq Tables
    BY <2>2, ListLemma DEF ListFacts
  <2>13. FreshInv' /\ ObjectsInv'
    BY <2>7, <2>9 DEF IInv, FreshInv, ObjectsInv
  <2>14. PidInv'
    BY <2>7, <2>9, <2>11, <2>12 DEF IInv, PidInv, OneTable
  <2>15. ModuleInv'
    BY <2>1, <2>7, <2>9 DEF IInv, ModuleInv
  <2>16. CallsInv'
    <3>1. ASSUME NEW q \in Building'
          PROVE  /\ call'[q].last \in Tables => Taken(call[q].last)'
                 /\ call'[q].from \in Tables => Taken(call[q].from)'
                 /\ pc'[q] # "create" => call'[q].from \in Tables
                 /\ pc'[q] # "copy" => call'[q].object = 0
      <4>1. q \in Procs /\ (q = p \/ pc'[q] = pc[q])
        BY <2>7, <3>1 DEF Building, Copying
      <4> QED BY <2>1, <2>4, <2>7, <2>9, <3>1, <4>1 DEF IInv, CallsInv, from
    <3>2. ASSUME NEW q \in Linked'
          PROVE  /\ call'[q].new \in Tables /\ Taken(call[q].new)'
                 /\ call'[q].from < call'[q].new
                 /\ Used(call[q].new)' =>
                     /\ FDT'[call'[q].new].pid = q
                     /\ IF pc'[q] = "copy" THEN Len(FDT'[call'[q].new].objects) >= 2
                        ELSE FDT'[call'[q].new].objects = <<>>
      <4>1. q \in Procs /\ (pc'[q] = "copy" <=> pc[q] = "copy")
        BY <2>1, <2>7, <3>2 DEF Linked
      <4>2. call[q].new \in Tables
        BY <2>7, <3>2 DEF IInv, CallsInv
      <4> QED BY <2>1, <2>7, <2>9, <3>2, <4>1, <4>2 DEF IInv, CallsInv
    <3>3. ASSUME NEW q \in Opening'
          PROVE  /\ Taken(call[q].own)'
                 /\ Used(call[q].own)' => /\ FDT'[call'[q].own].pid = q
                                           /\ FDT'[call'[q].own].objects # <<>>
      <4>1. q \in Opening /\ call[q].own \in Tables
        BY <2>2, <2>7, <3>3 DEF TypeInv, OpenCall
      <4> QED BY <2>1, <2>7, <2>9, <4>1 DEF IInv, CallsInv
    <3> QED BY <3>1, <3>2, <3>3 DEF CallsInv
  <2>17. UnfinishedInv'
    <3> SUFFICES ASSUME NEW t \in Tables, Used(t)
                 PROVE  /\ FDT'[t].next = Garbage =>
                              \E q \in Linked' : pc'[q] = "path" /\ call'[q].new = t
                        /\ FDT'[t].cur_path = Garbage =>
                              \E q \in Linked' : pc'[q] = "path" /\ call'[q].new = t
                        /\ FDT'[t].cur_path = Freed =>
                              \E q \in Opening' : pc'[q] = "newpath" /\ call'[q].own = t
                        /\ FDT'[t].objects = <<>> =>
                              \E q \in Linked' : pc'[q] # "copy" /\ call'[q].new = t
                        /\ FDT'[t].objects # <<>>
                           /\ FDT'[t].objects[Len(FDT'[t].objects)] = Garbage =>
                              \E q \in Linked' : pc'[q] = "copy" /\ call'[q].new = t
      BY <2>9 DEF UnfinishedInv
    <3>1. CASE t = new
      <4>1. p \in Linked' /\ pc'[p] = "head" /\ call'[p].new = t
        BY <2>1, <2>3, <2>7, <3>1 DEF new
      <4>2. FDT'[t].next = NULL /\ FDT'[t].cur_path = path /\ FDT'[t].objects = <<>>
        BY <2>4, <2>6, <3>1
      <4> QED BY <2>1, <2>2, <4>1, <4>2
    <3>2. CASE t # new
      <4>1. FDT'[t] = FDT[t]
        BY <2>6, <3>2
      <4>2. \A q \in Linked : call[q].new = t => q \in Linked' /\ pc'[q] = pc[q]
        BY <2>7, <3>2 DEF new, Linked
      <4>3. \A q \in Opening : q \in Opening' /\ pc'[q] = pc[q]
        BY <2>1, <2>7 DEF Opening
      <4>4. /\ FDT[t].next = Garbage => \E q \in Linked : pc[q] = "path" /\ call[q].new = t
            /\ FDT[t].cur_path = Garbage => \E q \in Linked : pc[q] = "path" /\ call[q].new = t
            /\ FDT[t].cur_path = Freed => \E q \in Opening : pc[q] = "newpath" /\ call[q].own = t
            /\ FDT[t].objects = <<>> => \E q \in Linked : pc[q] # "copy" /\ call[q].new = t
            /\ FDT[t].objects # <<>> /\ FDT[t].objects[Len(FDT[t].objects)] = Garbage =>
                  \E q \in Linked : pc[q] = "copy" /\ call[q].new = t
        BY <2>2 DEF IInv, UnfinishedInv
      <4> HIDE DEF new
      <4>5. call' = call
        BY <2>1
      <4> QED BY <4>1, <4>2, <4>3, <4>4, <4>5
    <3> QED BY <3>1, <3>2
  <2>18. AloneInv'
    <3>1. AloneKept'
      <4>1. Serving => \A t \in alone : t \in Listed /\ t < new
        BY <2>1, <2>3 DEF IInv, AloneInv, AloneKept, new
      <4>2. ASSUME Serving, NEW t \in alone PROVE t \in Listed'
        <5>1. t \in Listed /\ t < new
          BY <4>1, <4>2
        <5>2. t \in Tables
          BY <2>12, <5>1
        <5>3. t <= new
          BY <2>2, <2>4, <5>1, <5>2
        <5> QED BY <2>11, <5>1, <5>3
      <4> QED BY <2>1, <2>7, <2>9, <4>2 DEF IInv, AloneInv, AloneKept
    <3>2. \A t \in alone' : Taken(t)'
      BY <2>1, <2>2, <2>9 DEF IInv, AloneInv, TypeInv
    <3>3. ASSUME NEW q \in Building', call'[q].alone
          PROVE  /\ Serving' /\ Building' = {q}
                 /\ q \in Linking' /\ call'[q].last \in Tables => call'[q].last \in Listed'
                 /\ q \in Linked' => call'[q].new \in Listed'
      <4>1. Serving /\ Building = {q} /\ (q \in Linked => call[q].new \in Listed)
        BY <2>1, <2>7, <3>3 DEF IInv, AloneInv
      <4>2. q = p /\ call[q].new = new
        BY <2>3, <4>1 DEF new
      <4>3. new \in Listed'
        BY <2>2, <2>3, <2>4, <2>11, <4>1, <4>2
      <4> QED BY <2>1, <2>3, <2>7, <4>1, <4>2, <4>3
    <3>4. ASSUME Serving', NEW t \in alone'
          PROVE  /\ \A q \in Linking' : call'[q].last \in Tables /\ t <= call'[q].last
                 /\ \A q \in Linked' : pc'[q] = "path" => t < call'[q].new
      <4>1. \A q \in Linked : pc'[q] = "path" => pc[q] = "path"
        BY <2>1, <2>7 DEF Linked
      <4> QED BY <2>1, <2>7, <3>4, <4>1 DEF IInv, AloneInv
    <3> QED BY <3>1, <3>2, <3>3, <3>4 DEF AloneInv
  <2>19. CalmInv'
    <3>1. \A q \in Procs : q \notin Copying' => calm'[q]
      BY <2>1, <2>7 DEF IInv, CalmInv
    <3>2. ASSUME Serving', NEW q \in Copying'
          PROVE  /\ parent'[q] # Init_pid => FDT'[call'[q].from].pid = parent'[q]
                 /\ calm'[q] => AtRest(q)'
      <4>1. q \in Copying /\ q \in Procs /\ q \in Building /\ Serving
        BY <2>7, <3>2 DEF Building, Copying
      <4>2. call'[q] = call[q] /\ parent'[q] = parent[q] /\ call[q].from \in Tables
        BY <2>1, <4>1 DEF IInv, CallsInv, Copying
      <4>3. FDT'[call'[q].from].pid = FDT[call[q].from].pid
        BY <2>9, <4>2
      <4>4. ASSUME calm'[q] PROVE AtRest(q)'
        <5>1. AtRest(q)
          BY <2>1, <4>1, <4>4 DEF IInv, CalmInv
        <5>2. /\ \A r \in Linked' : call'[r].new # call'[q].from
              /\ \A r \in Opening' : call'[r].own # call'[q].from
          BY <2>1, <2>7, <5>1 DEF AtRest
        <5>3. call[q].from # new /\ FDT'[call[q].from] = FDT[call[q].from]
          BY <2>3, <2>6, <4>2, <5>1 DEF AtRest, new
        <5>4. CASE q = p
          <6>1. pc'[q] = "head" /\ call'[q].new = new /\ call'[q].from = from
            BY <2>7, <4>2, <5>4 DEF new, from
          <6>2. FDT'[call'[q].new].cur_path = FDT'[call'[q].from].cur_path
            BY <2>6, <4>2, <5>3, <6>1
          <6> QED BY <5>2, <6>1, <6>2 DEF AtRest
        <5>5. CASE q # p
          <6>1. pc'[q] = pc[q]
            BY <2>7, <4>1, <5>5
          <6>2. pc[q] \in {"head", "copy"} => FDT'[call[q].new] = FDT[call[q].new]
            <7> SUFFICES ASSUME q \in Linked PROVE FDT'[call[q].new] = FDT[call[q].new]
              BY <4>1 DEF Linked
            <7>1. call[q].new \in Tables /\ (Used(call[q].new) => FDT[call[q].new].pid = q)
              BY DEF IInv, CallsInv
            <7>2. call[q].new # new
              BY <2>1, <2>4, <5>5, <7>1
            <7> QED BY <2>6, <7>1, <7>2
          <6>3. pc'[q] \in {"head", "copy"} =>
                  FDT'[call'[q].new].cur_path = FDT'[call'[q].from].cur_path
            BY <4>2, <5>1, <5>3, <6>1, <6>2 DEF AtRest
          <6>4. pc'[q] = "copy" =>
                  /\ call'[q].object \in 1 .. Len(FDT'[call'[q].from].objects) - 1
                  /\ Len(FDT'[call'[q].new].objects) = call'[q].object + 1
                  /\ \A j \in 1 .. call'[q].object :
                        FDT'[call'[q].new].objects[j] = FDT'[call'[q].from].objects[j]
            BY <4>2, <5>1, <5>3, <6>1, <6>2 DEF AtRest
          <6> QED BY <5>2, <6>3, <6>4 DEF AtRest
        <5> QED BY <5>4, <5>5
      <4> QED BY <4>1, <4>2, <4>3, <4>4 DEF IInv, CalmInv
    <3> QED BY <3>1, <3>2 DEF CalmInv
  <2> QED BY <2>8, <2>10, <2>13, <2>14, <2>15, <2>16, <2>17, <2>18, <2>19 DEF IInv
<1> QED BY <1>1, <1>2

\* A sequence with another last element.
LEMMA FrontLemma ==
    ASSUME NEW S, NEW s \in Seq(S), s # <<>>, NEW e \in S
    PROVE  /\ Front(s) \o <<e>> \in Seq(S) /\ Len(Front(s) \o <<e>>) = Len(s)
           /\ \A j \in 1 .. Len(s) - 1 : (Front(s) \o <<e>>)[j] = s[j]
           /\ (Front(s) \o <<e>>)[Len(s)] = e
<1>1. Len(s) \in Nat /\ Len(s) >= 1
  OBVIOUS
<1>2. Front(s) \in Seq(S) /\ Len(Front(s)) = Len(s) - 1
      /\ \A j \in 1 .. Len(s) - 1 : Front(s)[j] = s[j]
  <2>1. /\ Front(s) \in Seq(S)
        /\ Len(Front(s)) = IF 1 <= Len(s) - 1 THEN Len(s) - 1 - 1 + 1 ELSE 0
        /\ \A j \in 1 .. Len(s) - 1 - 1 + 1 : Front(s)[j] = s[1 + j - 1]
    BY <1>1, SubSeqProperties DEF Front
  <2>2. Len(Front(s)) = Len(s) - 1
    <3>1. CASE Len(s) = 1
      BY <2>1, <3>1
    <3>2. CASE Len(s) # 1
      <4>1. \A n \in Nat : n >= 1 /\ n # 1 => 1 <= n - 1 /\ n - 1 - 1 + 1 = n - 1
        OBVIOUS
      <4> QED BY <1>1, <2>1, <3>2, <4>1
    <3> QED BY <3>1, <3>2
  <2>3. ASSUME NEW j \in 1 .. Len(s) - 1 PROVE Front(s)[j] = s[j]
    <3>1. 1 + j - 1 = j /\ j \in 1 .. Len(s) - 1 - 1 + 1
      BY <1>1
    <3> QED BY <2>1, <3>1
  <2> QED BY <2>1, <2>2, <2>3
<1> QED BY <1>1, <1>2

\* Where the copy of process p stands, what it copies there, and what it has then.
Source(p) == FDT[call[p].from].objects
Position(p) == call[p].object + 1
CopiedObject(p) ==
    IF Source(p)[Position(p)] = Garbage THEN Junk ELSE Source(p)[Position(p)]
Copied(p) ==
    (IF pc[p] = "head" THEN <<>> ELSE Front(FDT[call[p].new].objects)) \o <<CopiedObject(p)>>

\* The copy has as many objects as the source up to where it stands, if that is at rest;
\* all are filled in and the first is the root folder.
LEMMA CopyFacts ==
    ASSUME IInv, NEW p \in Procs, pc[p] \in {"head", "copy"},
           Used(call[p].from), Used(call[p].new), call[p].object # Freed,
           Position(p) <= Len(Source(p))
    PROVE  /\ Source(p) \in Seq(Objects) /\ Position(p) \in 1 .. Len(Source(p))
           /\ Copied(p) \in Seq(Objects) /\ Copied(p) # <<>>
           /\ \A j \in 1 .. Len(Copied(p)) : Copied(p)[j] # Garbage
           /\ Copied(p)[1] = Root
           /\ AtRest(p) => /\ Len(Copied(p)) = Position(p)
                           /\ \A j \in 1 .. Position(p) - 1 : Copied(p)[j] = Source(p)[j]
                           /\ Copied(p)[Position(p)] = CopiedObject(p)
<1> DEFINE c == Copied(p)
           e == CopiedObject(p)
           mine == FDT[call[p].new].objects
           i == Position(p)
<1>1. TypeInv /\ p \in Building /\ p \in Linked
  BY DEF IInv, Building, Copying, Linked
<1>2. call[p] \in GetCall /\ call[p].object \in Nat /\ (pc[p] = "head" => call[p].object = 0)
  <2>1. call[p] \in GetCall
    BY <1>1 DEF TypeInv
  <2> QED BY <1>1, <2>1 DEF GetCall, IInv, CallsInv
<1>3. /\ Source(p) \in Seq(Objects) /\ mine \in Seq(Objects)
      /\ call[p].from \in Tables /\ call[p].new \in Tables
  BY <1>1, TableFacts DEF Table, Source
<1>4. i \in 1 .. Len(Source(p)) /\ Source(p)[i] \in Objects
  BY <1>2, <1>3 DEF Position
<1>5. e \in Objects /\ e # Garbage
  BY <1>4 DEF CopiedObject, Objects, Junk, Garbage
<1>6. CASE pc[p] = "head"
  <2>1. c = <<e>> /\ i = 1
    BY <1>2, <1>6 DEF Copied, Position
  <2>2. Source(p) # <<>> /\ Source(p)[1] = Root
    BY <1>3, <1>4 DEF IInv, ObjectsInv, Source
  <2>3. e = Root
    BY <2>1, <2>2 DEF CopiedObject, Root, Garbage
  <2>4. c \in Seq(Objects) /\ Len(c) = 1 /\ c[1] = e /\ c # <<>>
    BY <1>5, <2>1
  <2> QED BY <1>3, <1>4, <1>5, <2>1, <2>3, <2>4
<1>7. CASE pc[p] = "copy"
  <2>1. c = Front(mine) \o <<e>>
    BY <1>7 DEF Copied
  <2>2. Len(mine) >= 2 /\ mine # <<>> /\ Len(mine) \in Nat
    BY <1>1, <1>3, <1>7 DEF IInv, CallsInv
  <2> HIDE DEF c, e, mine
  <2>3. /\ c \in Seq(Objects) /\ Len(c) = Len(mine)
        /\ \A j \in 1 .. Len(mine) - 1 : c[j] = mine[j]
        /\ c[Len(mine)] = e
    BY <1>3, <1>5, <2>1, <2>2, FrontLemma
  <2>4. mine[1] = Root /\ \A j \in 1 .. Len(mine) - 1 : mine[j] # Garbage
    BY <1>1, <1>3, <2>2 DEF IInv, ObjectsInv, mine
  <2>5. AtRest(p) => /\ Len(mine) = call[p].object + 1
                     /\ \A j \in 1 .. call[p].object : mine[j] = Source(p)[j]
    BY <1>7 DEF AtRest, Source, mine
  <2>6. c # <<>> /\ c[1] = Root
    BY <2>2, <2>3, <2>4
  <2>7. \A j \in 1 .. Len(c) : c[j] # Garbage
    BY <1>5, <2>2, <2>3, <2>4
  <2>8. AtRest(p) => /\ Len(c) = i
                     /\ \A j \in 1 .. i - 1 : c[j] = Source(p)[j]
                     /\ c[i] = e
    BY <1>2, <2>2, <2>3, <2>5 DEF Position
  <2> QED BY <1>3, <1>4, <2>3, <2>6, <2>7, <2>8 DEF c, e
<1> QED BY <1>6, <1>7

\* A call whose copy goes on is otherwise the same.
LEMMA ObjectField ==
    ASSUME NEW c \in GetCall, NEW i \in Nat \cup {Freed}, NEW d, d = [c EXCEPT !.object = i]
    PROVE  /\ d \in GetCall /\ d.object = i
           /\ d.last = c.last /\ d.from = c.from /\ d.new = c.new /\ d.alone = c.alone
  BY DEF GetCall

\* What a step of the copy does, unless it faults.
LEMMA ForkObjectsStep ==
    ASSUME IInv, NEW p \in Procs, ForkObjects(p), ~Oops
    PROVE  /\ ~fault /\ pc[p] \in {"head", "copy"}
           /\ Used(call[p].from) /\ Used(call[p].new) /\ call[p].object # Freed
           /\ Position(p) <= Len(Source(p))
           /\ UNCHANGED <<FDT_list_head, alive, parent, module, fault>>
           /\ \/ /\ Position(p) = Len(Source(p))
                 /\ FDT' = [FDT EXCEPT ![call[p].new].objects = Copied(p)]
                 /\ pc' = [pc EXCEPT ![p] = "user"]
                 /\ call' = [call EXCEPT ![p] = NoCall]
                 /\ calm' = [calm EXCEPT ![p] = TRUE]
                 /\ alone' = IF call[p].alone THEN alone \cup {call[p].new} ELSE alone
              \/ /\ Position(p) < Len(Source(p))
                 /\ FDT' = [FDT EXCEPT ![call[p].new].objects = Copied(p) \o <<Garbage>>]
                 /\ pc' = [pc EXCEPT ![p] = "copy"]
                 /\ call' = [call EXCEPT ![p].object = Position(p)]
                 /\ UNCHANGED <<alone, calm>>
<1> DEFINE from == call[p].from
           new == call[p].new
           Ends == /\ FDT' = [FDT EXCEPT ![new].objects = Copied(p)]
                   /\ pc' = [pc EXCEPT ![p] = "user"]
                   /\ call' = [call EXCEPT ![p] = NoCall]
                   /\ calm' = [calm EXCEPT ![p] = TRUE]
                   /\ alone' = IF call[p].alone THEN alone \cup {new} ELSE alone
           GoesOn == /\ FDT' = [FDT EXCEPT ![new].objects = Copied(p) \o <<Garbage>>]
                     /\ pc' = [pc EXCEPT ![p] = "copy"]
                     /\ call' = [call EXCEPT ![p].object = Position(p)]
                     /\ UNCHANGED <<alone, calm>>
           Faults == \/ ~Used(from) \/ ~Used(new)
                     \/ call[p].object = Freed
                     \/ Position(p) > Len(Source(p))
<1>1. /\ ~fault /\ pc[p] \in {"head", "copy"}
      /\ IF Faults THEN Oops
         ELSE \/ /\ \/ Position(p) = Len(Source(p)) /\ Ends
                    \/ Position(p) < Len(Source(p)) /\ Len(Copied(p)) <= MaxObjects /\ GoesOn
                 /\ UNCHANGED <<FDT_list_head, alive, parent, module, fault>>
              \/ Source(p)[Position(p)] = Garbage /\ Oops
  BY Zenon DEF ForkObjects, Moves, Copied, CopiedObject, Position, Source
<1>2. ~Faults
  BY <1>1
<1> HIDE DEF Ends, GoesOn
<1>3. Position(p) \in Int /\ Len(Source(p)) \in Int
  <2>1. TypeInv /\ p \in Building
    BY <1>1 DEF IInv, Building, Copying
  <2>2. call[p] \in GetCall /\ call[p].object # Freed /\ Used(from)
    BY <1>2, <2>1 DEF TypeInv
  <2>3. FDT[from] \in Table
    BY <2>1, <2>2, TableFacts
  <2> QED BY <2>2, <2>3 DEF GetCall, Table, Position, Source
<1>4. Position(p) <= Len(Source(p))
  BY <1>2, <1>3
<1> QED BY <1>1, <1>2, <1>4 DEF Ends, GoesOn

\* A table with other objects is a table.
LEMMA ObjectsField ==
    ASSUME NEW r \in Table, NEW objs \in Seq(Objects), NEW d, d = [r EXCEPT !.objects = objs]
    PROVE  /\ d \in Table /\ d.objects = objs
           /\ d.state = r.state /\ d.pid = r.pid /\ d.next = r.next /\ d.cur_path = r.cur_path
  BY DEF Table

\* The objects are copied, one after the other.
LEMMA ForkObjectsPreserves ==
    ASSUME IInv, NEW p \in Procs, ForkObjects(p)
    PROVE  IInv'
<1> DEFINE new == call[p].new
           from == call[p].from
           i == Position(p)
           ends == i = Len(Source(p))
           copied == Copied(p)
           objs == IF ends THEN copied ELSE copied \o <<Garbage>>
<1>1. CASE Oops
  BY <1>1, QuietPreserves DEF Oops
<1>2. CASE ~Oops
  <2>1. /\ ~fault /\ pc[p] \in {"head", "copy"} /\ Used(from) /\ Used(new)
        /\ call[p].object # Freed /\ i <= Len(Source(p))
        /\ UNCHANGED <<FDT_list_head, alive, parent, module, fault>>
        /\ FDT' = [FDT EXCEPT ![new].objects = objs]
        /\ ends => /\ pc' = [pc EXCEPT ![p] = "user"]
                   /\ call' = [call EXCEPT ![p] = NoCall]
                   /\ calm' = [calm EXCEPT ![p] = TRUE]
                   /\ alone' = IF call[p].alone THEN alone \cup {new} ELSE alone
        /\ ~ends => /\ i < Len(Source(p))
                    /\ pc' = [pc EXCEPT ![p] = "copy"]
                    /\ call' = [call EXCEPT ![p] = [call[p] EXCEPT !.object = i]]
                    /\ UNCHANGED <<alone, calm>>
    <3>1. /\ ~fault /\ pc[p] \in {"head", "copy"} /\ Used(from) /\ Used(new)
          /\ call[p].object # Freed /\ i <= Len(Source(p))
          /\ UNCHANGED <<FDT_list_head, alive, parent, module, fault>>
          /\ \/ /\ ends
                /\ FDT' = [FDT EXCEPT ![new].objects = copied]
                /\ pc' = [pc EXCEPT ![p] = "user"]
                /\ call' = [call EXCEPT ![p] = NoCall]
                /\ calm' = [calm EXCEPT ![p] = TRUE]
                /\ alone' = IF call[p].alone THEN alone \cup {new} ELSE alone
             \/ /\ i < Len(Source(p))
                /\ FDT' = [FDT EXCEPT ![new].objects = copied \o <<Garbage>>]
                /\ pc' = [pc EXCEPT ![p] = "copy"]
                /\ call' = [call EXCEPT ![p].object = i]
                /\ UNCHANGED <<alone, calm>>
      BY <1>2, ForkObjectsStep, Zenon
    <3>2. i < Len(Source(p)) => ~ends
      <4>1. i \in Int /\ Len(Source(p)) \in Int
        BY <3>1, CopyFacts
      <4> HIDE DEF i
      <4> QED BY <4>1
    <3> HIDE DEF copied, new, i
    <3> QED BY <3>1, <3>2
  <2>2. /\ TypeInv /\ LinksInv /\ NULL \notin Tables /\ Garbage \notin Tables /\ NULL # Garbage
        /\ \A x : Used(x) => x \in Tables /\ FDT[x] \in Table /\ Taken(x)
        /\ MaxTables \in Nat /\ Tables = 1 .. MaxTables
    BY TableFacts DEF IInv, NULL, Garbage
  <2>3. /\ p \in Linked /\ p \in Building /\ p \in Copying /\ p \notin Linking /\ p \notin Opening
    BY <2>1 DEF Linked, Building, Copying, Linking, Opening
  <2>4. /\ from \in Tables /\ new \in Tables /\ from # new /\ FDT[new].pid = p
        /\ call[p] \in GetCall /\ Taken(new)
    BY <2>1, <2>2, <2>3 DEF IInv, CallsInv, TypeInv
  <2>5. /\ Source(p) \in Seq(Objects) /\ i \in 1 .. Len(Source(p))
        /\ copied \in Seq(Objects) /\ copied # <<>>
        /\ \A j \in 1 .. Len(copied) : copied[j] # Garbage
        /\ copied[1] = Root
        /\ AtRest(p) => /\ Len(copied) = i
                        /\ \A j \in 1 .. i - 1 : copied[j] = Source(p)[j]
                        /\ copied[i] = CopiedObject(p)
    BY <2>1, CopyFacts
  <2> HIDE DEF new, from, i, copied
  <2>6. /\ objs \in Seq(Objects) /\ objs # <<>> /\ objs[1] = Root
        /\ \A j \in 1 .. Len(objs) - 1 : objs[j] # Garbage
        /\ ends => objs[Len(objs)] # Garbage
        /\ ~ends => /\ Len(objs) = Len(copied) + 1 /\ Len(objs) >= 2
                    /\ \A j \in 1 .. Len(copied) : objs[j] = copied[j]
    <3>1. Len(copied) \in Nat /\ Len(copied) >= 1 /\ Garbage \in Objects
      BY <2>5 DEF Objects
    <3>2. CASE ends
      BY <2>5, <3>1, <3>2
    <3>3. CASE ~ends
      <4>1. objs = copied \o <<Garbage>>
        BY <3>3
      <4>2. objs \in Seq(Objects) /\ Len(objs) = Len(copied) + 1
            /\ \A j \in 1 .. Len(copied) : objs[j] = copied[j]
        BY <2>5, <3>1, <4>1
      <4>3. objs # <<>> /\ objs[1] = Root
        BY <2>5, <3>1, <4>2
      <4> HIDE DEF objs
      <4>4. \A j \in 1 .. Len(objs) - 1 : objs[j] # Garbage
        BY <2>5, <3>1, <4>2
      <4> QED BY <3>1, <3>3, <4>2, <4>3, <4>4
    <3> QED BY <3>2, <3>3
  <2> HIDE DEF objs
  <2>7. /\ FDT' \in [Tables -> Table \cup {NoTable, FreedTable}]
        /\ FDT'[new].objects = objs
        /\ \A t \in Tables : t # new => FDT'[t] = FDT[t]
        /\ \A t \in Tables : /\ FDT'[t].state = FDT[t].state /\ FDT'[t].pid = FDT[t].pid
                             /\ FDT'[t].next = FDT[t].next
                             /\ FDT'[t].cur_path = FDT[t].cur_path
    <3> DEFINE d == [FDT[new] EXCEPT !.objects = objs]
    <3>1. /\ d \in Table /\ d.objects = objs
          /\ d.state = FDT[new].state /\ d.pid = FDT[new].pid /\ d.next = FDT[new].next
          /\ d.cur_path = FDT[new].cur_path
      <4>1. FDT[new] \in Table
        BY <2>1, <2>2
      <4> QED BY <2>6, <4>1, ObjectsField
    <3>2. FDT' = [FDT EXCEPT ![new] = d]
      BY <2>1
    <3> HIDE DEF d
    <3>3. /\ FDT'[new] = d
          /\ \A t \in Tables : t # new => FDT'[t] = FDT[t]
          /\ FDT' \in [Tables -> Table \cup {NoTable, FreedTable}]
      BY <2>2, <2>4, <3>1, <3>2 DEF TypeInv
    <3> QED BY <3>1, <3>3
  <2>8. /\ Linking' = Linking /\ Opening' = Opening /\ (Serving' <=> Serving)
        /\ \A q \in Procs : q # p => pc'[q] = pc[q] /\ call'[q] = call[q]
        /\ ends => /\ pc'[p] = "user" /\ call'[p] = NoCall
                   /\ Linked' = Linked \ {p} /\ Building' = Building \ {p}
                   /\ Copying' = Copying \ {p}
        /\ ~ends => /\ pc'[p] = "copy" /\ call'[p] = [call[p] EXCEPT !.object = i]
                    /\ Linked' = Linked /\ Building' = Building /\ Copying' = Copying
    <3>1. /\ \A q \in Procs : q # p => pc'[q] = pc[q] /\ call'[q] = call[q]
          /\ ends => pc'[p] = "user" /\ call'[p] = NoCall
          /\ ~ends => pc'[p] = "copy" /\ call'[p] = [call[p] EXCEPT !.object = i]
      BY <2>1, <2>2 DEF TypeInv
    <3> HIDE DEF ends
    <3> QED BY <2>1, <3>1 DEF Linking, Linked, Building, Copying, Opening, Serving
  <2>9. ~ends => /\ call'[p] \in GetCall /\ call'[p].object = i
                 /\ call'[p].last = call[p].last /\ call'[p].from = from
                 /\ call'[p].new = new /\ call'[p].alone = call[p].alone
    BY <2>4, <2>5, <2>8, ObjectField DEF new, from
  <2> HIDE DEF ends
  <2>10. TypeInv'
    <3>1. pc' \in [Procs -> {"user", "create", "fork", "path", "head", "copy", "open", "newpath"}]
      BY <2>1, <2>2 DEF TypeInv
    <3>2. call' \in [Procs -> GetCall \cup OpenCall \cup {NoCall}]
      <4>1. CASE ends
        BY <2>1, <2>2, <4>1 DEF TypeInv
      <4>2. CASE ~ends
        <5>1. [call[p] EXCEPT !.object = i] \in GetCall
          BY <2>8, <2>9, <4>2
        <5> QED BY <2>1, <2>2, <4>2, <5>1 DEF TypeInv
      <4> QED BY <4>1, <4>2
    <3>3. \A q \in Building' : call'[q] \in GetCall
      BY <2>2, <2>8, <2>9 DEF TypeInv, Building, Copying
    <3>4. \A q \in Opening' : call'[q] \in OpenCall
      BY <2>2, <2>3, <2>8 DEF TypeInv, Opening
    <3>5. \A q \in Procs : Inside(q)' => q \in alive'
      BY <2>1, <2>2, <2>8 DEF TypeInv, Inside
    <3>6. alone' \in SUBSET Tables /\ calm' \in [Procs -> BOOLEAN]
      BY <2>1, <2>2, <2>4 DEF TypeInv
    <3> QED BY <2>1, <2>2, <2>7, <3>1, <3>2, <3>3, <3>4, <3>5, <3>6 DEF TypeInv
  <2>11. /\ LinksInv' /\ Listed' = Listed /\ Fresh' = Fresh
         /\ \A x : Used(x)' <=> Used(x)
         /\ \A t \in Tables : Taken(t)' <=> Taken(t)
    BY <2>1, <2>2, <2>7, <2>10, SameLinks
  <2>12. FreshInv'
    BY <2>8, <2>11 DEF IInv, FreshInv
  <2>13. ObjectsInv'
    <3> SUFFICES ASSUME NEW t \in Tables, Used(t)
                 PROVE  /\ FDT'[t].objects # <<>> => FDT'[t].objects[1] = Root
                        /\ \A j \in 1 .. Len(FDT'[t].objects) - 1 :
                              FDT'[t].objects[j] # Garbage
      BY <2>11 DEF ObjectsInv
    <3>1. CASE t = new
      BY <2>6, <2>7, <3>1
    <3>2. CASE t # new
      <4>1. FDT'[t] = FDT[t]
        BY <2>7, <3>2
      <4> QED BY <4>1 DEF IInv, ObjectsInv
    <3> QED BY <3>1, <3>2
  <2>14. PidInv'
    <3>1. Listed \subseteq Tables
      BY <2>2, ListLemma DEF ListFacts
    <3> QED BY <2>7, <2>8, <2>11, <3>1 DEF IInv, PidInv, OneTable
  <2>15. ModuleInv'
    <3>1. module # "new"
      BY <2>1 DEF IInv, ModuleInv, Inside
    <3> QED BY <2>1, <2>7, <3>1 DEF IInv, ModuleInv
  <2>16. CallsInv'
    <3>1. ASSUME NEW q \in Building'
          PROVE  /\ call'[q].last \in Tables => Taken(call[q].last)'
                 /\ call'[q].from \in Tables => Taken(call[q].from)'
                 /\ pc'[q] # "create" => call'[q].from \in Tables
                 /\ pc'[q] # "copy" => call'[q].object = 0
      <4>1. q \in Building /\ q \in Procs
        BY <2>8, <3>1 DEF Building, Copying
      <4>2. CASE q = p
        <5>1. ~ends
          BY <2>8, <3>1, <4>2
        <5>2. /\ call'[q].last = call[p].last /\ call'[q].from = call[p].from
              /\ pc'[q] = "copy"
          BY <2>8, <2>9, <4>2, <5>1 DEF from
        <5> QED BY <2>4, <2>11, <4>1, <4>2, <5>2 DEF IInv, CallsInv, from
      <4>3. CASE q # p
        <5>1. call'[q] = call[q] /\ pc'[q] = pc[q]
          BY <2>8, <4>1, <4>3
        <5> QED BY <2>11, <4>1, <5>1 DEF IInv, CallsInv
      <4> QED BY <4>2, <4>3
    <3>2. ASSUME NEW q \in Linked'
          PROVE  /\ call'[q].new \in Tables /\ Taken(call[q].new)'
                 /\ call'[q].from < call'[q].new
                 /\ Used(call[q].new)' =>
                     /\ FDT'[call'[q].new].pid = q
                     /\ IF pc'[q] = "copy" THEN Len(FDT'[call'[q].new].objects) >= 2
                        ELSE FDT'[call'[q].new].objects = <<>>
      <4>1. q \in Linked /\ q \in Procs
        BY <2>8, <3>2 DEF Linked
      <4>2. /\ call[q].new \in Tables /\ Taken(call[q].new) /\ call[q].from < call[q].new
            /\ Used(call[q].new) => FDT[call[q].new].pid = q
        BY <4>1 DEF IInv, CallsInv
      <4>3. CASE q = p
        <5>1. ~ends
          BY <2>8, <3>2, <4>3
        <5>2. call'[q].new = new /\ call'[q].from = from /\ pc'[q] = "copy"
          BY <2>8, <2>9, <4>3, <5>1
        <5>3. new = call[q].new /\ from = call[q].from
          BY <4>3 DEF new, from
        <5>4. FDT'[new].pid = q /\ Len(FDT'[new].objects) >= 2
          BY <2>4, <2>6, <2>7, <4>3, <5>1
        <5> QED BY <2>11, <4>2, <5>2, <5>3, <5>4
      <4>4. CASE q # p
        <5>1. call'[q] = call[q] /\ pc'[q] = pc[q]
          BY <2>8, <4>1, <4>4
        <5>2. Used(call[q].new) => FDT'[call[q].new] = FDT[call[q].new]
          BY <2>4, <2>7, <4>2, <4>4
        <5> QED BY <2>11, <4>1, <5>1, <5>2 DEF IInv, CallsInv
      <4> QED BY <4>3, <4>4
    <3>3. ASSUME NEW q \in Opening'
          PROVE  /\ Taken(call[q].own)'
                 /\ Used(call[q].own)' => /\ FDT'[call'[q].own].pid = q
                                           /\ FDT'[call'[q].own].objects # <<>>
      <4>1. q \in Opening /\ q # p /\ call'[q] = call[q] /\ call[q].own \in Tables
        BY <2>2, <2>3, <2>8, <3>3 DEF TypeInv, OpenCall, Opening
      <4>2. /\ Taken(call[q].own)
            /\ Used(call[q].own) => FDT[call[q].own].pid = q /\ FDT[call[q].own].objects # <<>>
        BY <4>1 DEF IInv, CallsInv
      <4>3. Used(call[q].own) => FDT'[call[q].own] = FDT[call[q].own]
        BY <2>4, <2>7, <4>1, <4>2
      <4> QED BY <2>11, <4>1, <4>2, <4>3
    <3> QED BY <3>1, <3>2, <3>3 DEF CallsInv
  <2>17. UnfinishedInv'
    <3> SUFFICES ASSUME NEW t \in Tables, Used(t)
                 PROVE  /\ FDT'[t].next = Garbage =>
                              \E q \in Linked' : pc'[q] = "path" /\ call'[q].new = t
                        /\ FDT'[t].cur_path = Garbage =>
                              \E q \in Linked' : pc'[q] = "path" /\ call'[q].new = t
                        /\ FDT'[t].cur_path = Freed =>
                              \E q \in Opening' : pc'[q] = "newpath" /\ call'[q].own = t
                        /\ FDT'[t].objects = <<>> =>
                              \E q \in Linked' : pc'[q] # "copy" /\ call'[q].new = t
                        /\ FDT'[t].objects # <<>>
                           /\ FDT'[t].objects[Len(FDT'[t].objects)] = Garbage =>
                              \E q \in Linked' : pc'[q] = "copy" /\ call'[q].new = t
      BY <2>11 DEF UnfinishedInv
    <3>1. \A q \in Linked : q # p => q \in Linked' /\ pc'[q] = pc[q] /\ call'[q] = call[q]
      BY <2>8 DEF Linked
    <3>2. \A q \in Opening : q \in Opening' /\ pc'[q] = pc[q] /\ call'[q] = call[q]
      BY <2>3, <2>8 DEF Opening
    <3>3. /\ FDT[t].next = Garbage => \E q \in Linked : pc[q] = "path" /\ call[q].new = t
          /\ FDT[t].cur_path = Garbage => \E q \in Linked : pc[q] = "path" /\ call[q].new = t
          /\ FDT[t].cur_path = Freed => \E q \in Opening : pc[q] = "newpath" /\ call[q].own = t
          /\ FDT[t].objects = <<>> => \E q \in Linked : pc[q] # "copy" /\ call[q].new = t
          /\ FDT[t].objects # <<>> /\ FDT[t].objects[Len(FDT[t].objects)] = Garbage =>
                \E q \in Linked : pc[q] = "copy" /\ call[q].new = t
      BY DEF IInv, UnfinishedInv
    <3>4. FDT'[t].next = FDT[t].next /\ FDT'[t].cur_path = FDT[t].cur_path
      BY <2>7
    <3>5. \A q \in Linked : pc[q] = "path" => q # p
      BY <2>1
    <3>6. /\ FDT'[t].next = Garbage =>
                \E q \in Linked' : pc'[q] = "path" /\ call'[q].new = t
          /\ FDT'[t].cur_path = Garbage =>
                \E q \in Linked' : pc'[q] = "path" /\ call'[q].new = t
          /\ FDT'[t].cur_path = Freed =>
                \E q \in Opening' : pc'[q] = "newpath" /\ call'[q].own = t
      BY <3>1, <3>2, <3>3, <3>4, <3>5
    <3>7. CASE t = new
      <4>1. FDT'[t].objects = objs /\ objs # <<>>
        BY <2>6, <2>7, <3>7
      <4>2. ~ends => p \in Linked' /\ pc'[p] = "copy" /\ call'[p].new = t
        BY <2>3, <2>8, <2>9, <3>7
      <4> QED BY <2>6, <3>6, <4>1, <4>2
    <3>8. CASE t # new
      <4>1. FDT'[t] = FDT[t]
        BY <2>7, <3>8
      <4>2. \A q \in Linked : call[q].new = t => q # p
        BY <3>8 DEF new
      <4> QED BY <3>1, <3>3, <3>6, <4>1, <4>2
    <3> QED BY <3>7, <3>8
  <2>18. AloneInv'
    <3>1. call[p].alone => Serving /\ Building = {p} /\ new \in Listed
      BY <2>1, <2>3 DEF IInv, AloneInv, new
    <3>2. \A t \in alone' : t \in alone \/ (t = new /\ call[p].alone /\ ends)
      BY <2>1
    <3>3. AloneKept'
      <4>1. Serving' => alone' \subseteq Listed'
        BY <2>8, <2>11, <3>1, <3>2 DEF IInv, AloneInv, AloneKept
      <4>2. ~Serving' /\ ~fault' => \A t \in alone' : ~Used(t)'
        BY <2>1, <2>8, <2>11, <3>1, <3>2 DEF IInv, AloneInv, AloneKept
      <4> QED BY <4>1, <4>2 DEF AloneKept
    <3>4. \A t \in alone' : Taken(t)'
      <4>1. \A t \in alone : Taken(t) /\ t \in Tables
        BY <2>2 DEF IInv, AloneInv, TypeInv
      <4> QED BY <2>4, <2>11, <3>2, <4>1
    <3>5. ASSUME NEW q \in Building', call'[q].alone
          PROVE  /\ Serving' /\ Building' = {q}
                 /\ q \in Linking' /\ call'[q].last \in Tables => call'[q].last \in Listed'
                 /\ q \in Linked' => call'[q].new \in Listed'
      <4>1. q = p /\ ~ends
        <5>1. CASE q # p
          <6>1. q \in Building /\ q \in Procs /\ call[q].alone
            BY <2>8, <3>5, <5>1 DEF Building, Copying
          <6>2. Building = {q}
            BY <2>1, <6>1 DEF IInv, AloneInv
          <6> QED BY <2>3, <5>1, <6>2
        <5>2. CASE q = p
          BY <2>8, <3>5, <5>2
        <5> QED BY <5>1, <5>2
      <4>2. call[p].alone /\ call'[q].new = new
        BY <2>9, <3>5, <4>1
      <4> QED BY <2>3, <2>8, <2>11, <3>1, <4>1, <4>2
    <3>6. ASSUME Serving', NEW t \in alone'
          PROVE  /\ \A q \in Linking' : call'[q].last \in Tables /\ t <= call'[q].last
                 /\ \A q \in Linked' : pc'[q] = "path" => t < call'[q].new
      <4>1. ASSUME NEW q \in Building', pc'[q] # "copy"
            PROVE  q \in Building /\ q # p /\ pc'[q] = pc[q] /\ call'[q] = call[q] /\ t \in alone
        <5>1. q \in Building /\ q \in Procs /\ q # p
          BY <2>8, <4>1 DEF Building, Copying
        <5>2. pc'[q] = pc[q] /\ call'[q] = call[q]
          BY <2>8, <5>1
        <5>3. t \in alone
          BY <3>1, <3>2, <5>1
        <5> QED BY <5>1, <5>2, <5>3
      <4>2. \A q \in Linking' : q \in Building' /\ pc'[q] # "copy" /\ q \in Linking
        BY <2>8 DEF Linking, Building, Copying
      <4>3. \A q \in Linked' : q \in Building' /\ q \in Linked
        BY <2>8 DEF Linked, Building, Copying
      <4> QED BY <2>8, <3>6, <4>1, <4>2, <4>3 DEF IInv, AloneInv
    <3> QED BY <3>3, <3>4, <3>5, <3>6 DEF AloneInv
  <2>19. CalmInv'
    <3>1. ASSUME NEW q \in Procs, q \notin Copying' PROVE calm'[q]
      <4>1. CASE ends
        BY <2>1, <2>2, <2>8, <3>1, <4>1 DEF IInv, CalmInv, TypeInv
      <4>2. CASE ~ends
        BY <2>1, <2>8, <3>1, <4>2 DEF IInv, CalmInv
      <4> QED BY <4>1, <4>2
    <3>2. ASSUME Serving', NEW q \in Copying'
          PROVE  /\ parent'[q] # Init_pid => FDT'[call'[q].from].pid = parent'[q]
                 /\ calm'[q] => AtRest(q)'
      <4>1. q \in Copying /\ q \in Procs /\ q \in Building /\ Serving /\ (q = p => ~ends)
        BY <2>8, <3>2 DEF Building, Copying
      <4>2. /\ parent'[q] = parent[q] /\ call'[q].from = call[q].from
            /\ call'[q].new = call[q].new
            /\ call[q].from \in Tables
            /\ calm'[q] = calm[q]
        <5>1. call[q].from \in Tables
          BY <4>1 DEF IInv, CallsInv, Copying
        <5>2. call'[q].from = call[q].from /\ call'[q].new = call[q].new
          BY <2>8, <2>9, <4>1 DEF from, new
        <5>3. calm'[q] = calm[q]
          BY <2>1, <2>2, <4>1 DEF TypeInv
        <5> QED BY <2>1, <5>1, <5>2, <5>3
      <4>3. FDT'[call'[q].from].pid = FDT[call[q].from].pid
        BY <2>7, <4>2
      <4>4. ASSUME calm'[q] PROVE AtRest(q)'
        <5>1. AtRest(q)
          BY <4>1, <4>2, <4>4 DEF IInv, CalmInv
        <5>2. \A r \in Linked' : call'[r].new # call'[q].from
          <6> SUFFICES ASSUME NEW r \in Linked' PROVE call'[r].new # call[q].from
            BY <4>2
          <6>1. r \in Linked /\ r \in Procs /\ (r = p => ~ends)
            BY <2>8 DEF Linked
          <6>2. call'[r].new = call[r].new
            BY <2>8, <2>9, <6>1 DEF new
          <6> QED BY <5>1, <6>1, <6>2 DEF AtRest
        <5>3. \A r \in Opening' : call'[r].own # call'[q].from
          BY <2>3, <2>8, <4>2, <5>1 DEF AtRest, Opening
        <5>4. FDT'[call'[q].from] = FDT[call[q].from]
          BY <2>3, <2>7, <4>2, <5>1 DEF AtRest, new
        <5>5. CASE q = p
          <6>1. /\ pc'[q] = "copy" /\ call'[q].object = i /\ call'[q].new = new
                /\ call[q].from = from /\ i < Len(Source(p)) /\ ~ends
            BY <2>1, <2>8, <2>9, <4>1, <5>5 DEF from
          <6>2. FDT'[new].cur_path = FDT'[call'[q].from].cur_path
            BY <2>1, <2>4, <2>7, <4>2, <5>1, <5>5, <6>1 DEF AtRest, new, from
          <6>3. Source(p) = FDT'[call'[q].from].objects
            BY <5>4, <5>5 DEF Source
          <6>4. Len(objs) = i + 1 /\ i \in 1 .. Len(Source(p)) - 1
            BY <2>5, <2>6, <5>1, <5>5, <6>1
          <6>5. ASSUME NEW j \in 1 .. i PROVE objs[j] = Source(p)[j]
            <7>1. objs[j] = copied[j]
              BY <2>5, <2>6, <5>1, <5>5, <6>1
            <7>2. CASE j = i
              <8>1. Source(p)[i] # Garbage
                BY <2>1, <2>4, <6>4 DEF IInv, ObjectsInv, Source, from
              <8> QED BY <2>5, <5>1, <5>5, <7>1, <7>2, <8>1 DEF CopiedObject, i
            <7>3. CASE j # i
              <8>1. j \in 1 .. i - 1
                BY <2>5, <7>3
              <8> QED BY <2>5, <5>1, <5>5, <7>1, <8>1
            <7> QED BY <7>2, <7>3
          <6>6. FDT'[call'[q].new].objects = objs
            BY <2>7, <6>1
          <6> QED BY <5>2, <5>3, <6>1, <6>2, <6>3, <6>4, <6>5, <6>6 DEF AtRest
        <5>6. CASE q # p
          <6>1. call'[q] = call[q] /\ pc'[q] = pc[q]
            BY <2>8, <4>1, <5>6
          <6>2. pc[q] \in {"head", "copy"} => FDT'[call'[q].new] = FDT[call[q].new]
            <7> SUFFICES ASSUME q \in Linked PROVE FDT'[call'[q].new] = FDT[call[q].new]
              BY <4>1 DEF Linked
            <7>1. call[q].new \in Tables /\ (Used(call[q].new) => FDT[call[q].new].pid = q)
              BY DEF IInv, CallsInv
            <7>2. call[q].new # new
              BY <2>1, <2>4, <5>6, <7>1
            <7> QED BY <2>7, <6>1, <7>1, <7>2
          <6>3. pc'[q] \in {"head", "copy"} =>
                  FDT'[call'[q].new].cur_path = FDT'[call'[q].from].cur_path
            BY <5>1, <5>4, <6>1, <6>2 DEF AtRest
          <6>4. pc'[q] = "copy" =>
                  /\ call'[q].object \in 1 .. Len(FDT'[call'[q].from].objects) - 1
                  /\ Len(FDT'[call'[q].new].objects) = call'[q].object + 1
                  /\ \A j \in 1 .. call'[q].object :
                        FDT'[call'[q].new].objects[j] = FDT'[call'[q].from].objects[j]
            BY <5>1, <5>4, <6>1, <6>2 DEF AtRest
          <6> QED BY <5>2, <5>3, <6>3, <6>4 DEF AtRest
        <5> QED BY <5>5, <5>6
      <4> QED BY <4>1, <4>2, <4>3, <4>4 DEF IInv, CalmInv
    <3> QED BY <3>1, <3>2 DEF CalmInv
  <2> QED BY <2>10, <2>11, <2>12, <2>13, <2>14, <2>15, <2>16, <2>17, <2>18, <2>19 DEF IInv
<1> QED BY <1>1, <1>2

\* A process that is not copying has filled its table in.
LEMMA OwnFilled ==
    ASSUME IInv, NEW p \in Procs, p \notin Linked,
           NEW own \in Tables, Used(own), FDT[own].pid = p
    PROVE  /\ FDT[own] \in Table
           /\ FDT[own].next # Garbage /\ FDT[own].cur_path # Garbage
           /\ FDT[own].cur_path = Freed => p \in Opening /\ pc[p] = "newpath"
           /\ FDT[own].objects # <<>> /\ FDT[own].objects[1] = Root
           /\ \A j \in 1 .. Len(FDT[own].objects) : FDT[own].objects[j] # Garbage
<1>1. FDT[own] \in Table
  BY TableFacts DEF IInv
<1>2. \A q \in Linked : call[q].new # own
  BY DEF IInv, CallsInv
<1>3. \A q \in Opening : call[q].own = own => q = p
  BY DEF IInv, CallsInv
<1>4. /\ FDT[own].next # Garbage /\ FDT[own].cur_path # Garbage
      /\ FDT[own].cur_path = Freed => p \in Opening /\ pc[p] = "newpath"
      /\ FDT[own].objects # <<>>
      /\ FDT[own].objects[Len(FDT[own].objects)] # Garbage
  BY <1>2, <1>3 DEF IInv, UnfinishedInv
<1>5. /\ FDT[own].objects[1] = Root
      /\ \A j \in 1 .. Len(FDT[own].objects) - 1 : FDT[own].objects[j] # Garbage
  BY <1>4 DEF IInv, ObjectsInv
<1>6. \A j \in 1 .. Len(FDT[own].objects) :
        j \in 1 .. Len(FDT[own].objects) - 1 \/ j = Len(FDT[own].objects)
  <2>1. Len(FDT[own].objects) \in Nat
    BY <1>1 DEF Table
  <2> QED BY <2>1
<1> QED BY <1>1, <1>4, <1>5, <1>6

\* Process p, which is not copying, gives its table the content d, filled in; whoever copies
\* it is not calm.
Works(p, own, d) ==
    /\ p \notin Building /\ module # "new"
    /\ Used(own) /\ FDT[own].pid = p
    /\ FDT' = [FDT EXCEPT ![own] = d]
    /\ d.pid = p /\ d.next = FDT[own].next
    /\ d.objects # <<>> /\ d.objects[1] = Root
    /\ \A j \in 1 .. Len(d.objects) : d.objects[j] # Garbage
    /\ d.cur_path # Garbage /\ (d.cur_path = Freed => pc'[p] = "newpath")
    /\ p \in Opening => call[p].own = own
    /\ pc'[p] \in {"user", "open", "newpath"} /\ (pc'[p] # "user" => call'[p].own = own)
    /\ \A q \in Procs : q # p => pc'[q] = pc[q]
    /\ \A q \in Building : /\ call'[q].last = call[q].last /\ call'[q].from = call[q].from
                           /\ call'[q].new = call[q].new /\ call'[q].alone = call[q].alone
                           /\ pc[q] # "copy" \/ call[q].from # own => call'[q] = call[q]
    /\ \A q \in Opening : q # p => call'[q] = call[q]
    /\ \A q \in Procs : q \notin Copying => calm'[q]
    /\ Serving => \A q \in Copying : calm'[q] => calm[q] /\ call[q].from # own
    /\ UNCHANGED <<FDT_list_head, parent, module, fault, alone>>

\* No other call works on that table.
LEMMA WorkPreserves ==
    ASSUME IInv, NEW p \in Procs, NEW own \in Tables, NEW d \in Table, Works(p, own, d), TypeInv'
    PROVE  IInv'
<1> USE DEF Works
<1>1. /\ TypeInv /\ LinksInv
      /\ \A x : Used(x) => x \in Tables /\ FDT[x] \in Table /\ Taken(x)
  BY TableFacts DEF IInv
<1>2. /\ Linking' = Linking /\ Linked' = Linked /\ Building' = Building /\ Copying' = Copying
      /\ \A q \in Opening' : q = p \/ q \in Opening
      /\ \A q \in Opening : q = p \/ q \in Opening'
      /\ Serving' <=> Serving
      /\ p \notin Linking /\ p \notin Linked /\ p \notin Copying
      /\ \A q \in Linking \cup Linked \cup Copying \cup Opening : q \in Procs
      /\ Linking \subseteq Building /\ Linked \subseteq Building /\ Copying \subseteq Building
  BY DEF Linking, Linked, Building, Copying, Opening, Serving
<1>3. /\ FDT'[own] = d
      /\ \A t \in Tables : t # own => FDT'[t] = FDT[t]
      /\ \A t \in Tables : /\ FDT'[t].state = FDT[t].state
                           /\ Used(t) => FDT'[t].next = FDT[t].next /\ FDT'[t].pid = FDT[t].pid
  <2>1. FDT'[own] = d /\ \A t \in Tables : t # own => FDT'[t] = FDT[t]
    BY <1>1 DEF TypeInv
  <2>2. d.state = "used" /\ FDT[own].state = "used"
    BY <1>1 DEF Table
  <2> QED BY <2>1, <2>2
<1>4. /\ LinksInv' /\ Listed' = Listed /\ Fresh' = Fresh
      /\ \A x : Used(x)' <=> Used(x)
      /\ \A t \in Tables : Taken(t)' <=> Taken(t)
  BY <1>1, <1>3, SameLinks
<1>5. Listed \subseteq Tables /\ \A t \in Listed : Used(t)
  BY <1>1, ListLemma DEF ListFacts
<1>6. /\ \A q \in Linked : call[q].new \in Tables /\ (Used(call[q].new) => call[q].new # own)
      /\ \A q \in Opening : q # p => /\ call[q].own \in Tables
                                     /\ Used(call[q].own) => call[q].own # own
  <2>1. \A q \in Opening : call[q].own \in Tables
    BY <1>1 DEF TypeInv, OpenCall
  <2> QED BY <1>2, <2>1 DEF IInv, CallsInv
<1>7. FreshInv' /\ PidInv' /\ ModuleInv'
  BY <1>2, <1>3, <1>4, <1>5 DEF IInv, FreshInv, PidInv, OneTable, ModuleInv
<1>8. ObjectsInv'
  <2> SUFFICES ASSUME NEW t \in Tables, Used(t)
               PROVE  /\ FDT'[t].objects # <<>> => FDT'[t].objects[1] = Root
                      /\ \A j \in 1 .. Len(FDT'[t].objects) - 1 :
                            FDT'[t].objects[j] # Garbage
    BY <1>4 DEF ObjectsInv
  <2>1. CASE t = own
    <3>1. \A j \in 1 .. Len(d.objects) - 1 : j \in 1 .. Len(d.objects)
      <4>1. Len(d.objects) \in Nat
        BY DEF Table
      <4> QED BY <4>1
    <3> QED BY <1>3, <2>1, <3>1
  <2>2. CASE t # own
    <3>1. FDT'[t] = FDT[t]
      BY <1>3, <2>2
    <3> QED BY <3>1 DEF IInv, ObjectsInv
  <2> QED BY <2>1, <2>2
<1>9. CallsInv'
  <2>1. ASSUME NEW q \in Building'
        PROVE  /\ call'[q].last \in Tables => Taken(call[q].last)'
               /\ call'[q].from \in Tables => Taken(call[q].from)'
               /\ pc'[q] # "create" => call'[q].from \in Tables
               /\ pc'[q] # "copy" => call'[q].object = 0
    <3>1. q \in Building /\ pc'[q] = pc[q]
      BY <1>2, <2>1 DEF Building, Copying
    <3>2. call'[q].last = call[q].last /\ call'[q].from = call[q].from
          /\ (pc[q] # "copy" => call'[q] = call[q])
      BY <3>1
    <3> QED BY <1>4, <3>1, <3>2 DEF IInv, CallsInv
  <2>2. ASSUME NEW q \in Linked'
        PROVE  /\ call'[q].new \in Tables /\ Taken(call[q].new)'
               /\ call'[q].from < call'[q].new
               /\ Used(call[q].new)' =>
                   /\ FDT'[call'[q].new].pid = q
                   /\ IF pc'[q] = "copy" THEN Len(FDT'[call'[q].new].objects) >= 2
                      ELSE FDT'[call'[q].new].objects = <<>>
    <3>1. q \in Linked /\ q \in Building /\ q # p /\ q \in Procs
      BY <1>2, <2>2
    <3>2. pc'[q] = pc[q] /\ call'[q].new = call[q].new /\ call'[q].from = call[q].from
      BY <3>1
    <3>3. Used(call[q].new) => FDT'[call[q].new] = FDT[call[q].new]
      BY <1>3, <1>6, <3>1
    <3> QED BY <1>4, <3>1, <3>2, <3>3 DEF IInv, CallsInv
  <2>3. ASSUME NEW q \in Opening'
        PROVE  /\ Taken(call[q].own)'
               /\ Used(call[q].own)' => /\ FDT'[call'[q].own].pid = q
                                         /\ FDT'[call'[q].own].objects # <<>>
    <3>1. CASE q = p
      <4>1. call'[q].own = own
        BY <2>3, <3>1 DEF Opening
      <4> QED BY <1>1, <1>3, <1>4, <3>1, <4>1
    <3>2. CASE q # p
      <4>1. q \in Opening /\ call'[q] = call[q]
        BY <1>2, <2>3, <3>2
      <4>2. call[q].own \in Tables /\ (Used(call[q].own) => FDT'[call[q].own] = FDT[call[q].own])
        BY <1>3, <1>6, <3>2, <4>1
      <4> QED BY <1>4, <4>1, <4>2 DEF IInv, CallsInv
    <3> QED BY <3>1, <3>2
  <2> QED BY <2>1, <2>2, <2>3 DEF CallsInv
<1>10. UnfinishedInv'
  <2> SUFFICES ASSUME NEW t \in Tables, Used(t)
               PROVE  /\ FDT'[t].next = Garbage =>
                            \E q \in Linked' : pc'[q] = "path" /\ call'[q].new = t
                      /\ FDT'[t].cur_path = Garbage =>
                            \E q \in Linked' : pc'[q] = "path" /\ call'[q].new = t
                      /\ FDT'[t].cur_path = Freed =>
                            \E q \in Opening' : pc'[q] = "newpath" /\ call'[q].own = t
                      /\ FDT'[t].objects = <<>> =>
                            \E q \in Linked' : pc'[q] # "copy" /\ call'[q].new = t
                      /\ FDT'[t].objects # <<>>
                         /\ FDT'[t].objects[Len(FDT'[t].objects)] = Garbage =>
                            \E q \in Linked' : pc'[q] = "copy" /\ call'[q].new = t
    BY <1>4 DEF UnfinishedInv
  <2>1. CASE t = own
    <3>1. FDT[own].next # Garbage
      BY <1>2, OwnFilled
    <3>2. d.objects[Len(d.objects)] # Garbage
      <4>1. Len(d.objects) \in 1 .. Len(d.objects)
        BY DEF Table
      <4> QED BY <4>1
    <3>3. d.cur_path = Freed => p \in Opening' /\ pc'[p] = "newpath" /\ call'[p].own = t
      BY <2>1 DEF Opening
    <3> QED BY <1>3, <2>1, <3>1, <3>2, <3>3
  <2>2. CASE t # own
    <3>1. FDT'[t] = FDT[t]
      BY <1>3, <2>2
    <3>2. \A q \in Linked : q \in Linked' /\ pc'[q] = pc[q] /\ call'[q].new = call[q].new
      BY <1>2
    <3>3. \A q \in Opening : call[q].own = t =>
            q \in Opening' /\ pc'[q] = pc[q] /\ call'[q] = call[q]
      BY <1>2, <2>2
    <3>4. /\ FDT[t].next = Garbage => \E q \in Linked : pc[q] = "path" /\ call[q].new = t
          /\ FDT[t].cur_path = Garbage => \E q \in Linked : pc[q] = "path" /\ call[q].new = t
          /\ FDT[t].cur_path = Freed => \E q \in Opening : pc[q] = "newpath" /\ call[q].own = t
          /\ FDT[t].objects = <<>> => \E q \in Linked : pc[q] # "copy" /\ call[q].new = t
          /\ FDT[t].objects # <<>> /\ FDT[t].objects[Len(FDT[t].objects)] = Garbage =>
                \E q \in Linked : pc[q] = "copy" /\ call[q].new = t
      BY DEF IInv, UnfinishedInv
    <3> QED BY <3>1, <3>2, <3>3, <3>4
  <2> QED BY <2>1, <2>2
<1>11. AloneInv'
  <2>1. AloneKept'
    BY <1>2, <1>4 DEF IInv, AloneInv, AloneKept
  <2>2. \A t \in alone' : Taken(t)'
    BY <1>1, <1>4 DEF IInv, AloneInv, TypeInv
  <2>3. ~fault' => \A q \in Building' : call'[q].alone =>
          /\ Serving' /\ Building' = {q}
          /\ q \in Linking' /\ call'[q].last \in Tables => call'[q].last \in Listed'
          /\ q \in Linked' => call'[q].new \in Listed'
    BY <1>2, <1>4 DEF IInv, AloneInv
  <2>4. Serving' => \A t \in alone' :
          /\ \A q \in Linking' : call'[q].last \in Tables /\ t <= call'[q].last
          /\ \A q \in Linked' : pc'[q] = "path" => t < call'[q].new
    BY <1>2 DEF IInv, AloneInv
  <2> QED BY <2>1, <2>2, <2>3, <2>4 DEF AloneInv
<1>12. CalmInv'
  <2>1. \A q \in Procs : q \notin Copying' => calm'[q]
    BY <1>2
  <2>2. ASSUME Serving', NEW q \in Copying'
        PROVE  /\ parent'[q] # Init_pid => FDT'[call'[q].from].pid = parent'[q]
               /\ calm'[q] => AtRest(q)'
    <3>1. /\ q \in Copying /\ q \in Building /\ q \in Procs /\ q # p /\ pc'[q] = pc[q]
          /\ Serving /\ call'[q].from = call[q].from /\ call[q].from \in Tables
          /\ Taken(call[q].from)
      <4>1. q \in Copying /\ q \in Building /\ q \in Procs /\ q # p /\ pc'[q] = pc[q] /\ Serving
        BY <1>2, <2>2
      <4> QED BY <4>1 DEF IInv, CallsInv, Copying
    <3>2. FDT'[call'[q].from].pid = FDT[call[q].from].pid
      BY <1>3, <3>1
    <3>3. ASSUME calm'[q] PROVE AtRest(q)'
      <4>1. calm[q] /\ call[q].from # own /\ AtRest(q) /\ call'[q] = call[q]
        BY <3>1, <3>3 DEF IInv, CalmInv
      <4>2. \A r \in Linked' : call'[r].new # call'[q].from
        BY <1>2, <4>1 DEF AtRest
      <4>3. \A r \in Opening' : call'[r].own # call'[q].from
        BY <1>2, <4>1 DEF AtRest, Opening
      <4>4. FDT'[call'[q].from] = FDT[call[q].from]
        BY <1>3, <3>1, <4>1
      <4>5. pc[q] \in {"head", "copy"} => FDT'[call'[q].new] = FDT[call[q].new]
        <5> SUFFICES ASSUME q \in Linked PROVE FDT'[call'[q].new] = FDT[call[q].new]
          BY <3>1 DEF Linked
        <5>1. call[q].new # own
          BY <1>6
        <5> QED BY <1>3, <1>6, <4>1, <5>1
      <4>6. pc'[q] \in {"head", "copy"} =>
              FDT'[call'[q].new].cur_path = FDT'[call'[q].from].cur_path
        BY <3>1, <4>1, <4>4, <4>5 DEF AtRest
      <4>7. pc'[q] = "copy" =>
              /\ call'[q].object \in 1 .. Len(FDT'[call'[q].from].objects) - 1
              /\ Len(FDT'[call'[q].new].objects) = call'[q].object + 1
              /\ \A j \in 1 .. call'[q].object :
                    FDT'[call'[q].new].objects[j] = FDT'[call'[q].from].objects[j]
        BY <3>1, <4>1, <4>4, <4>5 DEF AtRest
      <4> QED BY <4>2, <4>3, <4>6, <4>7 DEF AtRest
    <3> QED BY <3>1, <3>2, <3>3 DEF IInv, CalmInv
  <2> QED BY <2>1, <2>2 DEF CalmInv
<1> QED BY <1>4, <1>7, <1>8, <1>9, <1>10, <1>11, <1>12 DEF IInv

\* A call of a process that has its table finds it, and all of it is filled in.
LEMMA OwnFound ==
    ASSUME IInv, NEW p \in Procs, Calls(p)
    PROVE  /\ pc[p] = "user" /\ p \in alive /\ ~fault
           /\ p \notin Building /\ p \notin Linked /\ p \notin Opening /\ module # "new"
           /\ Own(p) \in Tables /\ Used(Own(p)) /\ FDT[Own(p)].pid = p
           /\ FDT[Own(p)] \in Table
           /\ FDT[Own(p)].cur_path \notin {Garbage, Freed}
           /\ FDT[Own(p)].objects # <<>> /\ FDT[Own(p)].objects[1] = Root
           /\ \A j \in 1 .. Len(FDT[Own(p)].objects) : FDT[Own(p)].objects[j] # Garbage
<1>1. /\ pc[p] = "user" /\ p \in alive /\ ~fault /\ Own(p) \in Tables
      /\ p \notin Building /\ p \notin Linked /\ p \notin Opening /\ module # "new"
  BY DEF Calls, Inside, Building, Copying, Linked, Opening, Callable
<1>2. Used(Own(p)) /\ FDT[Own(p)].pid = p
  BY <1>1, OwnLemma DEF IInv
<1> QED BY <1>1, <1>2, OwnFilled

\* rd_open up to its first vmalloc.
LEMMA OpenFilePreserves ==
    ASSUME IInv, NEW p \in Procs, NEW f \in Files, OpenFile(p, f)
    PROVE  IInv'
<1> DEFINE own == Own(p)
<1>1. CASE module # "loaded"
  <2>1. Oops
    BY <1>1 DEF OpenFile
  <2> QED BY <2>1, QuietPreserves DEF Oops
<1>2. CASE module = "loaded"
  <2>1. /\ pc' = [pc EXCEPT ![p] = "open"]
        /\ call' = [call EXCEPT ![p] = [own |-> own, file |-> f]]
        /\ calm' = [q \in Procs |-> calm[q] /\ ~(q \in Copying /\ call[q].from = own)]
        /\ UNCHANGED <<FDT_list_head, FDT, alive, parent, module, fault, alone>>
        /\ Calls(p)
    BY <1>2 DEF OpenFile, Moves, Disturbs
  <2>2. /\ pc[p] = "user" /\ p \in alive
        /\ p \notin Building /\ p \notin Linked /\ p \notin Opening /\ module # "new"
        /\ own \in Tables /\ Used(own) /\ FDT[own].pid = p
        /\ FDT[own] \in Table
        /\ FDT[own].cur_path \notin {Garbage, Freed}
        /\ FDT[own].objects # <<>> /\ FDT[own].objects[1] = Root
        /\ \A j \in 1 .. Len(FDT[own].objects) : FDT[own].objects[j] # Garbage
    BY <2>1, OwnFound
  <2> HIDE DEF own
  <2>3. TypeInv
    BY DEF IInv
  <2>4. /\ pc'[p] = "open" /\ call'[p] = [own |-> own, file |-> f]
        /\ \A q \in Procs : q # p => pc'[q] = pc[q] /\ call'[q] = call[q]
    BY <2>1, <2>3 DEF TypeInv
  <2>5. TypeInv'
    <3>1. [own |-> own, file |-> f] \in OpenCall
      BY <2>2 DEF OpenCall
    <3>2. pc' \in [Procs -> {"user", "create", "fork", "path", "head", "copy", "open", "newpath"}]
          /\ call' \in [Procs -> GetCall \cup OpenCall \cup {NoCall}]
      BY <2>1, <2>3, <3>1 DEF TypeInv
    <3>3. \A q \in Building' : call'[q] \in GetCall
      BY <2>3, <2>4 DEF TypeInv, Building, Copying
    <3>4. \A q \in Opening' : call'[q] \in OpenCall
      BY <2>3, <2>4, <3>1 DEF TypeInv, Opening
    <3>5. \A q \in Procs : Inside(q)' => q \in alive'
      BY <2>1, <2>2, <2>3, <2>4 DEF TypeInv, Inside
    <3>6. calm' \in [Procs -> BOOLEAN]
      BY <2>1, <2>3 DEF TypeInv
    <3> QED BY <2>1, <2>3, <3>2, <3>3, <3>4, <3>5, <3>6 DEF TypeInv
  <2>6. FDT' = [FDT EXCEPT ![own] = FDT[own]]
    BY <2>1, <2>3 DEF TypeInv
  <2>7. \A q \in Building \cup Opening : q \in Procs /\ q # p /\ call'[q] = call[q]
    BY <2>2, <2>4 DEF Building, Opening, Copying
  <2>8. \A q \in Copying : q \in Procs
    BY DEF Copying
  <2>9. /\ \A q \in Procs : q \notin Copying => calm'[q]
        /\ \A q \in Copying : calm'[q] => calm[q] /\ call[q].from # own
    BY <2>1, <2>8 DEF IInv, CalmInv
  <2>10. /\ \A q \in Building : /\ call'[q].last = call[q].last /\ call'[q].from = call[q].from
                                /\ call'[q].new = call[q].new /\ call'[q].alone = call[q].alone
                                /\ pc[q] # "copy" \/ call[q].from # own => call'[q] = call[q]
         /\ \A q \in Opening : q # p => call'[q] = call[q]
         /\ p \in Opening => call[p].own = own
         /\ pc'[p] \in {"user", "open", "newpath"} /\ (pc'[p] # "user" => call'[p].own = own)
         /\ \A q \in Procs : q # p => pc'[q] = pc[q]
    BY <2>2, <2>4, <2>7
  <2>11. UNCHANGED <<FDT_list_head, parent, module, fault, alone>>
    BY <2>1
  <2>12. Works(p, own, FDT[own])
    <3>1. /\ p \notin Building /\ module # "new"
          /\ Used(own) /\ FDT[own].pid = p
          /\ FDT' = [FDT EXCEPT ![own] = FDT[own]]
      BY <2>2, <2>6, <2>9, <2>10, <2>11
    <3>2. /\ FDT[own].pid = p /\ FDT[own].next = FDT[own].next
          /\ FDT[own].objects # <<>> /\ FDT[own].objects[1] = Root
          /\ \A j \in 1 .. Len(FDT[own].objects) : FDT[own].objects[j] # Garbage
          /\ FDT[own].cur_path # Garbage /\ (FDT[own].cur_path = Freed => pc'[p] = "newpath")
      BY <2>2, <2>6, <2>9, <2>10, <2>11
    <3>3. /\ \A q \in Procs : q \notin Copying => calm'[q]
          /\ Serving => \A q \in Copying : calm'[q] => calm[q] /\ call[q].from # own
          /\ UNCHANGED <<FDT_list_head, parent, module, fault, alone>>
      BY <2>2, <2>6, <2>9, <2>10, <2>11
    <3> QED BY <2>10, <3>1, <3>2, <3>3 DEF Works
  <2> QED BY <2>12, <2>2, <2>5, WorkPreserves
<1> QED BY <1>1, <1>2

\* A table with one more object, and without its path, is a table.
LEMMA FieldsOfOpen ==
    \A r \in Table, f \in Objects :
        LET d == [r EXCEPT !.objects = Append(@, f), !.cur_path = Freed]
        IN  Append(r.objects, f) \in Seq(Objects) =>
                /\ d \in Table /\ d.pid = r.pid /\ d.next = r.next
                /\ d.cur_path = Freed /\ d.objects = Append(r.objects, f)
<1>1. Freed \in Paths
  BY DEF Paths
<1> QED BY <1>1 DEF Table

\* The object is added; the old path is freed.
LEMMA OpenObjectPreserves ==
    ASSUME IInv, NEW p \in Procs, OpenObject(p)
    PROVE  IInv'
<1> DEFINE own == call[p].own
           file == call[p].file
           d == [FDT[own] EXCEPT !.objects = Append(@, file), !.cur_path = Freed]
<1>1. CASE ~Used(own)
  <2>1. Oops
    BY <1>1 DEF OpenObject
  <2> QED BY <2>1, QuietPreserves DEF Oops
<1>2. CASE Used(own)
  <2>1. /\ pc[p] = "open" /\ FDT' = [FDT EXCEPT ![own] = d]
        /\ pc' = [pc EXCEPT ![p] = "newpath"]
        /\ UNCHANGED <<FDT_list_head, alive, parent, call, module, fault, alone, calm>>
    BY <1>2 DEF OpenObject, Moves
  <2>2. /\ p \in Opening /\ p \notin Building /\ p \notin Linked /\ Inside(p) /\ module # "new"
        /\ \A q \in Building \cup Opening \cup Copying : q \in Procs
    BY <2>1 DEF Opening, Building, Copying, Linked, Inside, IInv, ModuleInv
  <2>3. TypeInv /\ own \in Tables /\ file \in Files /\ FDT[own].pid = p
    BY <1>2, <2>2 DEF IInv, TypeInv, OpenCall, CallsInv
  <2>4. /\ FDT[own] \in Table
        /\ FDT[own].objects # <<>> /\ FDT[own].objects[1] = Root
        /\ \A j \in 1 .. Len(FDT[own].objects) : FDT[own].objects[j] # Garbage
    BY <1>2, <2>2, <2>3, OwnFilled
  <2>5. /\ d \in Table /\ d.pid = p /\ d.next = FDT[own].next /\ d.cur_path = Freed
        /\ d.objects = Append(FDT[own].objects, file)
    <3>1. FDT[own].objects \in Seq(Objects) /\ file \in Objects
      BY <2>3, <2>4 DEF Table, Objects
    <3>2. Append(FDT[own].objects, file) \in Seq(Objects)
      BY <3>1
    <3> QED BY <2>3, <2>4, <3>1, <3>2, FieldsOfOpen, Zenon
  <2>6. /\ d.objects # <<>> /\ d.objects[1] = Root
        /\ \A j \in 1 .. Len(d.objects) : d.objects[j] # Garbage
    <3> DEFINE s == FDT[own].objects
    <3>1. s \in Seq(Objects) /\ file \in Objects /\ file # Garbage
      BY <2>3, <2>4, TablesAssumption DEF Table, Objects, Garbage
    <3>2. Len(s) \in Nat /\ Len(s) >= 1
      BY <2>4, <3>1
    <3>3. d.objects = Append(s, file)
      BY <2>5
    <3> HIDE DEF s, d, file
    <3>4. /\ Len(Append(s, file)) = Len(s) + 1
          /\ \A j \in 1 .. Len(s) : Append(s, file)[j] = s[j]
          /\ Append(s, file)[Len(s) + 1] = file
      BY <3>1, <3>2, AppendProperties
    <3>5. \A j \in 1 .. Len(d.objects) : j \in 1 .. Len(s) \/ j = Len(s) + 1
      BY <3>2, <3>3, <3>4
    <3>6. d.objects # <<>> /\ d.objects[1] = Root
      BY <2>4, <3>2, <3>3, <3>4 DEF s
    <3> QED BY <2>4, <3>1, <3>3, <3>4, <3>5, <3>6 DEF s
  <2> HIDE DEF d, own
  <2>7. pc'[p] = "newpath" /\ \A q \in Procs : q # p => pc'[q] = pc[q]
    BY <2>1, <2>3 DEF TypeInv
  <2>8. TypeInv'
    <3>1. FDT' \in [Tables -> Table \cup {NoTable, FreedTable}]
      BY <2>1, <2>3, <2>5 DEF TypeInv
    <3>2. pc' \in [Procs -> {"user", "create", "fork", "path", "head", "copy", "open", "newpath"}]
      BY <2>1, <2>3 DEF TypeInv
    <3>3. /\ \A q \in Building' : q \in Building
          /\ \A q \in Opening' : q \in Opening
          /\ \A q \in Procs : Inside(q)' => Inside(q)
      BY <2>2, <2>7 DEF Building, Copying, Opening, Inside
    <3> QED BY <2>1, <2>3, <3>1, <3>2, <3>3 DEF TypeInv
  <2>9. /\ \A q \in Procs : q \notin Copying => calm'[q]
        /\ Serving => \A q \in Copying : calm'[q] => calm[q] /\ call[q].from # own
    BY <2>1, <2>2 DEF IInv, CalmInv, AtRest, own
  <2>10. call[p].own = own
    BY DEF own
  <2>11. /\ \A q \in Building : /\ call'[q].last = call[q].last /\ call'[q].from = call[q].from
                                /\ call'[q].new = call[q].new /\ call'[q].alone = call[q].alone
                                /\ pc[q] # "copy" \/ call[q].from # own => call'[q] = call[q]
         /\ \A q \in Opening : q # p => call'[q] = call[q]
         /\ p \in Opening => call[p].own = own
         /\ pc'[p] \in {"user", "open", "newpath"} /\ (pc'[p] # "user" => call'[p].own = own)
         /\ \A q \in Procs : q # p => pc'[q] = pc[q]
    BY <2>1, <2>7, <2>10
  <2>12. UNCHANGED <<FDT_list_head, parent, module, fault, alone>>
    BY <2>1
  <2>13. Works(p, own, d)
    <3>1. /\ p \notin Building /\ module # "new"
          /\ Used(own) /\ FDT[own].pid = p
          /\ FDT' = [FDT EXCEPT ![own] = d]
      BY <1>2, <2>1, <2>2, <2>3, <2>5, <2>6, <2>7, <2>9, <2>11, <2>12
    <3>2. /\ d.pid = p /\ d.next = FDT[own].next
          /\ d.objects # <<>> /\ d.objects[1] = Root
          /\ \A j \in 1 .. Len(d.objects) : d.objects[j] # Garbage
          /\ d.cur_path # Garbage /\ (d.cur_path = Freed => pc'[p] = "newpath")
      BY <1>2, <2>1, <2>2, <2>3, <2>5, <2>6, <2>7, <2>9, <2>11, <2>12 DEF Freed, Garbage
    <3>3. /\ \A q \in Procs : q \notin Copying => calm'[q]
          /\ Serving => \A q \in Copying : calm'[q] => calm[q] /\ call[q].from # own
          /\ UNCHANGED <<FDT_list_head, parent, module, fault, alone>>
      BY <1>2, <2>1, <2>2, <2>3, <2>5, <2>6, <2>7, <2>9, <2>11, <2>12
    <3> QED BY <2>11, <3>1, <3>2, <3>3 DEF Works
  <2> QED BY <2>13, <2>3, <2>5, <2>8, WorkPreserves
<1> QED BY <1>1, <1>2

\* The new path.
LEMMA OpenPathPreserves ==
    ASSUME IInv, NEW p \in Procs, OpenPath(p)
    PROVE  IInv'
<1> DEFINE own == call[p].own
           file == call[p].file
           d == [FDT[own] EXCEPT !.cur_path = file]
<1>1. CASE ~Used(own)
  <2>1. Oops
    BY <1>1 DEF OpenPath
  <2> QED BY <2>1, QuietPreserves DEF Oops
<1>2. CASE Used(own)
  <2>1. /\ pc[p] = "newpath" /\ FDT' = [FDT EXCEPT ![own] = d]
        /\ pc' = [pc EXCEPT ![p] = "user"]
        /\ call' = [call EXCEPT ![p] = NoCall]
        /\ UNCHANGED <<FDT_list_head, alive, parent, module, fault, alone, calm>>
    BY <1>2 DEF OpenPath, Moves
  <2>2. /\ p \in Opening /\ p \notin Building /\ p \notin Linked /\ Inside(p) /\ module # "new"
        /\ \A q \in Building \cup Opening \cup Copying : q \in Procs
    BY <2>1 DEF Opening, Building, Copying, Linked, Inside, IInv, ModuleInv
  <2>3. TypeInv /\ own \in Tables /\ file \in Files /\ FDT[own].pid = p
    BY <1>2, <2>2 DEF IInv, TypeInv, OpenCall, CallsInv
  <2>4. /\ FDT[own] \in Table
        /\ FDT[own].objects # <<>> /\ FDT[own].objects[1] = Root
        /\ \A j \in 1 .. Len(FDT[own].objects) : FDT[own].objects[j] # Garbage
    BY <1>2, <2>2, <2>3, OwnFilled
  <2>5. /\ d \in Table /\ d.pid = p /\ d.next = FDT[own].next /\ d.cur_path = file
        /\ d.objects = FDT[own].objects /\ file \notin {Garbage, Freed}
    BY <2>3, <2>4, TablesAssumption DEF Table, Paths, Garbage, Freed
  <2> HIDE DEF d, own, file
  <2>6. /\ pc'[p] = "user" /\ call'[p] = NoCall
        /\ \A q \in Procs : q # p => pc'[q] = pc[q] /\ call'[q] = call[q]
    BY <2>1, <2>3 DEF TypeInv
  <2>7. TypeInv'
    <3>1. FDT' \in [Tables -> Table \cup {NoTable, FreedTable}]
      BY <2>1, <2>3, <2>5 DEF TypeInv
    <3>2. pc' \in [Procs -> {"user", "create", "fork", "path", "head", "copy", "open", "newpath"}]
          /\ call' \in [Procs -> GetCall \cup OpenCall \cup {NoCall}]
      BY <2>1, <2>3 DEF TypeInv
    <3>3. /\ \A q \in Building' : q \in Building /\ call'[q] = call[q]
          /\ \A q \in Opening' : q \in Opening /\ call'[q] = call[q]
          /\ \A q \in Procs : Inside(q)' => Inside(q)
      BY <2>2, <2>6 DEF Building, Copying, Opening, Inside
    <3> QED BY <2>1, <2>3, <3>1, <3>2, <3>3 DEF TypeInv
  <2>8. /\ \A q \in Procs : q \notin Copying => calm'[q]
        /\ Serving => \A q \in Copying : calm'[q] => calm[q] /\ call[q].from # own
    BY <2>1, <2>2 DEF IInv, CalmInv, AtRest, own
  <2>9. /\ call[p].own = own
        /\ \A q \in Building : q \in Procs /\ q # p
        /\ \A q \in Opening : q \in Procs
    BY <2>2 DEF own
  <2>10. /\ \A q \in Building : /\ call'[q].last = call[q].last /\ call'[q].from = call[q].from
                                /\ call'[q].new = call[q].new /\ call'[q].alone = call[q].alone
                                /\ pc[q] # "copy" \/ call[q].from # own => call'[q] = call[q]
         /\ \A q \in Opening : q # p => call'[q] = call[q]
         /\ p \in Opening => call[p].own = own
         /\ pc'[p] \in {"user", "open", "newpath"} /\ (pc'[p] # "user" => call'[p].own = own)
         /\ \A q \in Procs : q # p => pc'[q] = pc[q]
    BY <2>6, <2>9
  <2>11. UNCHANGED <<FDT_list_head, parent, module, fault, alone>>
    BY <2>1
  <2>12. Works(p, own, d)
    BY <1>2, <2>1, <2>2, <2>3, <2>4, <2>5, <2>6, <2>8, <2>10, <2>11 DEF Works
  <2> QED BY <2>12, <2>3, <2>5, <2>7, WorkPreserves
<1> QED BY <1>1, <1>2

\* A sequence with an element less, not the first.
LEMMA RemoveLemma ==
    ASSUME NEW S, NEW s \in Seq(S), NEW i \in 2 .. Len(s)
    PROVE  /\ RemoveAt(s, i) \in Seq(S) /\ RemoveAt(s, i) # <<>>
           /\ RemoveAt(s, i)[1] = s[1]
           /\ \A j \in 1 .. Len(RemoveAt(s, i)) :
                \E k \in 1 .. Len(s) : RemoveAt(s, i)[j] = s[k]
<1> DEFINE n == Len(s)
           a == SubSeq(s, 1, i - 1)
           b == SubSeq(s, i + 1, n)
<1>1. n \in Nat /\ i \in 2 .. n /\ \A k \in 1 .. n : s[k] \in S
  OBVIOUS
<1> HIDE DEF n
<1>2. /\ a \in Seq(S) /\ Len(a) = i - 1
      /\ \A j \in 1 .. i - 1 : a[j] = s[j]
  <2>1. /\ a \in Seq(S)
        /\ Len(a) = IF 1 <= i - 1 THEN i - 1 - 1 + 1 ELSE 0
        /\ \A j \in 1 .. i - 1 - 1 + 1 : a[j] = s[1 + j - 1]
    BY <1>1, SubSeqProperties
  <2> HIDE DEF a
  <2>2. i - 1 - 1 + 1 = i - 1 /\ 1 <= i - 1 /\ \A j \in 1 .. i - 1 : 1 + j - 1 = j
    BY <1>1
  <2> QED BY <2>1, <2>2
<1>3. /\ b \in Seq(S) /\ Len(b) = n - i
      /\ \A j \in 1 .. n - i : b[j] = s[i + j]
  <2>1. /\ b \in Seq(S)
        /\ Len(b) = IF i + 1 <= n THEN n - (i + 1) + 1 ELSE 0
        /\ \A j \in 1 .. n - (i + 1) + 1 : b[j] = s[i + 1 + j - 1]
    <3>1. i + 1 \in Int /\ n \in Int /\ \A k \in i + 1 .. n : s[k] \in S
      BY <1>1
    <3> QED BY <3>1, SubSeqProperties
  <2> HIDE DEF b
  <2>2. n - (i + 1) + 1 = n - i /\ \A j \in 1 .. n - i : i + 1 + j - 1 = i + j
    BY <1>1
  <2>3. Len(b) = n - i
    <3>1. CASE i + 1 <= n
      BY <2>1, <2>2, <3>1
    <3>2. CASE ~(i + 1 <= n)
      <4>1. n - i = 0
        BY <1>1, <3>2
      <4> QED BY <2>1, <3>2, <4>1
    <3> QED BY <3>1, <3>2
  <2> QED BY <2>1, <2>2, <2>3
<1> DEFINE c == a \o b
<1>4. c = RemoveAt(s, i)
  BY DEF RemoveAt, n
<1> HIDE DEF a, b
<1>5. /\ c \in Seq(S) /\ Len(c) = i - 1 + (n - i)
      /\ \A j \in 1 .. i - 1 : c[j] = a[j]
      /\ \A j \in i .. n - 1 : c[j] = b[j - (i - 1)]
  <2>1. /\ a \o b \in Seq(S) /\ Len(a \o b) = Len(a) + Len(b)
        /\ \A j \in 1 .. Len(a) + Len(b) :
              (a \o b)[j] = IF j <= Len(a) THEN a[j] ELSE b[j - Len(a)]
    BY <1>2, <1>3, ConcatProperties
  <2>2. \A j \in 1 .. i - 1 : j \in 1 .. Len(a) + Len(b) /\ j <= Len(a)
    BY <1>1, <1>2, <1>3
  <2>3. \A j \in i .. n - 1 : j \in 1 .. Len(a) + Len(b) /\ ~(j <= Len(a))
    BY <1>1, <1>2, <1>3
  <2> QED BY <1>2, <1>3, <2>1, <2>2, <2>3
<1> HIDE DEF c
<1>6. Len(c) = n - 1 /\ Len(c) >= 1 /\ 1 \in 1 .. i - 1
  BY <1>1, <1>5
<1>7. c # <<>> /\ c[1] = s[1]
  BY <1>2, <1>5, <1>6
<1>8. ASSUME NEW j \in 1 .. Len(c) PROVE \E k \in 1 .. n : c[j] = s[k]
  <2>1. CASE j \in 1 .. i - 1
    <3>1. c[j] = s[j] /\ j \in 1 .. n
      BY <1>1, <1>2, <1>5, <2>1
    <3> QED BY <3>1
  <2>2. CASE j \notin 1 .. i - 1
    <3>1. j \in i .. n - 1 /\ j - (i - 1) \in 1 .. n - i /\ i + (j - (i - 1)) = j + 1
          /\ j + 1 \in 1 .. n
      BY <1>1, <1>6, <2>2
    <3>2. c[j] = s[j + 1]
      BY <1>3, <1>5, <3>1
    <3> QED BY <3>1, <3>2
  <2> QED BY <2>1, <2>2
<1> QED BY <1>4, <1>5, <1>7, <1>8 DEF n

\* rd_close: whoever copies the table loses its place or keeps it.
LEMMA CloseFilePreserves ==
    ASSUME IInv, NEW p \in Procs, NEW fd \in Descriptors, CloseFile(p, fd), ~Oops
    PROVE  IInv'
<1> DEFINE own == Own(p)
           objs == RemoveAt(FDT[own].objects, fd + 1)
           d == [FDT[own] EXCEPT !.objects = objs]
           Copies(q) == pc[q] = "copy" /\ call[q].from = own
<1>1. /\ Calls(p) /\ fd \in 1 .. Len(FDT[own].objects) - 1
      /\ FDT' = [FDT EXCEPT ![own] = d]
      /\ call' = [q \in Procs |->
            IF Copies(q) /\ call[q].object = fd + 1
            THEN [call[q] EXCEPT !.object = Freed]
            ELSE IF Copies(q) /\ call[q].object > fd + 1
            THEN [call[q] EXCEPT !.object = @ - 1]
            ELSE call[q]]
      /\ calm' = [q \in Procs |-> calm[q] /\ ~(q \in Copying /\ call[q].from = own)]
      /\ UNCHANGED <<FDT_list_head, alive, parent, pc, module, fault, alone>>
  BY DEF CloseFile, Opened, LoseObject, Disturbs, WithoutObject
<1>2. /\ pc[p] = "user" /\ p \in alive
      /\ p \notin Building /\ p \notin Linked /\ p \notin Opening /\ module # "new"
      /\ own \in Tables /\ Used(own) /\ FDT[own].pid = p
      /\ FDT[own] \in Table
      /\ FDT[own].cur_path \notin {Garbage, Freed}
      /\ FDT[own].objects # <<>> /\ FDT[own].objects[1] = Root
      /\ \A j \in 1 .. Len(FDT[own].objects) : FDT[own].objects[j] # Garbage
  BY <1>1, OwnFound
<1>3. TypeInv /\ fd \in Nat /\ fd >= 1
  <2>1. TypeInv /\ Len(FDT[own].objects) \in Nat
    BY <1>2 DEF IInv, Table
  <2> QED BY <1>1, <2>1
<1>4. /\ objs \in Seq(Objects) /\ objs # <<>> /\ objs[1] = Root
      /\ \A j \in 1 .. Len(objs) : objs[j] # Garbage
  <2>1. FDT[own].objects \in Seq(Objects) /\ Len(FDT[own].objects) \in Nat
    BY <1>2 DEF Table
  <2>2. fd + 1 \in 2 .. Len(FDT[own].objects)
    BY <1>1, <1>3, <2>1
  <2>3. /\ objs \in Seq(Objects) /\ objs # <<>>
        /\ objs[1] = FDT[own].objects[1]
        /\ \A j \in 1 .. Len(objs) :
             \E k \in 1 .. Len(FDT[own].objects) : objs[j] = FDT[own].objects[k]
    BY <2>1, <2>2, RemoveLemma
  <2> HIDE DEF objs, own
  <2> QED BY <1>2, <2>3
<1> HIDE DEF objs
<1>5. /\ d \in Table /\ d.objects = objs
      /\ d.pid = p /\ d.next = FDT[own].next /\ d.cur_path = FDT[own].cur_path
  BY <1>2, <1>4, ObjectsField
<1> HIDE DEF d, own
<1>6. \A q \in Procs : ~Copies(q) => call'[q] = call[q]
  BY <1>1
<1>7. ASSUME NEW q \in Building
      PROVE  /\ call'[q] \in GetCall
             /\ call'[q].last = call[q].last /\ call'[q].from = call[q].from
             /\ call'[q].new = call[q].new /\ call'[q].alone = call[q].alone
             /\ pc[q] # "copy" \/ call[q].from # own => call'[q] = call[q]
  <2>1. q \in Procs /\ call[q] \in GetCall
    BY <1>3 DEF TypeInv, Building, Copying
  <2>2. call[q].object \in Nat \cup {Freed}
    BY <2>1 DEF GetCall
  <2>3. CASE Copies(q) /\ call[q].object = fd + 1
    <3>1. call'[q] = [call[q] EXCEPT !.object = Freed]
      BY <1>1, <2>1, <2>3
    <3> QED BY <2>1, <2>3, <3>1, ObjectField
  <2>4. CASE Copies(q) /\ call[q].object # fd + 1 /\ call[q].object > fd + 1
    <3> DEFINE o == call[q].object
               before == o - 1
    <3>1. before \in Nat \cup {Freed}
      <4>1. o \in Nat \cup {Freed} /\ o > fd + 1 /\ fd \in Nat
        BY <1>3, <2>2, <2>4
      <4> HIDE DEF o
      <4> QED BY <4>1 DEF Freed
    <3>2. call'[q] = [call[q] EXCEPT !.object = before]
      BY <1>1, <2>1, <2>4
    <3> HIDE DEF o, before
    <3> QED BY <2>1, <2>4, <3>1, <3>2, ObjectField
  <2>5. CASE ~Copies(q) \/ (call[q].object # fd + 1 /\ ~(call[q].object > fd + 1))
    <3>1. call'[q] = call[q]
      BY <1>1, <2>1, <2>5
    <3> QED BY <2>1, <3>1
  <2> QED BY <2>3, <2>4, <2>5
<1>8. \A q \in Procs : pc[q] # "copy" => call'[q] = call[q]
  BY <1>6
<1>9. TypeInv'
  <2>1. FDT' \in [Tables -> Table \cup {NoTable, FreedTable}]
    BY <1>1, <1>2, <1>3, <1>5 DEF TypeInv
  <2>2. call' \in [Procs -> GetCall \cup OpenCall \cup {NoCall}]
    <3>1. ASSUME NEW q \in Procs PROVE call'[q] \in GetCall \cup OpenCall \cup {NoCall}
      <4>1. CASE pc[q] = "copy"
        <5>1. q \in Building
          BY <4>1 DEF Building, Copying
        <5> QED BY <1>7, <5>1
      <4>2. CASE pc[q] # "copy"
        BY <1>3, <1>8, <4>2 DEF TypeInv
      <4> QED BY <4>1, <4>2
    <3>2. call' = [q \in Procs |-> call'[q]]
      BY <1>1
    <3> QED BY <3>1, <3>2
  <2>3. \A q \in Building' : call'[q] \in GetCall
    BY <1>1, <1>7 DEF Building, Copying
  <2>4. \A q \in Opening' : call'[q] \in OpenCall
    BY <1>1, <1>3, <1>8 DEF TypeInv, Opening
  <2>5. \A q \in Procs : Inside(q)' => q \in alive'
    BY <1>1, <1>3 DEF TypeInv, Inside
  <2>6. calm' \in [Procs -> BOOLEAN]
    BY <1>1, <1>3 DEF TypeInv
  <2> QED BY <1>1, <1>3, <2>1, <2>2, <2>3, <2>4, <2>5, <2>6 DEF TypeInv
<1>10. Works(p, own, d)
  <2>1. /\ \A q \in Procs : q \notin Copying => calm'[q]
        /\ Serving => \A q \in Copying : calm'[q] => calm[q] /\ call[q].from # own
    BY <1>1 DEF IInv, CalmInv, Copying
  <2>2. \A q \in Opening : q # p => call'[q] = call[q]
    BY <1>8 DEF Opening
  <2>3. /\ pc'[p] = "user" /\ \A q \in Procs : q # p => pc'[q] = pc[q]
        /\ UNCHANGED <<FDT_list_head, parent, module, fault, alone>>
    BY <1>1, <1>2
  <2> QED BY <1>1, <1>2, <1>4, <1>5, <1>7, <2>1, <2>2, <2>3 DEF Works
<1> QED BY <1>2, <1>5, <1>9, <1>10, WorkPreserves

\* free_FDT frees the list; a table that is not in it stays, with all that it leads to.
LEMMA free_FDTPreserves ==
    ASSUME IInv, free_FDT
    PROVE  IInv'
<1>1. CASE \E t \in Listed : HalfFilled(t)
  <2>1. /\ fault' = TRUE /\ module' = "freed"
        /\ UNCHANGED <<FDT_list_head, FDT, alive, parent, pc, call, alone, calm>>
    BY <1>1 DEF free_FDT
  <2> QED BY <2>1, QuietPreserves
<1>2. CASE ~ \E t \in Listed : HalfFilled(t)
  <2>1. /\ ~fault /\ module = "loaded" /\ module' = "freed" /\ FDT_list_head' = NULL
        /\ FDT' = [t \in Tables |-> IF t \in Listed THEN FreedTable ELSE FDT[t]]
        /\ call' = [q \in Procs |->
              IF q \in Building THEN [call[q] EXCEPT !.alone = FALSE] ELSE call[q]]
        /\ UNCHANGED <<alive, parent, pc, fault, alone, calm>>
    BY <1>2 DEF free_FDT, FreedTables
  <2>2. /\ TypeInv /\ LinksInv /\ ListFacts /\ NULL \notin Tables
        /\ \A x : Used(x) => x \in Tables /\ FDT[x] \in Table /\ Taken(x)
    BY TableFacts, ListLemma DEF IInv
  <2>3. /\ Linking' = Linking /\ Linked' = Linked /\ Building' = Building
        /\ Copying' = Copying /\ Opening' = Opening
        /\ \A q \in Procs : Inside(q)' <=> Inside(q)
        /\ ~Serving' /\ Serving
    BY <2>1 DEF Linking, Linked, Building, Copying, Opening, Inside, Serving
  <2>4. /\ \A q \in Building : /\ call'[q] \in GetCall
                               /\ call'[q].last = call[q].last /\ call'[q].from = call[q].from
                               /\ call'[q].new = call[q].new /\ call'[q].object = call[q].object
                               /\ ~call'[q].alone
        /\ \A q \in Procs : q \notin Building => call'[q] = call[q]
        /\ Linked \subseteq Building /\ Linking \subseteq Building
        /\ \A q \in Opening : q \in Procs /\ q \notin Building
    <3>1. ASSUME NEW q \in Building
          PROVE  /\ call'[q] \in GetCall
                 /\ call'[q].last = call[q].last /\ call'[q].from = call[q].from
                 /\ call'[q].new = call[q].new /\ call'[q].object = call[q].object
                 /\ ~call'[q].alone
      <4>1. q \in Procs /\ call[q] \in GetCall
        BY <2>2 DEF TypeInv, Building, Copying
      <4>2. call'[q] = [call[q] EXCEPT !.alone = FALSE]
        BY <2>1, <4>1
      <4> QED BY <4>1, <4>2, AloneField
    <3>2. \A q \in Procs : q \notin Building => call'[q] = call[q]
      BY <2>1
    <3> QED BY <3>1, <3>2 DEF Linked, Linking, Building, Copying, Opening
  <2>5. /\ \A t \in Tables : FDT'[t] = IF t \in Listed THEN FreedTable ELSE FDT[t]
        /\ FDT' \in [Tables -> Table \cup {NoTable, FreedTable}]
    BY <2>1, <2>2 DEF TypeInv
  <2>6. TypeInv'
    <3>1. call' \in [Procs -> GetCall \cup OpenCall \cup {NoCall}]
      <4>1. \A q \in Procs : call'[q] \in GetCall \cup OpenCall \cup {NoCall}
        BY <2>2, <2>4 DEF TypeInv
      <4>2. call' = [q \in Procs |-> call'[q]]
        BY <2>1
      <4> QED BY <4>1, <4>2
    <3>2. \A q \in Building' : call'[q] \in GetCall
      BY <2>3, <2>4
    <3>3. \A q \in Opening' : call'[q] \in OpenCall
      BY <2>2, <2>3, <2>4 DEF TypeInv
    <3> QED BY <2>1, <2>2, <2>3, <2>5, <3>1, <3>2, <3>3 DEF TypeInv, Pointers
  <2>7. /\ \A x : Used(x)' <=> Used(x) /\ x \notin Listed
        /\ \A t \in Tables : Taken(t)' <=> Taken(t)
        /\ \A x : Used(x)' => FDT'[x] = FDT[x]
        /\ Fresh' = Fresh
    <3>1. FreedTable.state = "freed"
      BY DEF FreedTable
    <3>2. \A t \in Listed : Used(t) /\ FDT[t].state = "used" /\ t \in Tables
      BY <2>2 DEF ListFacts, Used
    <3> QED BY <2>5, <3>1, <3>2 DEF Used, Taken, Fresh
  <2>8. ASSUME NEW t \in Tables, Used(t), t \notin Listed, FDT[t].next \in Tables
        PROVE  FDT[t].next \notin Listed
    <3> SUFFICES ASSUME FDT[t].next \in Listed PROVE FALSE
      OBVIOUS
    <3> DEFINE S == Listed \ {FDT[t].next}
    <3>1. FDT_list_head \in Tables => FDT_list_head \in S
      BY <2>2, <2>8 DEF ListFacts, LinksInv
    <3>2. ASSUME NEW s \in S \cap Listed, FDT[s].next \in Tables PROVE FDT[s].next \in S
      <4>1. s \in Tables /\ Used(s) /\ FDT[s].next \in Listed
        BY <2>2, <3>2 DEF ListFacts
      <4>2. FDT[s].next # FDT[t].next
        BY <2>2, <2>8, <3>2, <4>1 DEF LinksInv
      <4> QED BY <4>1, <4>2
    <3>3. Listed \subseteq S
      <4> HIDE DEF S
      <4> QED BY <2>2, <3>1, <3>2 DEF ListFacts
    <3> QED BY <3>3
  <2>9. LinksInv'
    <3>1. FDT_list_head' \notin Tables
      BY <2>1, <2>2
    <3>2. ASSUME NEW t \in Tables, Used(t)', FDT'[t].next \in Tables
          PROVE  /\ Used(FDT[t].next)' /\ t < FDT'[t].next
                 /\ FDT'[t].next # FDT_list_head'
      <4>1. Used(t) /\ t \notin Listed /\ FDT'[t].next = FDT[t].next
        BY <2>7, <3>2
      <4>2. Used(FDT[t].next) /\ t < FDT[t].next /\ FDT[t].next \notin Listed
        BY <2>2, <2>8, <3>2, <4>1 DEF LinksInv
      <4>3. Used(FDT[t].next)'
        BY <2>7, <4>1, <4>2
      <4> QED BY <3>1, <3>2, <4>1, <4>2, <4>3
    <3> QED BY <2>2, <2>7, <3>1, <3>2 DEF LinksInv
  <2>10. Listed' = {}
    <3>1. ListFacts'
      BY <2>6, <2>9, ListLemmaNext
    <3>2. FDT_list_head' \notin Tables
      BY <2>1, <2>2
    <3> DEFINE S == {}
    <3>3. /\ FDT_list_head' \in Tables => FDT_list_head' \in S
          /\ \A t \in S \cap Listed' : FDT'[t].next \in Tables => FDT'[t].next \in S
      BY <3>2
    <3>4. S = {}
      OBVIOUS
    <3> HIDE DEF S
    <3> QED BY <3>1, <3>3, <3>4 DEF ListFacts
  <2>11. FreshInv' /\ PidInv' /\ ModuleInv'
    BY <2>1, <2>3, <2>7, <2>10 DEF IInv, FreshInv, PidInv, OneTable, ModuleInv
  <2>12. ObjectsInv'
    BY <2>7 DEF IInv, ObjectsInv
  <2>13. CallsInv'
    <3>1. ASSUME NEW q \in Building'
          PROVE  /\ call'[q].last \in Tables => Taken(call[q].last)'
                 /\ call'[q].from \in Tables => Taken(call[q].from)'
                 /\ pc'[q] # "create" => call'[q].from \in Tables
                 /\ pc'[q] # "copy" => call'[q].object = 0
      BY <2>1, <2>3, <2>4, <2>7 DEF IInv, CallsInv
    <3>2. ASSUME NEW q \in Linked'
          PROVE  /\ call'[q].new \in Tables /\ Taken(call[q].new)'
                 /\ call'[q].from < call'[q].new
                 /\ Used(call[q].new)' =>
                     /\ FDT'[call'[q].new].pid = q
                     /\ IF pc'[q] = "copy" THEN Len(FDT'[call'[q].new].objects) >= 2
                        ELSE FDT'[call'[q].new].objects = <<>>
      <4>1. /\ q \in Linked /\ pc'[q] = pc[q] /\ call'[q].new = call[q].new
            /\ call'[q].from = call[q].from /\ call[q].new \in Tables
        BY <2>1, <2>3, <2>4, <3>2 DEF IInv, CallsInv
      <4> QED BY <2>7, <4>1 DEF IInv, CallsInv
    <3>3. ASSUME NEW q \in Opening'
          PROVE  /\ Taken(call[q].own)'
                 /\ Used(call[q].own)' => /\ FDT'[call'[q].own].pid = q
                                           /\ FDT'[call'[q].own].objects # <<>>
      <4>1. q \in Opening /\ call'[q] = call[q] /\ call[q].own \in Tables
        BY <2>2, <2>3, <2>4, <3>3 DEF TypeInv, OpenCall
      <4> QED BY <2>7, <4>1 DEF IInv, CallsInv
    <3> QED BY <3>1, <3>2, <3>3 DEF CallsInv
  <2>14. UnfinishedInv'
    <3>1. \A q \in Linked : q \in Linked' /\ pc'[q] = pc[q] /\ call'[q].new = call[q].new
      BY <2>1, <2>3, <2>4
    <3>2. \A q \in Opening : q \in Opening' /\ pc'[q] = pc[q] /\ call'[q].own = call[q].own
      BY <2>1, <2>3, <2>4
    <3> QED BY <2>7, <3>1, <3>2 DEF IInv, UnfinishedInv
  <2>15. AloneInv'
    <3>1. alone \subseteq Listed
      BY <2>3 DEF IInv, AloneInv, AloneKept
    <3>2. AloneKept'
      BY <2>1, <2>3, <2>7, <3>1 DEF AloneKept
    <3>3. \A t \in alone' : Taken(t)'
      BY <2>1, <2>2, <2>7 DEF IInv, AloneInv, TypeInv
    <3> QED BY <2>3, <2>4, <3>2, <3>3 DEF AloneInv
  <2>16. CalmInv'
    BY <2>1, <2>3 DEF IInv, CalmInv
  <2> QED BY <2>6, <2>9, <2>11, <2>12, <2>13, <2>14, <2>15, <2>16 DEF IInv
<1> QED BY <1>1, <1>2

\* Nothing has happened yet.
LEMMA InitEstablishes == Init => IInv
<1> SUFFICES ASSUME Init PROVE IInv
  OBVIOUS
<1>1. /\ \A t \in Tables : FDT[t].state = "none" /\ ~Used(t) /\ ~Taken(t)
      /\ NULL \notin Tables
  BY TablesAssumption DEF Init, NoTable, Used, Taken, Tables, NULL
<1>2. /\ Building = {} /\ Linking = {} /\ Linked = {} /\ Copying = {} /\ Opening = {}
      /\ \A p \in Procs : ~Inside(p)
  BY DEF Init, Building, Linking, Linked, Copying, Opening, Inside
<1>3. TypeInv
  BY <1>2 DEF Init, TypeInv, Pointers
<1>4. LinksInv
  BY <1>1 DEF Init, LinksInv
<1>5. Listed = {}
  <2>1. \A t \in Listed : Used(t) /\ t \in Tables
    BY <1>3, <1>4, ListLemma DEF ListFacts
  <2> QED BY <1>1, <2>1
<1>6. FreshInv
  <2>1. Cardinality(Fresh) \in Nat
    BY <1>3, <1>4, FreshFacts
  <2>2. IsFiniteSet({}) /\ Cardinality({}) = 0
    BY FS_EmptySet
  <2> QED BY <1>2, <2>1, <2>2 DEF FreshInv
<1>7. ObjectsInv /\ CallsInv /\ PidInv /\ UnfinishedInv
  BY <1>1, <1>2, <1>5 DEF ObjectsInv, CallsInv, PidInv, OneTable, UnfinishedInv
<1>8. ModuleInv /\ AloneInv /\ CalmInv
  BY <1>1, <1>2, <1>5 DEF Init, ModuleInv, AloneInv, AloneKept, CalmInv
<1> QED BY <1>3, <1>4, <1>6, <1>7, <1>8 DEF IInv

\* Every step keeps the invariant.
LEMMA StepPreserves == IInv /\ [Next]_vars => IInv'
<1> SUFFICES ASSUME IInv, [Next]_vars PROVE IInv'
  OBVIOUS
<1>1. ASSUME NEW p \in Procs, Call(p) PROVE IInv'
  <2>1. CASE GetFDT(p)
    BY <2>1, GetFDTPreserves
  <2>2. CASE Create(p)
    BY <2>2, CreatePreserves
  <2>3. CASE ForkLink(p)
    BY <2>3, ForkLinkPreserves
  <2>4. CASE ForkPath(p)
    BY <2>4, ForkPathPreserves
  <2>5. CASE ForkObjects(p)
    BY <2>5, ForkObjectsPreserves
  <2>6. CASE \E f \in Files : OpenFile(p, f)
    BY <2>6, OpenFilePreserves
  <2>7. CASE OpenObject(p)
    BY <2>7, OpenObjectPreserves
  <2>8. CASE OpenPath(p)
    BY <2>8, OpenPathPreserves
  <2>9. CASE \E fd \in Descriptors : CloseFile(p, fd)
    <3>1. CASE Oops
      BY <3>1, QuietPreserves DEF Oops
    <3>2. CASE ~Oops
      BY <2>9, <3>2, CloseFilePreserves
    <3> QED BY <3>1, <3>2
  <2> QED BY <1>1, <2>1, <2>2, <2>3, <2>4, <2>5, <2>6, <2>7, <2>8, <2>9 DEF Call
<1>2. ASSUME NEW p \in Procs, Exit(p) \/ \E q \in Procs \cup {Init_pid} : Fork(q, p)
      PROVE  IInv'
  BY <1>2, ProcessPreserves
<1>3. CASE create_proc_entry
  <2>1. fault \in BOOLEAN
    BY DEF IInv, TypeInv
  <2> QED BY <1>3, <2>1, QuietPreserves DEF create_proc_entry
<1>4. CASE init_datastructure
  <2>1. fault \in BOOLEAN
    BY DEF IInv, TypeInv
  <2> QED BY <1>4, <2>1, QuietPreserves DEF init_datastructure
<1>5. CASE free_FDT
  BY <1>5, free_FDTPreserves
<1>6. CASE remove_proc_entry
  <2>1. fault \in BOOLEAN
    BY DEF IInv, TypeInv
  <2> QED BY <1>6, <2>1, QuietPreserves DEF remove_proc_entry
<1>7. CASE UNCHANGED vars
  <2>1. fault \in BOOLEAN
    BY DEF IInv, TypeInv
  <2> QED BY <1>7, <2>1, QuietPreserves DEF vars
<1> QED BY <1>1, <1>2, <1>3, <1>4, <1>5, <1>6, <1>7 DEF Next

-----------------------------------------------------------------------------
(* The theorems.                                                           *)

\* The inductive invariant holds of every behaviour of the model.
THEOREM Invariant == Spec => []IInv
<1>1. IInv /\ [Next]_vars => IInv'
  BY StepPreserves
<1> QED BY InitEstablishes, <1>1, PTL DEF Spec

\* What get_FDT, free_FDT and the calls on files leave in the variables is of its kind, the
\* fields that nobody has filled in included; a table that is filled in starts with the root
\* folder.
THEOREM TypeCorrect == Spec => []TypeOK
<1>1. ASSUME IInv PROVE TypeOK
  <2>1. TypeInv /\ \A x : Used(x) => FDT[x] \in Table
    BY <1>1, TableFacts DEF IInv
  <2>2. ASSUME NEW t \in Tables, Used(t)
        PROVE  /\ FDT[t].pid \in Procs
               /\ FDT[t].cur_path \in Files \cup {Root, Garbage, Freed}
               /\ FDT[t].objects # <<>> => Head(FDT[t].objects) = Root
               /\ Range(FDT[t].objects) \subseteq Files \cup {Root, Garbage, Junk}
               /\ FDT[t].next \in Tables \cup {NULL, Garbage}
    <3>1. /\ FDT[t].pid \in Procs /\ FDT[t].cur_path \in Files \cup {Root, Garbage, Freed}
          /\ FDT[t].objects \in Seq(Objects) /\ FDT[t].next \in Tables \cup {NULL, Garbage}
      BY <2>1, <2>2 DEF Table, Paths, Pointers
    <3>2. FDT[t].objects # <<>> => Head(FDT[t].objects) = Root
      BY <1>1, <2>2, <3>1 DEF IInv, ObjectsInv
    <3>3. Range(FDT[t].objects) \subseteq Objects
      BY <3>1 DEF Range
    <3> QED BY <3>1, <3>2, <3>3 DEF Objects
  <2> QED BY <2>1, <2>2 DEF TypeOK, TypeInv, Pointers
<1> QED BY Invariant, <1>1, PTL

\* However the calls of get_FDT interleave at their vmallocs, with calls that die halfway
\* and tables that get lost included, the list never holds two tables of one pid.
THEOREM OneTablePerPid == Spec => []OneTable
<1>1. IInv => OneTable
  BY DEF IInv, PidInv
<1> QED BY Invariant, <1>1, PTL

\* A table that create_FDT or create_FDT_from_parent built while nobody else was building one
\* stays in the list, whatever is built later, until free_FDT releases it.
THEOREM AloneStays == Spec => []AloneKept
<1>1. IInv => AloneKept
  BY DEF IInv, AloneInv
<1> QED BY Invariant, <1>1, PTL

\* A copy that was calm to its end has the path and the objects of its source.
LEMMA CopyIsEqual ==
    ASSUME IInv, [Next]_vars, NEW p \in Procs,
           pc[p] \in {"head", "copy"}, pc'[p] = "user", calm[p], Serving
    PROVE  /\ FDT'[call[p].new].objects = FDT[call[p].from].objects
           /\ FDT'[call[p].new].cur_path = FDT[call[p].from].cur_path
           /\ parent[p] # Init_pid => FDT[call[p].from].pid = parent[p]
<1>1. TypeInv /\ p \in Copying /\ p \in Linked /\ Inside(p)
  BY DEF IInv, Copying, Linked, Inside
<1>2. AtRest(p) /\ (parent[p] # Init_pid => FDT[call[p].from].pid = parent[p])
  BY <1>1 DEF IInv, CalmInv
<1>3. ForkObjects(p) /\ ~Oops
  <2>1. pc'[p] # pc[p]
    OBVIOUS
  <2>2. ~Oops /\ pc' # pc
    BY <2>1 DEF Oops
  <2>3. PICK q \in Procs : Call(q)
    BY <2>2, Zenon DEF Next, vars, Exit, Fork, create_proc_entry, init_datastructure,
                       free_FDT, remove_proc_entry
  <2>4. p = q
    <3>1. CASE \/ GetFDT(q) \/ Create(q) \/ ForkLink(q) \/ ForkPath(q)
               \/ (\E f \in Files : OpenFile(q, f)) \/ OpenObject(q) \/ OpenPath(q)
               \/ \E fd \in Descriptors : CloseFile(q, fd)
      <4>1. \E to : pc' = [pc EXCEPT ![q] = to]
        BY <2>2, <3>1 DEF GetFDT, Create, ForkLink, ForkPath, OpenFile, OpenObject, OpenPath,
                          CloseFile, Moves
      <4> QED BY <1>1, <2>1, <4>1 DEF TypeInv
    <3>2. CASE ForkObjects(q)
      <4>1. \E to : pc' = [pc EXCEPT ![q] = to]
        BY <2>2, <3>2, ForkObjectsStep
      <4> QED BY <1>1, <2>1, <4>1 DEF TypeInv
    <3> QED BY <2>3, <3>1, <3>2 DEF Call
  <2>5. ASSUME ~ForkObjects(p) PROVE FALSE
    <3>1. CASE GetFDT(p)
      BY <1>1, <3>1 DEF GetFDT
    <3>2. CASE \/ Create(p) \/ ForkLink(p) \/ ForkPath(p) \/ OpenObject(p) \/ OpenPath(p)
      BY <2>2, <3>2 DEF Create, ForkLink, ForkPath, OpenObject, OpenPath
    <3>3. CASE \/ (\E f \in Files : OpenFile(p, f))
               \/ \E fd \in Descriptors : CloseFile(p, fd)
      BY <1>1, <3>3 DEF OpenFile, CloseFile, Calls
    <3> QED BY <2>3, <2>4, <2>5, <3>1, <3>2, <3>3 DEF Call
  <2> QED BY <2>2, <2>5
<1>4. /\ Used(call[p].from) /\ Used(call[p].new) /\ call[p].object # Freed
      /\ Position(p) = Len(Source(p))
      /\ FDT' = [FDT EXCEPT ![call[p].new].objects = Copied(p)]
  <2>1. "copy" # "user"
    OBVIOUS
  <2>2. pc' # [pc EXCEPT ![p] = "copy"]
    BY <1>1 DEF TypeInv
  <2> QED BY <1>3, <2>2, ForkObjectsStep, Zenon
<1> DEFINE from == call[p].from
           new == call[p].new
           n == Position(p)
<1>5. /\ from \in Tables /\ new \in Tables /\ FDT[new] \in Table
      /\ FDT'[new].objects = Copied(p) /\ FDT'[new].cur_path = FDT[new].cur_path
  <2>1. from \in Tables /\ new \in Tables /\ FDT[new] \in Table
    BY <1>1, <1>4, TableFacts
  <2>2. FDT'[new] = [FDT[new] EXCEPT !.objects = Copied(p)]
    BY <1>1, <1>4, <2>1 DEF TypeInv
  <2> QED BY <2>1, <2>2 DEF Table
<1>6. /\ Source(p) \in Seq(Objects) /\ n \in 1 .. Len(Source(p))
      /\ Copied(p) \in Seq(Objects) /\ Len(Copied(p)) = n
      /\ \A j \in 1 .. n - 1 : Copied(p)[j] = Source(p)[j]
      /\ Copied(p)[n] = CopiedObject(p)
  <2>1. Position(p) <= Len(Source(p))
    <3>1. Len(Source(p)) \in Nat
      <4>1. FDT[from] \in Table
        BY <1>1, <1>4, TableFacts
      <4> QED BY <4>1 DEF Table, Source
    <3> QED BY <1>4, <3>1
  <2> QED BY <1>2, <1>4, <2>1, CopyFacts
<1>7. Source(p)[n] # Garbage
  <2>1. FDT[from].objects # <<>> /\ FDT[from].objects = Source(p)
    BY <1>6 DEF Source
  <2>2. ~ \E q \in Linked : pc[q] = "copy" /\ call[q].new = from
    BY <1>2 DEF AtRest
  <2> QED BY <1>4, <1>5, <2>1, <2>2 DEF IInv, UnfinishedInv
<1>8. Copied(p) = Source(p)
  <2>1. CopiedObject(p) = Source(p)[n]
    BY <1>7 DEF CopiedObject
  <2> HIDE DEF n
  <2>2. \A j \in 1 .. n : Copied(p)[j] = Source(p)[j]
    BY <1>6, <2>1
  <2> QED BY <1>4, <1>6, <2>2 DEF n
<1>9. FDT[new].cur_path = FDT[from].cur_path
  BY <1>2 DEF AtRest
<1> QED BY <1>2, <1>5, <1>8, <1>9 DEF Source

\* A table that create_FDT_from_parent copies from one that is at rest meanwhile equals it,
\* and that is the parent's.
THEOREM CopiesAreInherited == Spec => Inherited
<1>1. IInv /\ [Next]_vars =>
        \/ \A p \in Procs :
            /\ pc[p] \in {"head", "copy"} /\ pc'[p] = "user"
            /\ calm[p] /\ Serving
            => /\ FDT'[call[p].new].objects = FDT[call[p].from].objects
               /\ FDT'[call[p].new].cur_path = FDT[call[p].from].cur_path
               /\ parent[p] # Init_pid => FDT[call[p].from].pid = parent[p]
        \/ UNCHANGED vars
  BY CopyIsEqual
<1> QED BY Invariant, <1>1, PTL DEF Spec, Inherited

\* Up to free_FDT, a call that has slept and copies nothing that changed does not fault.
LEMMA FaultInside ==
    ASSUME IInv, NEW p \in Procs, Call(p), fault', ~fault, calm[p], Serving, Inside(p)
    PROVE  FALSE
<1>1. /\ TypeInv /\ NULL \notin Tables
      /\ \A t \in Tables : Taken(t) => Used(t)
  <2>1. TypeInv
    BY DEF IInv
  <2>2. \A t \in Tables : FDT[t].state # "freed"
    BY DEF IInv, ModuleInv, Serving
  <2>3. \A t \in Tables : Used(t) \/ FDT[t] = NoTable \/ FDT[t] = FreedTable
    BY <2>1, TableFacts
  <2> QED BY <2>1, <2>2, <2>3, TableFacts DEF NoTable, FreedTable, Taken
<1>2. p \in Copying => /\ AtRest(p)
                       /\ call[p].from \in Tables /\ Used(call[p].from)
                       /\ FDT[call[p].from].cur_path \notin {Garbage, Freed}
                       /\ FDT[call[p].from].objects # <<>>
                       /\ FDT[call[p].from].objects[Len(FDT[call[p].from].objects)] # Garbage
  <2> SUFFICES ASSUME p \in Copying
               PROVE  /\ AtRest(p)
                      /\ call[p].from \in Tables /\ Used(call[p].from)
                      /\ FDT[call[p].from].cur_path \notin {Garbage, Freed}
                      /\ FDT[call[p].from].objects # <<>>
                      /\ FDT[call[p].from].objects[Len(FDT[call[p].from].objects)] # Garbage
    OBVIOUS
  <2>1. AtRest(p)
    BY <1>1 DEF IInv, CalmInv
  <2>2. call[p].from \in Tables /\ Used(call[p].from)
    BY <1>1 DEF IInv, CallsInv, Building, Copying
  <2>3. /\ \A q \in Linked : call[q].new # call[p].from
        /\ \A q \in Opening : call[q].own # call[p].from
    BY <2>1 DEF AtRest
  <2> QED BY <2>1, <2>2, <2>3 DEF IInv, UnfinishedInv
<1>3. p \in Building => ~LostLast(p) /\ call[p] \in GetCall
  <2> SUFFICES ASSUME p \in Building PROVE ~LostLast(p) /\ call[p] \in GetCall
    OBVIOUS
  <2>1. call[p] \in GetCall /\ (call[p].last \in Tables => Taken(call[p].last))
    BY <1>1 DEF IInv, CallsInv, TypeInv
  <2>2. call[p].last = NULL \/ call[p].last \in Tables
    BY <2>1 DEF GetCall, Pointers
  <2> QED BY <1>1, <2>1, <2>2 DEF LostLast
<1>4. p \in Linked => call[p].new \in Tables /\ Used(call[p].new)
  BY <1>1 DEF IInv, CallsInv
<1>5. CASE Create(p)
  <2>1. p \in Building /\ LostLast(p)
    BY <1>5 DEF Create, Building
  <2> QED BY <1>3, <2>1
<1>6. CASE ForkLink(p)
  <2>1. p \in Building /\ p \in Copying
    BY <1>6 DEF ForkLink, Building, Copying
  <2>2. \/ LostLast(p)
        \/ ~Used(call[p].from)
        \/ FDT[call[p].from].cur_path \in {Garbage, Freed}
    BY <1>6, Zenon DEF ForkLink
  <2> QED BY <1>2, <1>3, <2>1, <2>2
<1>7. CASE ForkPath(p)
  <2>1. p \in Linked /\ p \in Copying
    BY <1>7 DEF ForkPath, Linked, Copying
  <2>2. \/ ~Used(call[p].from)
        \/ ~Used(call[p].new)
        \/ FDT[call[p].from].cur_path \in {Garbage, Freed}
    BY <1>7, Zenon DEF ForkPath
  <2> QED BY <1>2, <1>4, <2>1, <2>2
<1>8. CASE ForkObjects(p)
  <2> DEFINE source == FDT[call[p].from].objects
             i == call[p].object + 1
  <2>1. p \in Linked /\ p \in Copying /\ p \in Building /\ pc[p] \in {"head", "copy"}
    BY <1>8 DEF ForkObjects, Linked, Copying, Building
  <2>2. \/ ~Used(call[p].from) \/ ~Used(call[p].new)
        \/ call[p].object = Freed
        \/ i > Len(source)
        \/ ~(i > Len(source)) /\ source[i] = Garbage
    BY <1>8, Zenon DEF ForkObjects
  <2>3. source \in Seq(Objects) /\ Len(source) \in Nat /\ Len(source) >= 1
    <3>1. FDT[call[p].from] \in Table
      BY <1>1, <1>2, <2>1, TableFacts
    <3>2. source \in Seq(Objects) /\ source # <<>>
      BY <1>2, <2>1, <3>1 DEF Table
    <3> QED BY <3>2
  <2>4. call[p].object \in Nat /\ i \in 1 .. Len(source)
    <3>1. CASE pc[p] = "head"
      <4>1. call[p].object = 0
        BY <2>1, <3>1 DEF IInv, CallsInv
      <4> QED BY <2>3, <4>1
    <3>2. CASE pc[p] = "copy"
      <4>1. call[p].object \in 1 .. Len(source) - 1
        BY <1>2, <2>1, <3>2 DEF AtRest
      <4> QED BY <2>3, <4>1
    <3> QED BY <2>1, <3>1, <3>2
  <2>5. \A j \in 1 .. Len(source) : source[j] # Garbage
    <3>1. \A j \in 1 .. Len(source) - 1 : source[j] # Garbage
      BY <1>2, <2>1 DEF IInv, ObjectsInv
    <3>2. \A j \in 1 .. Len(source) : j \in 1 .. Len(source) - 1 \/ j = Len(source)
      BY <2>3
    <3> QED BY <1>2, <2>1, <3>1, <3>2
  <2>6. call[p].object # Freed /\ ~(i > Len(source))
    <3>1. \A k \in Nat : k # Freed
      BY DEF Freed
    <3> HIDE DEF source
    <3> QED BY <2>3, <2>4, <3>1
  <2> QED BY <1>2, <1>4, <2>1, <2>2, <2>4, <2>5, <2>6
<1>9. CASE OpenObject(p) \/ OpenPath(p)
  <2>1. p \in Opening /\ ~Used(call[p].own)
    BY <1>9 DEF OpenObject, OpenPath, Opening
  <2>2. call[p].own \in Tables /\ Taken(call[p].own)
    BY <1>1, <2>1 DEF IInv, CallsInv, TypeInv, OpenCall
  <2> QED BY <1>1, <2>1, <2>2
<1>10. ~GetFDT(p) /\ (\A f \in Files : ~OpenFile(p, f)) /\ \A fd \in Descriptors : ~CloseFile(p, fd)
  BY DEF GetFDT, OpenFile, CloseFile, Calls
<1> QED BY <1>5, <1>6, <1>7, <1>8, <1>9, <1>10 DEF Call

\* A call that free_FDT does not come into faults over a table that another call has not
\* filled in, over a descriptor that is not open, or for want of the disk.
LEMMA FaultHasCompany ==
    ASSUME IInv, NEW p \in Procs, Call(p), fault', ~fault, calm[p], Serving \/ ~Inside(p)
    PROVE  \/ \E q \in Procs \ {p} : Inside(q)
           \/ ClosesUnopened(p)
           \/ OpensWithoutDisk(p)
<1>1. TypeInv
  BY DEF IInv
<1>2. CASE ~Inside(p)
  <2>1. \/ GetFDT(p) \/ \E f \in Files : OpenFile(p, f)
        \/ \E fd \in Descriptors : CloseFile(p, fd)
    BY <1>2 DEF Call, Create, ForkLink, ForkPath, ForkObjects, OpenObject, OpenPath, Inside
  <2>2. CASE GetFDT(p)
    <3>1. Own(p) # NULL /\ Own(p) \notin Tables /\ pc[p] = "user"
      BY <2>2 DEF GetFDT, Inside
    <3>2. PICK t \in Listed : FDT[t].next = Garbage
      BY <3>1, OwnLemma DEF IInv
    <3>3. t \in Tables /\ Used(t)
      BY ListLemma DEF IInv, ListFacts
    <3>4. PICK q \in Linked : pc[q] = "path"
      BY <3>2, <3>3 DEF IInv, UnfinishedInv
    <3> QED BY <3>1, <3>4 DEF Linked, Inside
  <2>3. CASE \E f \in Files : OpenFile(p, f)
    <3>1. module # "loaded"
      BY <2>3 DEF OpenFile
    <3> QED BY <2>3, <3>1 DEF OpensWithoutDisk
  <2>4. CASE \E fd \in Descriptors : CloseFile(p, fd)
    <3>1. PICK fd \in Descriptors : CloseFile(p, fd)
      BY <2>4
    <3>2. fd < 0 \/ fd = Len(FDT[Own(p)].objects)
      BY <3>1 DEF CloseFile
    <3>3. Own(p) \in Tables /\ FDT[Own(p)] \in Table
      BY <3>1, OwnFound DEF CloseFile
    <3>4. Len(FDT[Own(p)].objects) \in Nat
      BY <3>3 DEF Table
    <3>5. fd \notin Opened(p)
      BY <3>2, <3>4 DEF Opened
    <3> QED BY <3>1, <3>5 DEF ClosesUnopened
  <2> QED BY <2>1, <2>2, <2>3, <2>4
<1>3. CASE Inside(p)
  BY <1>3, FaultInside
<1> QED BY <1>2, <1>3

\* A call that comes alone, and that free_FDT does not come into, uses a pointer that leads
\* nowhere only where it closes what is not open (rd_close has no test for NULL) or opens a file
\* without the disk: at any other fault another call is inside too, or has changed the table
\* that is copied.
THEOREM FaultsNeedCompany == Spec => FaultsInCompany
<1>1. IInv => \A p \in Procs :
        Call(p) /\ fault' /\ ~fault /\ calm[p] /\ (Serving \/ ~Inside(p))
        => \/ \E q \in Procs \ {p} : Inside(q)
           \/ ClosesUnopened(p)
           \/ OpensWithoutDisk(p)
  BY FaultHasCompany
<1> QED BY Invariant, <1>1, PTL DEF Spec, FaultsInCompany
=============================================================================
