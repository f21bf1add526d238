------------------------------ MODULE ClassProofs ------------------------------
(***************************************************************************)
(* Proofs about the parts of the compiler in which classes come into       *)
(* being: the tables of their methods, laid out from the root of the       *)
(* hierarchy down, and the classes that the written types of a program     *)
(* call for.  As in CompilerProofs the behaviours of MCSpec are those of   *)
(* the parts, and the programs have any number of classes.                 *)
(***************************************************************************)
EXTENDS MCCompiler, FiniteSetTheorems, SequenceTheorems, NaturalsInduction, WellFoundedInduction, TLAPS

\* A set of numbers has a least one.
LEMMA LeastNumber ==
    ASSUME NEW S, S \subseteq Nat, S # {}
    PROVE  \E k \in S : \A j \in S : k <= j
<1> DEFINE less == {ss \in Nat \X Nat : ss[1] < ss[2]}
<1>1. \A j, k \in S : j < k => <<j, k>> \in less
  OBVIOUS
<1>2. IsWellFoundedOn(less, Nat)
  BY NatLessThanWellFounded DEF OpToRel
<1> HIDE DEF less
<1>3. PICK k \in S : \A j \in S : ~(<<j, k>> \in less)
  BY <1>2, WFMin
<1>4. \A j \in S : ~(j < k)
  BY <1>1, <1>3
<1> QED
  BY <1>4

-----------------------------------------------------------------------------
(***************************************************************************)
(* Hierarchy: the tables of the methods are laid out from the root down;   *)
(* whatever the bases are, what a call finds in the table of an object is  *)
(* the declaration nearest to the object's class.                          *)
(***************************************************************************)
LEMMA HierarchyIsFinite ==
    /\ IsFiniteSet(HierClasses) /\ IsFiniteSet(HierNames) /\ HierClasses # {}
    /\ Proxy \notin HierClasses /\ NoClass \notin H!All
  BY HierarchiesAreFinite DEF H!HierarchyAssumption, H!IsFiniteSet, IsFiniteSet

\* The table of a class: what it inherits, with its own methods in the places of those
\* they override or behind.
DistinctNames(list) == \A i, j \in 1..Len(list) : H!NameOf(list[i]) = H!NameOf(list[j]) => i = j
IsTable(list, inh, os, k) ==
    /\ list \in Seq(H!Method) /\ Len(inh) <= Len(list) /\ DistinctNames(list)
    /\ \A i \in 1..Len(inh) : H!NameOf(list[i]) = H!NameOf(inh[i])
    /\ \A i \in 1..Len(list) :
          \/ \E j \in 1..k : list[i] = os[j]
          \/ i <= Len(inh) /\ list[i] = inh[i] /\ \A j \in 1..k : H!NameOf(os[j]) # H!NameOf(inh[i])
    /\ \A j \in 1..k : \E i \in 1..Len(list) : list[i] = os[j]

LEMMA SlotFinds ==
    ASSUME NEW list \in Seq(H!Method), NEW n
    PROVE  \/ H!Slot(list, n) = 0 /\ \A i \in 1..Len(list) : H!NameOf(list[i]) # n
           \/ H!Slot(list, n) \in 1..Len(list) /\ H!NameOf(list[H!Slot(list, n)]) = n
<1>1. DOMAIN list = 1..Len(list)
  OBVIOUS
<1>2. CASE \E i \in 1..Len(list) : H!NameOf(list[i]) = n
  <2>1. H!Slot(list, n) = CHOOSE i \in 1..Len(list) : H!NameOf(list[i]) = n
    BY <1>1, <1>2 DEF H!Slot
  <2> QED
    BY <1>2, <2>1
<1>3. CASE ~\E i \in 1..Len(list) : H!NameOf(list[i]) = n
  BY <1>1, <1>3 DEF H!Slot
<1> QED
  BY <1>2, <1>3

LEMMA SlotIs ==
    ASSUME NEW list \in Seq(H!Method), DistinctNames(list), NEW i \in 1..Len(list)
    PROVE  H!Slot(list, H!NameOf(list[i])) = i
<1>1. PICK s : s = H!Slot(list, H!NameOf(list[i]))
  OBVIOUS
<1>2. s \in 1..Len(list) /\ H!NameOf(list[s]) = H!NameOf(list[i])
  BY <1>1, SlotFinds
<1> QED
  BY <1>1, <1>2 DEF DistinctNames

LEMMA AddedStep ==
    ASSUME NEW list, NEW inh \in Seq(H!Method), NEW os \in Seq(H!Method), NEW k \in 1..Len(os),
           IsTable(list, inh, os, k - 1), DistinctNames(os)
    PROVE  IsTable(H!Added(list, os[k]), inh, os, k)
<1>1. PICK m \in H!Method : m = os[k]
  OBVIOUS
<1>2. PICK s : s = H!Slot(list, H!NameOf(m))
  OBVIOUS
<1>3. PICK new : new = H!Added(list, m)
  OBVIOUS
<1>4. list \in Seq(H!Method)
  BY DEF IsTable
<1>5. \A j \in 1..(k - 1) : H!NameOf(os[j]) # H!NameOf(m)
  BY <1>1 DEF DistinctNames
<1>6. \A j \in 1..k : j = k \/ j \in 1..(k - 1)
  OBVIOUS
<1>7. CASE s = 0 /\ \A i \in 1..Len(list) : H!NameOf(list[i]) # H!NameOf(m)
  <2>1. new = Append(list, m)
    BY <1>2, <1>3, <1>7 DEF H!Added
  <2>2. /\ new \in Seq(H!Method) /\ Len(new) = Len(list) + 1 /\ new[Len(list) + 1] = m
        /\ \A i \in 1..Len(list) : new[i] = list[i]
    BY <1>4, <2>1
  <2>3. Len(inh) <= Len(new) /\ \A i \in 1..Len(inh) : H!NameOf(new[i]) = H!NameOf(inh[i])
    BY <1>4, <2>2 DEF IsTable
  <2>4. DistinctNames(new)
    <3>1. DistinctNames(list)
      BY DEF IsTable
    <3>2. \A i \in 1..Len(new) : i = Len(list) + 1 \/ i \in 1..Len(list)
      BY <1>4, <2>2
    <3>3. \A i \in 1..Len(list) : H!NameOf(new[i]) # H!NameOf(m) /\ H!NameOf(new[i]) = H!NameOf(list[i])
      BY <1>7, <2>2
    <3>4. H!NameOf(new[Len(list) + 1]) = H!NameOf(m)
      BY <2>2
    <3> QED
      BY <3>1, <3>2, <3>3, <3>4 DEF DistinctNames
  <2>5. ASSUME NEW i \in 1..Len(new)
        PROVE  \/ \E j \in 1..k : new[i] = os[j]
               \/ i <= Len(inh) /\ new[i] = inh[i] /\ \A j \in 1..k : H!NameOf(os[j]) # H!NameOf(inh[i])
    <3>1. CASE i = Len(list) + 1
      BY <1>1, <2>2, <3>1
    <3>2. CASE i \in 1..Len(list)
      <4>1. \/ \E j \in 1..(k - 1) : list[i] = os[j]
            \/ i <= Len(inh) /\ list[i] = inh[i] /\ \A j \in 1..(k - 1) : H!NameOf(os[j]) # H!NameOf(inh[i])
        BY <3>2 DEF IsTable
      <4> QED
        BY <1>1, <1>6, <1>7, <2>2, <3>2, <4>1
    <3> QED
      BY <1>4, <2>2, <3>1, <3>2
  <2>6. \A j \in 1..k : \E i \in 1..Len(new) : new[i] = os[j]
    <3> TAKE j \in 1..k
    <3>1. CASE j = k
      BY <1>1, <1>4, <2>2, <3>1
    <3>2. CASE j \in 1..(k - 1)
      <4>1. PICK i \in 1..Len(list) : list[i] = os[j]
        BY <3>2 DEF IsTable
      <4> QED
        BY <1>4, <2>2, <4>1
    <3> QED
      BY <1>6, <3>1, <3>2
  <2> QED
    BY <1>1, <1>3, <2>2, <2>3, <2>4, <2>5, <2>6 DEF IsTable
<1>8. CASE s \in 1..Len(list) /\ H!NameOf(list[s]) = H!NameOf(m)
  <2>1. new = [list EXCEPT ![s] = m]
    BY <1>2, <1>3, <1>4, <1>8 DEF H!Added
  <2>2. /\ new \in Seq(H!Method) /\ Len(new) = Len(list) /\ new[s] = m
        /\ \A i \in 1..Len(list) : i # s => new[i] = list[i]
    BY <1>4, <1>8, <2>1
  <2>3. \A i \in 1..Len(list) : H!NameOf(new[i]) = H!NameOf(list[i])
    BY <1>8, <2>2
  <2>4. Len(inh) <= Len(new) /\ \A i \in 1..Len(inh) : H!NameOf(new[i]) = H!NameOf(inh[i])
    BY <1>4, <2>2, <2>3 DEF IsTable
  <2>5. DistinctNames(new)
    BY <2>2, <2>3 DEF IsTable, DistinctNames
  <2>6. ASSUME NEW i \in 1..Len(new)
        PROVE  \/ \E j \in 1..k : new[i] = os[j]
               \/ i <= Len(inh) /\ new[i] = inh[i] /\ \A j \in 1..k : H!NameOf(os[j]) # H!NameOf(inh[i])
    <3>1. CASE i = s
      BY <1>1, <2>2, <3>1
    <3>2. CASE i # s
      <4>1. \/ \E j \in 1..(k - 1) : list[i] = os[j]
            \/ i <= Len(inh) /\ list[i] = inh[i] /\ \A j \in 1..(k - 1) : H!NameOf(os[j]) # H!NameOf(inh[i])
        BY <2>2 DEF IsTable
      <4>2. H!NameOf(list[i]) # H!NameOf(m)
        BY <1>8, <2>2, <3>2 DEF IsTable, DistinctNames
      <4> QED
        BY <1>1, <1>6, <2>2, <3>2, <4>1, <4>2
    <3> QED
      BY <3>1, <3>2
  <2>7. \A j \in 1..k : \E i \in 1..Len(new) : new[i] = os[j]
    <3> TAKE j \in 1..k
    <3>1. CASE j = k
      BY <1>1, <1>8, <2>2, <3>1
    <3>2. CASE j \in 1..(k - 1)
      <4>1. PICK i \in 1..Len(list) : list[i] = os[j]
        BY <3>2 DEF IsTable
      <4>2. i # s
        BY <1>5, <1>8, <3>2, <4>1
      <4> QED
        BY <2>2, <4>1, <4>2
    <3> QED
      BY <1>6, <3>1, <3>2
  <2> QED
    BY <1>1, <1>3, <2>2, <2>4, <2>5, <2>6, <2>7 DEF IsTable
<1> QED
  BY <1>2, <1>4, <1>7, <1>8, SlotFinds

\* The recursion that makes a table has a solution.
IsRun(t, inh, os, n) == t = [i \in 0..n |-> IF i = 0 THEN inh ELSE H!Added(t[i - 1], os[i])]
LEMMA RunExists == ASSUME NEW inh, NEW os, NEW n \in Nat PROVE \E t : IsRun(t, inh, os, n)
<1> DEFINE Bad == {k \in Nat : ~\E t : IsRun(t, inh, os, k)}
<1>1. CASE Bad = {}
  BY <1>1
<1>2. CASE Bad # {}
  <2>1. PICK k \in Bad : \A j \in Bad : k <= j
    BY <1>2, LeastNumber
  <2>2. CASE k = 0
    <3>1. PICK t : t = [i \in 0..0 |-> inh]
      OBVIOUS
    <3>2. IsRun(t, inh, os, 0)
      BY <3>1 DEF IsRun
    <3> QED
      BY <2>2, <3>2
  <2>3. CASE k # 0
    <3>1. k - 1 \in Nat /\ k - 1 \notin Bad /\ k \in Nat
      BY <2>1, <2>3
    <3>2. PICK t : IsRun(t, inh, os, k - 1)
      BY <3>1
    <3>3. \A i \in 0..(k - 1) : t[i] = IF i = 0 THEN inh ELSE H!Added(t[i - 1], os[i])
      BY <3>2, Zenon DEF IsRun
    <3>4. PICK u : u = [i \in 0..k |-> IF i = k THEN H!Added(t[k - 1], os[k]) ELSE t[i]]
      OBVIOUS
    <3>5. ASSUME NEW i \in 0..k PROVE u[i] = IF i = 0 THEN inh ELSE H!Added(u[i - 1], os[i])
      <4>1. CASE i = k
        <5>1. u[i] = H!Added(t[k - 1], os[k]) /\ u[k - 1] = t[k - 1]
          BY <3>1, <3>4, <4>1
        <5> QED
          BY <2>3, <4>1, <5>1
      <4>2. CASE i = 0
        <5>1. u[i] = t[i] /\ 0 \in 0..(k - 1)
          BY <2>3, <3>1, <3>4, <4>2
        <5> QED
          BY <3>3, <4>2, <5>1
      <4>3. CASE i # k /\ i # 0
        <5>1. u[i] = t[i] /\ i \in 0..(k - 1) /\ u[i - 1] = t[i - 1]
          BY <3>1, <3>4, <4>3
        <5> QED
          BY <3>3, <4>3, <5>1
      <4> QED
        BY <4>1, <4>2, <4>3
    <3>6. u = [i \in 0..k |-> u[i]]
      BY <3>4
    <3>7. [i \in 0..k |-> u[i]] = [i \in 0..k |-> IF i = 0 THEN inh ELSE H!Added(u[i - 1], os[i])]
      BY <3>5
    <3>8. IsRun(u, inh, os, k)
      BY <3>6, <3>7 DEF IsRun
    <3> QED
      BY <2>1, <3>8
  <2> QED
    BY <2>2, <2>3
<1> QED
  BY <1>1, <1>2

LEMMA RunMakesTables ==
    ASSUME NEW inh \in Seq(H!Method), NEW os \in Seq(H!Method), NEW t, IsRun(t, inh, os, Len(os)),
           DistinctNames(inh), DistinctNames(os)
    PROVE  IsTable(t[Len(os)], inh, os, Len(os))
<1> DEFINE Bad == {k \in 0..Len(os) : ~IsTable(t[k], inh, os, k)}
<1>1. \A i \in 0..Len(os) : t[i] = IF i = 0 THEN inh ELSE H!Added(t[i - 1], os[i])
  BY Zenon DEF IsRun
<1>2. CASE Bad = {}
  <2>1. Len(os) \in 0..Len(os)
    OBVIOUS
  <2> QED
    BY <1>2, <2>1
<1>3. CASE Bad # {}
  <2>1. Bad \subseteq Nat
    OBVIOUS
  <2>2. PICK k \in Bad : \A j \in Bad : k <= j
    BY <1>3, <2>1, LeastNumber
  <2>3. CASE k = 0
    <3>1. t[0] = inh
      BY <1>1, <2>3
    <3>2. IsTable(inh, inh, os, 0)
      BY DEF IsTable
    <3> QED
      BY <2>2, <2>3, <3>1, <3>2
  <2>4. CASE k # 0
    <3>1. k \in 1..Len(os) /\ k - 1 \in 0..Len(os) /\ k - 1 \notin Bad /\ k \in 0..Len(os)
      BY <2>2, <2>4
    <3>2. IsTable(t[k - 1], inh, os, k - 1)
      BY <3>1
    <3>3. t[k] = H!Added(t[k - 1], os[k])
      BY <1>1, <2>4, <3>1
    <3>4. IsTable(t[k], inh, os, k)
      BY <3>1, <3>2, <3>3, AddedStep
    <3> QED
      BY <2>2, <3>4
  <2> QED
    BY <2>3, <2>4
<1> QED
  BY <1>2, <1>3

LEMMA TableIsRun ==
    ASSUME NEW c, Len(own[c]) \in Nat
    PROVE  \E t : IsRun(t, H!Inherited(c), H!OwnMethods(c), Len(own[c])) /\ H!Table(c) = t[Len(own[c])]
<1> DEFINE n == Len(own[c])
           t == CHOOSE x : IsRun(x, H!Inherited(c), H!OwnMethods(c), n)
<1>1. IsRun(t, H!Inherited(c), H!OwnMethods(c), n)
  BY RunExists, Zenon
<1>2. H!Table(c) = t[n]
  BY Zenon DEF H!Table, IsRun
<1> QED
  BY <1>1, <1>2

\* A class with its bases, where b says what the bases are.
Above(b, c) == {d \in H!All : \A S \in SUBSET H!All :
                   c \in S /\ (\A e \in S : b[e] = NoClass \/ b[e] \in S) => d \in S}
Links == [H!All -> HierClasses \cup {NoClass}]
LEMMA ChainIsAbove == \A c : H!Chain(c) = Above(base, c)
  BY DEF H!Chain, Above, H!HasBases

LEMMA AboveHas ==
    ASSUME NEW b \in Links, NEW c \in H!All
    PROVE  /\ c \in Above(b, c) /\ Above(b, c) \subseteq H!All
           /\ \A d \in Above(b, c) : b[d] = NoClass \/ b[d] \in Above(b, c)
<1>1. \A d \in H!All : b[d] = NoClass \/ b[d] \in H!All
  BY DEF Links, H!All
<1> QED
  BY <1>1 DEF Above

LEMMA AboveLeast ==
    ASSUME NEW b, NEW c, NEW S \in SUBSET H!All, c \in S, \A e \in S : b[e] = NoClass \/ b[e] \in S
    PROVE  Above(b, c) \subseteq S
  BY DEF Above

LEMMA AboveAbove ==
    ASSUME NEW b \in Links, NEW c \in H!All, NEW d \in Above(b, c) PROVE Above(b, d) \subseteq Above(b, c)
  BY AboveHas, AboveLeast

LEMMA AboveStep ==
    ASSUME NEW b \in Links, NEW c \in H!All
    PROVE  /\ b[c] = NoClass => Above(b, c) = {c}
           /\ b[c] # NoClass => b[c] \in H!All /\ Above(b, c) = {c} \cup Above(b, b[c])
<1>1. ASSUME b[c] = NoClass PROVE Above(b, c) = {c}
  <2>1. Above(b, c) \subseteq {c}
    BY <1>1, AboveLeast, {c} \in SUBSET H!All
  <2> QED
    BY <2>1, AboveHas
<1>2. ASSUME b[c] # NoClass PROVE b[c] \in H!All /\ Above(b, c) = {c} \cup Above(b, b[c])
  <2>1. b[c] \in H!All
    BY <1>2 DEF Links, H!All
  <2>2. b[c] \in Above(b, c) /\ c \in Above(b, c)
    BY <1>2, AboveHas
  <2>3. Above(b, b[c]) \subseteq Above(b, c)
    BY <2>2, AboveAbove
  <2>4. \A e \in {c} \cup Above(b, b[c]) : b[e] = NoClass \/ b[e] \in {c} \cup Above(b, b[c])
    BY <2>1, AboveHas
  <2>5. {c} \cup Above(b, b[c]) \in SUBSET H!All
    BY <2>1, AboveHas
  <2>6. Above(b, c) \subseteq {c} \cup Above(b, b[c])
    BY <2>4, <2>5, AboveLeast
  <2> QED
    BY <2>1, <2>2, <2>3, <2>6
<1> QED
  BY <1>1, <1>2

\* What is above a class of the source does not depend on the proxy.
LEMMA AboveSame ==
    ASSUME NEW a \in Links, NEW b \in Links, NEW c \in HierClasses, \A d \in HierClasses : a[d] = b[d]
    PROVE  Above(a, c) = Above(b, c) /\ Above(a, c) \subseteq HierClasses
<1>1. ASSUME NEW f \in Links, NEW g \in Links, \A d \in HierClasses : f[d] = g[d]
      PROVE  Above(f, c) \subseteq Above(g, c) \cap HierClasses
  <2>1. PICK S : S = Above(g, c) \cap HierClasses
    OBVIOUS
  <2>2. c \in S /\ S \subseteq H!All
    BY <2>1, AboveHas DEF H!All
  <2>3. \A e \in S : g[e] \in HierClasses \cup {NoClass} /\ (g[e] = NoClass \/ g[e] \in Above(g, c))
    BY <2>1, <2>2, AboveHas DEF Links
  <2>4. \A e \in S : f[e] = NoClass \/ f[e] \in S
    BY <1>1, <2>1, <2>3
  <2> QED
    BY <2>1, <2>2, <2>4, AboveLeast
<1>2. Above(a, c) \subseteq Above(b, c) \cap HierClasses
  BY <1>1
<1>3. Above(b, c) \subseteq Above(a, c)
  BY <1>1
<1> QED
  BY <1>2, <1>3

\* Classes Fin whose bases are all there and lead to a root.
Rooted(b, Fin) == /\ Fin \subseteq H!All /\ \A c \in Fin : b[c] = NoClass \/ b[c] \in Fin
                /\ \A S \in SUBSET Fin : S # {} => \E c \in S : b[c] \notin S
LEMMA AboveRooted ==
    ASSUME NEW b \in Links, NEW Fin, Rooted(b, Fin), NEW c \in Fin PROVE Above(b, c) \subseteq Fin
  BY AboveLeast DEF Rooted

LEMMA RootedGrows ==
    ASSUME NEW b \in Links, NEW Fin, Rooted(b, Fin), NEW c \in H!All, c \notin Fin, b[c] = NoClass \/ b[c] \in Fin
    PROVE  Rooted(b, Fin \cup {c})
<1>1. b[c] # c
  BY HierarchyIsFinite
<1>2. ASSUME NEW S \in SUBSET (Fin \cup {c}), S # {} PROVE \E d \in S : b[d] \notin S
  <2>1. CASE S \cap Fin = {}
    BY <1>1, <1>2, <2>1
  <2>2. CASE S \cap Fin # {}
    <3>1. PICK d \in S \cap Fin : b[d] \notin S \cap Fin
      BY <2>2 DEF Rooted
    <3>2. b[d] # c
      BY <3>1, HierarchyIsFinite DEF Rooted
    <3>3. b[d] \notin S
      BY <1>2, <3>1, <3>2
    <3> QED
      BY <3>1, <3>3
  <2> QED
    BY <2>1, <2>2
<1> QED
  BY <1>2 DEF Rooted

LEMMA NoneAboveItself ==
    ASSUME NEW b \in Links, NEW Fin, Rooted(b, Fin), NEW c \in Fin, b[c] # NoClass
    PROVE  c \notin Above(b, b[c])
<1> DEFINE G == {d \in Fin : b[d] # NoClass /\ d \in Above(b, b[d])}
<1>1. ASSUME NEW d \in G PROVE b[d] \in G
  <2>1. PICK e : e = b[d]
    OBVIOUS
  <2>2. d \in H!All /\ e \in Fin /\ e \in H!All /\ d \in Above(b, e)
    BY <2>1 DEF Rooted
  <2>3. CASE b[e] = NoClass
    BY <2>1, <2>2, <2>3, AboveStep
  <2>4. CASE b[e] # NoClass
    <3>1. b[e] \in H!All /\ Above(b, e) = {e} \cup Above(b, b[e])
      BY <2>2, <2>4, AboveStep
    <3>2. e \in Above(b, b[e])
      <4>1. CASE d = e
        BY <2>1, <2>2, <4>1
      <4>2. CASE d \in Above(b, b[e])
        <5>1. Above(b, d) \subseteq Above(b, b[e])
          BY <3>1, <4>2, AboveAbove
        <5>2. e \in Above(b, d)
          BY <2>1, <2>2, AboveHas
        <5> QED
          BY <5>1, <5>2
      <4> QED
        BY <2>2, <3>1, <4>1, <4>2
    <3> QED
      BY <2>1, <2>2, <2>4, <3>2
  <2> QED
    BY <2>3, <2>4
<1>2. G = {}
  BY <1>1 DEF Rooted
<1> QED
  BY <1>2

LEMMA AboveIsOrder ==
    ASSUME NEW b \in Links, NEW Fin, Rooted(b, Fin), NEW c \in Fin, NEW d \in Above(b, c), c \in Above(b, d)
    PROVE  c = d
<1> SUFFICES ASSUME c # d PROVE FALSE
  OBVIOUS
<1>1. c \in H!All /\ d \in H!All
  BY AboveHas DEF Rooted
<1>2. b[c] # NoClass /\ b[c] \in H!All /\ d \in Above(b, b[c])
  BY <1>1, AboveStep
<1>3. c \in Above(b, b[c])
  BY <1>1, <1>2, AboveAbove
<1> QED
  BY <1>2, <1>3, NoneAboveItself

\* What is so of the bases is so of the class: then it is so of all.
LEMMA FromTheRoot ==
    ASSUME NEW b \in Links, NEW Fin, Rooted(b, Fin), NEW P \in SUBSET Fin,
           \A c \in Fin : (b[c] = NoClass \/ b[c] \in P) => c \in P
    PROVE  P = Fin
<1>1. \A c \in Fin \ P : b[c] \in Fin \ P
  BY DEF Rooted
<1>2. Fin \ P = {}
  BY <1>1 DEF Rooted
<1> QED
  BY <1>2

\* What a class is once its list of methods is finalized: the table, what it has come
\* from, the indices of its methods, and what of that is known to be virtual.
Owned(c, names) == [j \in 1..Len(names) |-> <<c, names[j]>>]
Different(names) == \A i, j \in 1..Len(names) : names[i] = names[j] => i = j
Made(c, inh, names, table, idx, bm, virt) ==
    /\ IsTable(table, inh, Owned(c, names), Len(names))
    /\ \A j \in 1..Len(names) : idx[<<c, names[j]>>] = H!Slot(table, names[j])
    /\ \A i \in 1..Len(inh), j \in 1..Len(names) : H!NameOf(inh[i]) = names[j] =>
          inh[i] \in virt /\ <<c, names[j]>> \in virt /\ bm[<<c, names[j]>>] = inh[i]
    /\ \A n \in HierNames : (\A i \in 1..Len(inh), j \in 1..Len(names) : H!NameOf(inh[i]) = n => names[j] # n)
                           => bm[<<c, n>>] = <<c, n>>

HierTypes ==
    /\ base \in Links
    /\ own \in [H!All -> Seq(HierNames)] /\ \A c \in H!All : Different(own[c])
    /\ methods \in [H!All -> Seq(H!Method)]
    /\ index \in [H!Method -> Nat] /\ baseMethod \in [H!Method -> H!Method] /\ virtual \subseteq H!Method
    /\ dtors \subseteq HierClasses
MadeOK ==
    /\ Rooted(base, finalized)
    /\ \A c \in finalized :
          Made(c, H!Inherited(c), own[c], methods[c], index, baseMethod, virtual)
    /\ \A c \in H!All \ finalized, n \in HierNames : baseMethod[<<c, n>>] = <<c, n>>

LEMMA OwnAreDifferent ==
    ASSUME NEW c \in H!All, NEW names \in Seq(HierNames), Different(names)
    PROVE  /\ Owned(c, names) \in Seq(H!Method) /\ Len(Owned(c, names)) = Len(names)
           /\ \A j \in 1..Len(names) : /\ Owned(c, names)[j] = <<c, names[j]>>
                                       /\ H!NameOf(Owned(c, names)[j]) = names[j]
           /\ DistinctNames(Owned(c, names))
<1>1. /\ Owned(c, names) \in Seq(H!Method) /\ Len(Owned(c, names)) = Len(names)
      /\ \A j \in 1..Len(names) : Owned(c, names)[j] = <<c, names[j]>>
  BY DEF Owned, H!Method
<1>2. \A j \in 1..Len(names) : H!NameOf(Owned(c, names)[j]) = names[j]
  BY <1>1 DEF H!NameOf
<1> QED
  BY <1>1, <1>2 DEF DistinctNames, Different

LEMMA MadeKeeps ==
    ASSUME NEW c, NEW inh, NEW names, NEW table, NEW idx, NEW bm, NEW virt,
           NEW idx2, NEW bm2, NEW virt2, Made(c, inh, names, table, idx, bm, virt), names \in Seq(HierNames),
           \A n \in HierNames : idx2[<<c, n>>] = idx[<<c, n>>] /\ bm2[<<c, n>>] = bm[<<c, n>>],
           virt \subseteq virt2
    PROVE  Made(c, inh, names, table, idx2, bm2, virt2)
<1>1. \A j \in 1..Len(names) : names[j] \in HierNames
  OBVIOUS
<1> QED
  BY <1>1 DEF Made

LEMMA InheritedIs ==
    ASSUME HierTypes, MadeOK, NEW c \in H!All, base[c] = NoClass \/ base[c] \in finalized
    PROVE  H!Inherited(c) \in Seq(H!Method) /\ DistinctNames(H!Inherited(c))
<1>1. CASE base[c] = NoClass
  BY <1>1 DEF H!Inherited, DistinctNames
<1>2. CASE base[c] # NoClass
  <2>1. base[c] \in finalized /\ H!Inherited(c) = methods[base[c]]
    BY <1>2 DEF H!Inherited
  <2> QED
    BY <2>1 DEF MadeOK, Made, IsTable
<1> QED
  BY <1>1, <1>2

LEMMA TableIs ==
    ASSUME HierTypes, MadeOK, NEW c \in H!All, base[c] = NoClass \/ base[c] \in finalized
    PROVE  IsTable(H!Table(c), H!Inherited(c), Owned(c, own[c]), Len(own[c]))
<1>1. own[c] \in Seq(HierNames) /\ Different(own[c])
  BY DEF HierTypes
<1>2. H!OwnMethods(c) = Owned(c, own[c])
  BY <1>1 DEF H!OwnMethods, Owned
<1>3. Len(own[c]) \in Nat
  BY <1>1
<1>4. PICK t : /\ IsRun(t, H!Inherited(c), Owned(c, own[c]), Len(own[c]))
               /\ H!Table(c) = t[Len(own[c])]
  BY <1>2, <1>3, TableIsRun
<1>5. PICK os : os = Owned(c, own[c])
  OBVIOUS
<1>6. os \in Seq(H!Method) /\ Len(os) = Len(own[c]) /\ DistinctNames(os)
  BY <1>1, <1>5, OwnAreDifferent
<1>7. H!Inherited(c) \in Seq(H!Method) /\ DistinctNames(H!Inherited(c))
  BY InheritedIs
<1>8. IsTable(t[Len(os)], H!Inherited(c), os, Len(os))
  BY <1>4, <1>5, <1>6, <1>7, RunMakesTables
<1> QED
  BY <1>4, <1>5, <1>6, <1>8

LEMMA FinalizedMakes ==
    ASSUME HierTypes, MadeOK, NEW c \in H!All \ finalized, base[c] = NoClass \/ base[c] \in finalized,
           H!Finalized(c), UNCHANGED <<base, own, dtors>>
    PROVE  HierTypes' /\ MadeOK'
<1>0. own[c] \in Seq(HierNames) /\ Different(own[c]) /\ c \in H!All
  BY DEF HierTypes
<1>1. H!Inherited(c) \in Seq(H!Method) /\ DistinctNames(H!Inherited(c))
  BY InheritedIs
<1>2. IsTable(H!Table(c), H!Inherited(c), Owned(c, own[c]), Len(own[c]))
  BY TableIs
<1>3. /\ methods' = [methods EXCEPT ![c] = H!Table(c)] /\ finalized' = finalized \cup {c}
      /\ index' = [m \in H!Method |-> IF m \in H!ToSet(H!OwnMethods(c))
                                    THEN H!Slot(H!Table(c), H!NameOf(m)) ELSE index[m]]
      /\ baseMethod' = [m \in H!Method |->
            IF m[1] = c /\ \E o \in H!Overridden(c) : H!NameOf(o) = H!NameOf(m)
            THEN CHOOSE o \in H!Overridden(c) : H!NameOf(o) = H!NameOf(m) ELSE baseMethod[m]]
      /\ virtual' = virtual \cup H!Overridden(c) \cup {<<c, H!NameOf(m)>> : m \in H!Overridden(c)}
  BY DEF H!Finalized
<1>4. H!Table(c) \in Seq(H!Method)
  BY <1>2 DEF IsTable
<1>5. \A m : m \in H!ToSet(H!OwnMethods(c)) <=> \E j \in 1..Len(own[c]) : m = <<c, own[c][j]>>
  <2>1. H!OwnMethods(c) = Owned(c, own[c])
    BY <1>0 DEF H!OwnMethods, Owned
  <2>2. DOMAIN Owned(c, own[c]) = 1..Len(own[c])
    BY DEF Owned
  <2>3. \A j \in 1..Len(own[c]) : Owned(c, own[c])[j] = <<c, own[c][j]>>
    BY DEF Owned
  <2> QED
    BY <2>1, <2>2, <2>3 DEF H!ToSet
<1>6. \A m : m \in H!Overridden(c) <=> \E i \in 1..Len(H!Inherited(c)), j \in 1..Len(own[c]) :
                                        m = H!Inherited(c)[i] /\ H!NameOf(m) = own[c][j]
  BY <1>0, <1>1 DEF H!Overridden, H!ToSet
<1>7. H!Overridden(c) \subseteq H!Method
  BY <1>1, <1>6
<1>8. HierTypes'
  <2>1. methods' \in [H!All -> Seq(H!Method)]
    BY <1>3, <1>4 DEF HierTypes
  <2>2. index' \in [H!Method -> Nat]
    <3>1. \A n : H!Slot(H!Table(c), n) \in Nat
      BY <1>4, SlotFinds
    <3> QED
      BY <1>3, <3>1 DEF HierTypes
  <2>3. baseMethod' \in [H!Method -> H!Method]
    BY <1>3, <1>7 DEF HierTypes
  <2>4. virtual' \subseteq H!Method
    <3>1. \A m \in H!Overridden(c) : H!NameOf(m) \in HierNames
      BY <1>0, <1>6
    <3> QED
      BY <1>0, <1>3, <1>7, <3>1 DEF HierTypes, H!Method
  <2> QED
    BY <2>1, <2>2, <2>3, <2>4 DEF HierTypes
<1>9. Rooted(base, finalized')
  BY <1>0, <1>3, RootedGrows DEF MadeOK, HierTypes
<1>10. ASSUME NEW d \in H!All, d # c
       PROVE  /\ methods'[d] = methods[d]
              /\ \A n \in HierNames : /\ index'[<<d, n>>] = index[<<d, n>>]
                                          /\ baseMethod'[<<d, n>>] = baseMethod[<<d, n>>]
  BY <1>3, <1>5, <1>10 DEF HierTypes, H!Method
<1>11. ASSUME NEW d \in finalized
       PROVE  Made(d, H!Inherited(d)', own[d], methods'[d], index', baseMethod', virtual')
  <2>1. d # c /\ d \in H!All /\ (base[d] = NoClass \/ base[d] \in finalized) /\ finalized \subseteq H!All
    BY DEF MadeOK, Rooted
  <2>2. H!Inherited(d)' = H!Inherited(d)
    BY <1>10, <2>1 DEF H!Inherited
  <2>3. virtual \subseteq virtual' /\ own[d] \in Seq(HierNames)
    BY <1>3, <2>1 DEF HierTypes
  <2> QED
    BY <1>10, <2>1, <2>2, <2>3, MadeKeeps DEF MadeOK
<1>12. Made(c, H!Inherited(c)', own[c], methods'[c], index', baseMethod', virtual')
  <2>1. H!Inherited(c)' = H!Inherited(c) /\ methods'[c] = H!Table(c)
    <3>1. base[c] # c
      BY HierarchyIsFinite
    <3> QED
      BY <1>3, <1>10, <3>1 DEF H!Inherited, HierTypes, MadeOK, Rooted
  <2>2. ASSUME NEW j \in 1..Len(own[c]) PROVE index'[<<c, own[c][j]>>] = H!Slot(H!Table(c), own[c][j])
    <3>1. <<c, own[c][j]>> \in H!Method /\ H!NameOf(<<c, own[c][j]>>) = own[c][j]
      BY <1>0 DEF H!Method, H!NameOf
    <3> QED
      BY <1>3, <1>5, <3>1
  <2>3. ASSUME NEW i \in 1..Len(H!Inherited(c)), NEW j \in 1..Len(own[c]), H!NameOf(H!Inherited(c)[i]) = own[c][j]
        PROVE  /\ H!Inherited(c)[i] \in virtual' /\ <<c, own[c][j]>> \in virtual'
               /\ baseMethod'[<<c, own[c][j]>>] = H!Inherited(c)[i]
    <3>1. PICK o : o = H!Inherited(c)[i]
      OBVIOUS
    <3>2. o \in H!Overridden(c) /\ H!NameOf(o) = own[c][j]
      BY <1>6, <2>3, <3>1
    <3>3. \A p \in H!Overridden(c) : H!NameOf(p) = H!NameOf(o) => p = o
      BY <1>1, <1>6, <3>1 DEF DistinctNames
    <3>4. PICK m : m = <<c, own[c][j]>>
      OBVIOUS
    <3>5. m \in H!Method /\ m[1] = c /\ H!NameOf(m) = H!NameOf(o)
      BY <1>0, <3>2, <3>4 DEF H!Method, H!NameOf
    <3>6. baseMethod'[m] = CHOOSE p \in H!Overridden(c) : H!NameOf(p) = H!NameOf(m)
      BY <1>3, <3>2, <3>5
    <3>7. baseMethod'[m] = o
      BY <3>2, <3>3, <3>5, <3>6
    <3> QED
      BY <1>3, <3>1, <3>2, <3>4, <3>7
  <2>4. ASSUME NEW n \in HierNames,
               \A i \in 1..Len(H!Inherited(c)), j \in 1..Len(own[c]) :
                   H!NameOf(H!Inherited(c)[i]) = n => own[c][j] # n
        PROVE  baseMethod'[<<c, n>>] = <<c, n>>
    <3>1. <<c, n>> \in H!Method /\ H!NameOf(<<c, n>>) = n
      BY <1>0 DEF H!Method, H!NameOf
    <3>2. ~\E o \in H!Overridden(c) : H!NameOf(o) = n
      BY <1>6, <2>4
    <3>3. baseMethod'[<<c, n>>] = baseMethod[<<c, n>>]
      BY <1>3, <3>1, <3>2
    <3> QED
      BY <3>3 DEF MadeOK
  <2>5. Made(c, H!Inherited(c), own[c], H!Table(c), index', baseMethod', virtual')
    BY <1>2, <2>2, <2>3, <2>4 DEF Made
  <2> QED
    BY <2>1, <2>5
<1>13. ASSUME NEW d \in H!All \ finalized', NEW n \in HierNames PROVE baseMethod'[<<d, n>>] = <<d, n>>
  <2>1. d \in H!All \ finalized /\ d # c
    BY <1>3
  <2>2. baseMethod'[<<d, n>>] = baseMethod[<<d, n>>]
    BY <1>10, <2>1
  <2> QED
    BY <2>1, <2>2 DEF MadeOK
<1> QED
  BY <1>3, <1>8, <1>9, <1>11, <1>12, <1>13 DEF MadeOK

\* An entry of a table is a method of the class, or the entry of its base.
LEMMA EntryIs ==
    ASSUME HierTypes, MadeOK, NEW c \in finalized, NEW i \in 1..Len(methods[c])
    PROVE  \/ \E j \in 1..Len(own[c]) : methods[c][i] = <<c, own[c][j]>>
           \/ /\ base[c] # NoClass /\ i \in 1..Len(methods[base[c]])
              /\ methods[c][i] = methods[base[c]][i]
              /\ \A j \in 1..Len(own[c]) : own[c][j] # H!NameOf(methods[c][i])
<1>1. c \in H!All /\ own[c] \in Seq(HierNames) /\ Different(own[c])
  BY DEF MadeOK, Rooted, HierTypes
<1>2. IsTable(methods[c], H!Inherited(c), Owned(c, own[c]), Len(own[c]))
  BY DEF MadeOK, Made
<1>3. \/ \E j \in 1..Len(own[c]) : methods[c][i] = Owned(c, own[c])[j]
      \/ /\ i <= Len(H!Inherited(c)) /\ methods[c][i] = H!Inherited(c)[i]
         /\ \A j \in 1..Len(own[c]) : H!NameOf(Owned(c, own[c])[j]) # H!NameOf(H!Inherited(c)[i])
  BY <1>2 DEF IsTable
<1>4. \A j \in 1..Len(own[c]) : Owned(c, own[c])[j] = <<c, own[c][j]>> /\ H!NameOf(Owned(c, own[c])[j]) = own[c][j]
  BY <1>1, OwnAreDifferent
<1>5. CASE \E j \in 1..Len(own[c]) : methods[c][i] = Owned(c, own[c])[j]
  BY <1>4, <1>5
<1>6. CASE /\ i <= Len(H!Inherited(c)) /\ methods[c][i] = H!Inherited(c)[i]
           /\ \A j \in 1..Len(own[c]) : H!NameOf(Owned(c, own[c])[j]) # H!NameOf(H!Inherited(c)[i])
  <2>1. base[c] # NoClass
    BY <1>6 DEF H!Inherited
  <2>2. H!Inherited(c) = methods[base[c]]
    BY <2>1 DEF H!Inherited
  <2> QED
    BY <1>4, <1>6, <2>1, <2>2
<1> QED
  BY <1>3, <1>5, <1>6

\* The places of a base's methods are theirs in the class.
LEMMA PlacesStay ==
    ASSUME HierTypes, MadeOK, NEW c \in finalized, base[c] # NoClass
    PROVE  /\ base[c] \in finalized /\ Len(methods[base[c]]) <= Len(methods[c])
           /\ \A i \in 1..Len(methods[base[c]]) :
                 i \in 1..Len(methods[c]) /\ H!NameOf(methods[c][i]) = H!NameOf(methods[base[c]][i])
<1>1. base[c] \in finalized /\ c \in H!All /\ base[c] \in H!All
  BY DEF MadeOK, Rooted
<1>2. H!Inherited(c) = methods[base[c]]
  BY DEF H!Inherited
<1>3. IsTable(methods[c], methods[base[c]], Owned(c, own[c]), Len(own[c]))
  BY <1>2 DEF MadeOK, Made
<1>4. methods[c] \in Seq(H!Method) /\ methods[base[c]] \in Seq(H!Method)
  BY <1>1 DEF HierTypes
<1> QED
  BY <1>1, <1>3, <1>4 DEF IsTable

LEMMA OwnHasPlace ==
    ASSUME HierTypes, MadeOK, NEW c \in finalized, NEW j \in 1..Len(own[c])
    PROVE  \E i \in 1..Len(methods[c]) : methods[c][i] = <<c, own[c][j]>> /\ H!NameOf(methods[c][i]) = own[c][j]
<1>1. c \in H!All /\ own[c] \in Seq(HierNames) /\ Different(own[c])
  BY DEF MadeOK, Rooted, HierTypes
<1>2. IsTable(methods[c], H!Inherited(c), Owned(c, own[c]), Len(own[c]))
  BY DEF MadeOK, Made
<1>3. PICK i \in 1..Len(methods[c]) : methods[c][i] = Owned(c, own[c])[j]
  BY <1>2 DEF IsTable
<1> QED
  BY <1>1, <1>3, OwnAreDifferent

LEMMA NamesAreDistinct ==
    ASSUME HierTypes, MadeOK, NEW c \in finalized
    PROVE  c \in H!All /\ methods[c] \in Seq(H!Method) /\ DistinctNames(methods[c])
  BY DEF MadeOK, Made, IsTable, Rooted

LEMMA IndexIsPlace ==
    ASSUME HierTypes, MadeOK
    PROVE  \A c \in finalized : \A i \in 1..Len(methods[c]) : index[methods[c][i]] = i
<1> DEFINE P == {c \in finalized : \A i \in 1..Len(methods[c]) : index[methods[c][i]] = i}
<1>1. base \in Links /\ Rooted(base, finalized)
  BY DEF HierTypes, MadeOK
<1>2. ASSUME NEW c \in finalized, base[c] = NoClass \/ base[c] \in P PROVE c \in P
  <2>1. ASSUME NEW i \in 1..Len(methods[c]) PROVE index[methods[c][i]] = i
    <3>1. CASE \E j \in 1..Len(own[c]) : methods[c][i] = <<c, own[c][j]>>
      <4>1. PICK j \in 1..Len(own[c]) : methods[c][i] = <<c, own[c][j]>>
        BY <3>1
      <4>2. H!NameOf(methods[c][i]) = own[c][j]
        BY <4>1 DEF H!NameOf
      <4>3. index[<<c, own[c][j]>>] = H!Slot(methods[c], own[c][j])
        BY DEF MadeOK, Made
      <4>4. H!Slot(methods[c], H!NameOf(methods[c][i])) = i
        BY NamesAreDistinct, SlotIs
      <4> QED
        BY <4>1, <4>2, <4>3, <4>4
    <3>2. CASE base[c] # NoClass /\ i \in 1..Len(methods[base[c]]) /\ methods[c][i] = methods[base[c]][i]
      BY <1>2, <3>2
    <3> QED
      BY <3>1, <3>2, EntryIs
  <2> QED
    BY <2>1
<1> HIDE DEF P
<1>3. P \in SUBSET finalized
  BY DEF P
<1>4. P = finalized
  BY <1>1, <1>2, <1>3, FromTheRoot
<1> QED
  BY <1>4 DEF P

\* The entry of a name is the declaration that is nearest to the class.
IsNearest(b, c, n) == /\ b \in H!Chain(c) /\ \E j \in 1..Len(own[b]) : own[b][j] = n
                      /\ \A e \in H!Chain(c) : (\E j \in 1..Len(own[e]) : own[e][j] = n) => e \in H!Chain(b)
LEMMA EntriesAreNearest ==
    ASSUME HierTypes, MadeOK
    PROVE  \A c \in finalized : \A i \in 1..Len(methods[c]) :
               \E b \in finalized : /\ methods[c][i] = <<b, H!NameOf(methods[c][i])>>
                                   /\ IsNearest(b, c, H!NameOf(methods[c][i]))
<1> DEFINE Is(c, i) == \E b \in finalized : /\ methods[c][i] = <<b, H!NameOf(methods[c][i])>>
                                            /\ IsNearest(b, c, H!NameOf(methods[c][i]))
           P == {c \in finalized : \A i \in 1..Len(methods[c]) : Is(c, i)}
<1>1. base \in Links /\ Rooted(base, finalized) /\ finalized \subseteq H!All
  BY DEF HierTypes, MadeOK, Rooted
<1>2. ASSUME NEW c \in finalized, base[c] = NoClass \/ base[c] \in P, NEW i \in 1..Len(methods[c]) PROVE Is(c, i)
  <2>1. CASE \E j \in 1..Len(own[c]) : methods[c][i] = <<c, own[c][j]>>
    <3>1. PICK j \in 1..Len(own[c]) : methods[c][i] = <<c, own[c][j]>>
      BY <2>1
    <3>2. H!NameOf(methods[c][i]) = own[c][j]
      BY <3>1 DEF H!NameOf
    <3>3. c \in H!Chain(c)
      BY <1>1, AboveHas, ChainIsAbove
    <3>4. IsNearest(c, c, own[c][j])
      BY <3>3 DEF IsNearest
    <3> QED
      BY <3>1, <3>2, <3>4
  <2>2. CASE /\ base[c] # NoClass /\ i \in 1..Len(methods[base[c]])
             /\ methods[c][i] = methods[base[c]][i]
             /\ \A j \in 1..Len(own[c]) : own[c][j] # H!NameOf(methods[c][i])
    <3>1. PICK n : n = H!NameOf(methods[c][i])
      OBVIOUS
    <3>2. base[c] \in P /\ Is(base[c], i)
      BY <1>2, <2>2
    <3>3. PICK b \in finalized : methods[c][i] = <<b, n>> /\ IsNearest(b, base[c], n)
      BY <2>2, <3>1, <3>2
    <3>4. H!Chain(c) = {c} \cup H!Chain(base[c])
      BY <1>1, <2>2, AboveStep, ChainIsAbove
    <3>5. IsNearest(b, c, n)
      BY <2>2, <3>1, <3>3, <3>4 DEF IsNearest
    <3> QED
      BY <3>1, <3>3, <3>5
  <2> QED
    BY <2>1, <2>2, EntryIs
<1>3. ASSUME NEW c \in finalized, base[c] = NoClass \/ base[c] \in P PROVE c \in P
  BY <1>2, <1>3
<1> HIDE DEF P
<1>4. P \in SUBSET finalized
  BY DEF P
<1>5. P = finalized
  BY <1>1, <1>3, <1>4, FromTheRoot
<1> QED
  BY <1>5 DEF P

\* What a class declares or inherits has the same place in all classes below.
LEMMA PlacesBelow ==
    ASSUME HierTypes, MadeOK
    PROVE  \A d \in finalized : \A s \in H!Chain(d) :
              /\ s \in finalized /\ Len(methods[s]) <= Len(methods[d])
              /\ \A i \in 1..Len(methods[s]) : H!NameOf(methods[d][i]) = H!NameOf(methods[s][i])
<1> DEFINE Fits(s, d) == /\ s \in finalized /\ Len(methods[s]) <= Len(methods[d])
                         /\ \A i \in 1..Len(methods[s]) : H!NameOf(methods[d][i]) = H!NameOf(methods[s][i])
           P == {d \in finalized : \A s \in H!Chain(d) : Fits(s, d)}
<1>1. base \in Links /\ Rooted(base, finalized) /\ finalized \subseteq H!All
  BY DEF HierTypes, MadeOK, Rooted
<1>2. ASSUME NEW d \in finalized, base[d] = NoClass \/ base[d] \in P, NEW s \in H!Chain(d) PROVE Fits(s, d)
  <2>0. methods[d] \in Seq(H!Method)
    BY NamesAreDistinct
  <2>1. CASE s = d
    BY <2>0, <2>1
  <2>2. CASE s # d
    <3>1. base[d] # NoClass /\ s \in H!Chain(base[d])
      BY <1>1, <1>2, <2>2, AboveStep, ChainIsAbove
    <3>2. Fits(s, base[d])
      BY <1>2, <3>1
    <3>3. base[d] \in finalized /\ methods[base[d]] \in Seq(H!Method) /\ methods[s] \in Seq(H!Method)
      BY <3>1, <3>2, PlacesStay, NamesAreDistinct
    <3>4. Len(methods[base[d]]) <= Len(methods[d])
          /\ \A i \in 1..Len(methods[base[d]]) : H!NameOf(methods[d][i]) = H!NameOf(methods[base[d]][i])
      BY <3>1, PlacesStay
    <3> QED
      BY <2>0, <3>2, <3>3, <3>4
  <2> QED
    BY <2>1, <2>2
<1>3. ASSUME NEW d \in finalized, base[d] = NoClass \/ base[d] \in P PROVE d \in P
  BY <1>2, <1>3
<1> HIDE DEF P
<1>4. P \in SUBSET finalized
  BY DEF P
<1>5. P = finalized
  BY <1>1, <1>3, <1>4, FromTheRoot
<1> QED
  BY <1>5 DEF P

\* A name a class declares or inherits has a place in its table.
Declared(c, n) == \E j \in 1..Len(own[c]) : own[c][j] = n
LEMMA DeclaredHasPlace ==
    ASSUME HierTypes, MadeOK, NEW s \in finalized, NEW b \in H!Chain(s), NEW n, Declared(b, n)
    PROVE  \E i \in 1..Len(methods[s]) : H!NameOf(methods[s][i]) = n
<1>1. b \in finalized /\ Len(methods[b]) <= Len(methods[s])
      /\ \A i \in 1..Len(methods[b]) : H!NameOf(methods[s][i]) = H!NameOf(methods[b][i])
  BY PlacesBelow
<1>2. PICK i \in 1..Len(methods[b]) : H!NameOf(methods[b][i]) = n
  BY <1>1, OwnHasPlace DEF Declared
<1>3. methods[b] \in Seq(H!Method) /\ methods[s] \in Seq(H!Method)
  BY <1>1, NamesAreDistinct
<1> QED
  BY <1>1, <1>2, <1>3

LEMMA NearestIs ==
    ASSUME HierTypes, MadeOK, NEW d \in finalized, NEW b \in finalized, NEW n, IsNearest(b, d, n)
    PROVE  H!Nearest(d, n) = <<b, n>>
<1>0. base \in Links /\ Rooted(base, finalized) /\ d \in H!All /\ own \in [H!All -> Seq(HierNames)]
  BY DEF HierTypes, MadeOK, Rooted
<1>1. H!Chain(d) \subseteq H!All
  BY <1>0, AboveHas, ChainIsAbove
<1>2. \A e \in H!All : n \in H!ToSet(own[e]) <=> \E j \in 1..Len(own[e]) : own[e][j] = n
  BY <1>0 DEF H!ToSet
<1>3. b \in H!Declaring(d, n) /\ H!Declaring(d, n) \subseteq H!Chain(b)
  BY <1>1, <1>2 DEF H!Declaring, IsNearest
<1>4. ASSUME NEW e \in H!Declaring(d, n), H!Declaring(d, n) \subseteq H!Chain(e) PROVE e = b
  BY <1>0, <1>3, <1>4, AboveIsOrder, ChainIsAbove
<1>5. (CHOOSE e \in H!Declaring(d, n) : H!Declaring(d, n) \subseteq H!Chain(e)) = b
  BY <1>3, <1>4
<1> QED
  BY <1>5 DEF H!Nearest

\* A method that no class overrides is the one that all classes below have.
LEMMA DirectIsSame ==
    ASSUME HierTypes, MadeOK, NEW s \in finalized, NEW i \in 1..Len(methods[s]), methods[s][i] \notin virtual
    PROVE  \A d \in finalized : s \in H!Chain(d) => methods[d][i] = methods[s][i]
<1> DEFINE P == {d \in finalized : s \in H!Chain(d) => methods[d][i] = methods[s][i]}
<1>1. base \in Links /\ Rooted(base, finalized) /\ finalized \subseteq H!All
  BY DEF HierTypes, MadeOK, Rooted
<1>2. ASSUME NEW d \in finalized, base[d] = NoClass \/ base[d] \in P, s \in H!Chain(d), d # s
      PROVE  methods[d][i] = methods[s][i]
  <2>1. base[d] # NoClass /\ s \in H!Chain(base[d])
    BY <1>1, <1>2, AboveStep, ChainIsAbove
  <2>2. methods[base[d]][i] = methods[s][i] /\ base[d] \in finalized
    BY <1>2, <2>1
  <2>3. Len(methods[s]) <= Len(methods[base[d]]) /\ Len(methods[base[d]]) <= Len(methods[d])
    BY <2>1, <2>2, PlacesBelow, PlacesStay
  <2>4. methods[s] \in Seq(H!Method) /\ methods[base[d]] \in Seq(H!Method) /\ methods[d] \in Seq(H!Method)
    BY <2>2, NamesAreDistinct
  <2>5. i \in 1..Len(methods[base[d]]) /\ i \in 1..Len(methods[d])
    BY <2>3, <2>4
  <2>6. H!NameOf(methods[d][i]) = H!NameOf(methods[base[d]][i])
    BY <2>1, <2>5, PlacesStay
  <2>7. CASE \E j \in 1..Len(own[d]) : methods[d][i] = <<d, own[d][j]>>
    <3>1. PICK j \in 1..Len(own[d]) : methods[d][i] = <<d, own[d][j]>>
      BY <2>7
    <3>2. H!NameOf(methods[base[d]][i]) = own[d][j]
      BY <2>6, <3>1 DEF H!NameOf
    <3>3. H!Inherited(d) = methods[base[d]]
      BY <2>1 DEF H!Inherited
    <3>4. H!Inherited(d)[i] \in virtual
      BY <2>5, <3>2, <3>3 DEF MadeOK, Made
    <3> QED
      BY <2>2, <3>3, <3>4
  <2>8. CASE methods[d][i] = methods[base[d]][i]
    BY <2>2, <2>8
  <2> QED
    BY <2>5, <2>7, <2>8, EntryIs
<1>3. ASSUME NEW d \in finalized, base[d] = NoClass \/ base[d] \in P PROVE d \in P
  BY <1>2, <1>3
<1> HIDE DEF P
<1>4. P \in SUBSET finalized
  BY DEF P
<1>5. P = finalized
  BY <1>1, <1>3, <1>4, FromTheRoot
<1> QED
  BY <1>5 DEF P

\* The method a declaration overrides is a declaration of the same name and place, and
\* the way through those ends.
LEMMA OverridesSame ==
    ASSUME HierTypes, MadeOK, NEW c \in finalized, NEW n, Declared(c, n)
    PROVE  /\ <<c, n>> \in H!Method /\ H!NameOf(<<c, n>>) = n
           /\ \/ baseMethod[<<c, n>>] = <<c, n>>
              \/ \E b \in finalized : /\ base[c] # NoClass /\ b \in H!Chain(base[c]) /\ Declared(b, n)
                                      /\ baseMethod[<<c, n>>] = <<b, n>>
                                      /\ index[<<b, n>>] = index[<<c, n>>]
<1>1. c \in H!All /\ own[c] \in Seq(HierNames) /\ base \in Links
  BY DEF MadeOK, Rooted, HierTypes
<1>2. PICK j \in 1..Len(own[c]) : own[c][j] = n
  BY DEF Declared
<1>3. <<c, n>> \in H!Method /\ H!NameOf(<<c, n>>) = n /\ n \in HierNames
  BY <1>1, <1>2 DEF H!Method, H!NameOf
<1>4. CASE \E i \in 1..Len(H!Inherited(c)) : H!NameOf(H!Inherited(c)[i]) = n
  <2>1. PICK i \in 1..Len(H!Inherited(c)) : H!NameOf(H!Inherited(c)[i]) = n
    BY <1>4
  <2>2. baseMethod[<<c, n>>] = H!Inherited(c)[i]
    BY <1>2, <2>1 DEF MadeOK, Made
  <2>3. base[c] # NoClass /\ H!Inherited(c) = methods[base[c]]
    BY <2>1 DEF H!Inherited
  <2>4. base[c] \in finalized
    BY <2>3, PlacesStay
  <2>5. PICK b \in finalized : methods[base[c]][i] = <<b, n>> /\ IsNearest(b, base[c], n)
    BY <2>1, <2>3, <2>4, EntriesAreNearest
  <2>6. index[<<b, n>>] = i
    BY <2>1, <2>3, <2>4, <2>5, IndexIsPlace
  <2>7. i \in 1..Len(methods[c]) /\ H!NameOf(methods[c][i]) = n
    BY <2>1, <2>3, PlacesStay
  <2>8. H!Slot(methods[c], n) = i
    BY <2>7, NamesAreDistinct, SlotIs
  <2>9. index[<<c, n>>] = i
    BY <1>2, <2>8 DEF MadeOK, Made
  <2> QED
    BY <1>3, <2>2, <2>3, <2>5, <2>6, <2>9 DEF IsNearest, Declared
<1>5. CASE \A i \in 1..Len(H!Inherited(c)) : H!NameOf(H!Inherited(c)[i]) # n
  <2>1. baseMethod[<<c, n>>] = <<c, n>>
    BY <1>3, <1>5 DEF MadeOK, Made
  <2> QED
    BY <1>3, <2>1
<1> QED
  BY <1>4, <1>5

LEMMA UltimateHasPlace ==
    ASSUME HierTypes, MadeOK, NEW c \in finalized, NEW n, Declared(c, n), NEW u, H!GoesTo(<<c, n>>, u)
    PROVE  index[u] = index[<<c, n>>]
<1> DEFINE S == {o \in H!All \X {n} : o[1] \in finalized /\ Declared(o[1], n) /\ index[o] = index[<<c, n>>]}
<1>1. c \in H!All /\ finalized \subseteq H!All /\ H!NameOf(<<c, n>>) = n
  BY DEF MadeOK, Rooted, H!NameOf
<1>2. <<c, n>> \in S
  BY <1>1
<1>3. ASSUME NEW o \in S PROVE baseMethod[o] \in S
  <2>1. PICK e \in finalized : o = <<e, n>> /\ Declared(e, n) /\ index[<<e, n>>] = index[<<c, n>>]
    BY <1>3
  <2>2. CASE baseMethod[<<e, n>>] = <<e, n>>
    BY <2>1, <2>2
  <2>3. CASE \E b \in finalized : /\ Declared(b, n) /\ baseMethod[<<e, n>>] = <<b, n>>
                                  /\ index[<<b, n>>] = index[<<e, n>>]
    <3>1. PICK b \in finalized : /\ Declared(b, n) /\ baseMethod[<<e, n>>] = <<b, n>>
                                 /\ index[<<b, n>>] = index[<<e, n>>]
      BY <2>3
    <3>2. <<b, n>> \in S
      BY <1>1, <2>1, <3>1
    <3> QED
      BY <2>1, <3>1, <3>2
  <2> QED
    <3>1. \/ baseMethod[<<e, n>>] = <<e, n>>
          \/ \E b \in finalized : /\ base[e] # NoClass /\ b \in H!Chain(base[e]) /\ Declared(b, n)
                                  /\ baseMethod[<<e, n>>] = <<b, n>>
                                  /\ index[<<b, n>>] = index[<<e, n>>]
      BY <2>1, OverridesSame
    <3> QED
      BY <2>2, <2>3, <3>1
<1>4. S \in SUBSET (H!All \X {n})
  OBVIOUS
<1>5. u \in S
  <2> HIDE DEF S
  <2> QED
    BY <1>1, <1>2, <1>3, <1>4 DEF H!GoesTo
<1> QED
  BY <1>5

LEMMA UltimateExists ==
    ASSUME HierTypes, MadeOK
    PROVE  \A c \in finalized : \A n : Declared(c, n) =>
              \E u \in H!Method : baseMethod[u] = u /\ H!GoesTo(<<c, n>>, u)
<1> DEFINE Ends(b, n) == \E u \in H!Method : baseMethod[u] = u /\ H!GoesTo(<<b, n>>, u)
           P == {c \in finalized : \A b \in H!Chain(c) : \A n : Declared(b, n) => Ends(b, n)}
<1>1. base \in Links /\ Rooted(base, finalized) /\ finalized \subseteq H!All
  BY DEF HierTypes, MadeOK, Rooted
<1>2. ASSUME NEW c \in finalized, base[c] = NoClass \/ base[c] \in P, NEW n, Declared(c, n) PROVE Ends(c, n)
  <2>1. <<c, n>> \in H!Method /\ H!NameOf(<<c, n>>) = n
    BY <1>2, OverridesSame
  <2>2. CASE baseMethod[<<c, n>>] = <<c, n>>
    <3>1. H!GoesTo(<<c, n>>, <<c, n>>)
      BY DEF H!GoesTo
    <3> QED
      BY <2>1, <2>2, <3>1
  <2>3. CASE \E b \in finalized : /\ base[c] # NoClass /\ b \in H!Chain(base[c]) /\ Declared(b, n)
                                  /\ baseMethod[<<c, n>>] = <<b, n>>
    <3>1. PICK b \in finalized : /\ base[c] # NoClass /\ b \in H!Chain(base[c]) /\ Declared(b, n)
                                 /\ baseMethod[<<c, n>>] = <<b, n>>
      BY <2>3
    <3>2. Ends(b, n)
      BY <1>2, <3>1
    <3>3. PICK u \in H!Method : baseMethod[u] = u /\ H!GoesTo(<<b, n>>, u)
      BY <3>2
    <3>4. H!NameOf(<<b, n>>) = n
      BY DEF H!NameOf
    <3>5. H!GoesTo(<<c, n>>, u)
      BY <2>1, <3>1, <3>3, <3>4 DEF H!GoesTo
    <3> QED
      BY <3>3, <3>5
  <2> QED
    BY <1>2, <2>2, <2>3, OverridesSame
<1> HIDE DEF Ends
<1>3. ASSUME NEW c \in finalized, base[c] = NoClass \/ base[c] \in P PROVE c \in P
  <2>1. ASSUME NEW b \in H!Chain(c), NEW n, Declared(b, n) PROVE Ends(b, n)
    <3>1. CASE b = c
      BY <1>2, <1>3, <2>1, <3>1
    <3>2. CASE b # c
      <4>1. base[c] # NoClass /\ b \in H!Chain(base[c])
        BY <1>1, <1>3, <3>2, AboveStep, ChainIsAbove
      <4> QED
        BY <1>3, <2>1, <4>1
    <3> QED
      BY <3>1, <3>2
  <2> QED
    BY <1>3, <2>1
<1>4. \A c \in P : c \in H!Chain(c)
  BY <1>1, AboveHas, ChainIsAbove
<1>5. ASSUME NEW c \in P, NEW n, Declared(c, n) PROVE Ends(c, n)
  BY <1>4, <1>5
<1> HIDE DEF P
<1>6. P \in SUBSET finalized
  BY DEF P
<1>7. P = finalized
  BY <1>1, <1>3, <1>6, FromTheRoot
<1> QED
  BY <1>5, <1>7 DEF Ends

\* A call reaches the method that is nearest to the class of the object.
LEMMA CalleeIsNearest ==
    ASSUME HierTypes, MadeOK, NEW d \in finalized, NEW s \in H!Chain(d), NEW n \in HierNames, H!Declares(s, n)
    PROVE  H!Callee(s, d, n) = H!Nearest(d, n)
<1>1. base \in Links /\ finalized \subseteq H!All /\ own \in [H!All -> Seq(HierNames)]
  BY DEF HierTypes, MadeOK, Rooted
<1>2. s \in finalized /\ Len(methods[s]) <= Len(methods[d])
      /\ \A i \in 1..Len(methods[s]) : H!NameOf(methods[d][i]) = H!NameOf(methods[s][i])
  BY PlacesBelow
<1>3. methods[s] \in Seq(H!Method) /\ methods[d] \in Seq(H!Method)
  BY <1>2, NamesAreDistinct
<1>4. PICK b \in H!Chain(s) : Declared(b, n)
  <2>1. PICK b \in H!Chain(s) : n \in H!ToSet(own[b])
    BY DEF H!Declares, H!Declaring
  <2>2. b \in H!All
    BY <1>1, <1>2, AboveHas, ChainIsAbove
  <2> QED
    BY <1>1, <2>1, <2>2 DEF H!ToSet, Declared
<1>5. PICK i \in 1..Len(methods[s]) : H!NameOf(methods[s][i]) = n
  BY <1>2, <1>4, DeclaredHasPlace
<1>6. H!Slot(methods[s], n) = i
  BY <1>2, <1>5, NamesAreDistinct, SlotIs
<1>7. H!Target(s, n) = methods[s][i]
  BY <1>6 DEF H!Target
<1>8. i \in 1..Len(methods[d]) /\ H!NameOf(methods[d][i]) = n
  BY <1>2, <1>3, <1>5
<1>9. methods[d][i] = H!Nearest(d, n)
  BY <1>8, EntriesAreNearest, NearestIs
<1>10. CASE H!IsDispatched(H!Target(s, n))
  <2>1. PICK e \in finalized : methods[s][i] = <<e, n>> /\ IsNearest(e, s, n)
    BY <1>2, <1>5, EntriesAreNearest
  <2>2. Declared(e, n)
    BY <2>1 DEF IsNearest, Declared
  <2>3. PICK u : u = H!UltimateBase(methods[s][i])
    OBVIOUS
  <2>4. H!GoesTo(<<e, n>>, u)
    BY <2>1, <2>2, <2>3, UltimateExists DEF H!UltimateBase
  <2>5. index[u] = index[methods[s][i]]
    BY <2>1, <2>2, <2>4, UltimateHasPlace
  <2>6. index[methods[s][i]] = i
    BY <1>2, IndexIsPlace
  <2> QED
    BY <1>7, <1>9, <1>10, <2>3, <2>5, <2>6 DEF H!Callee
<1>11. CASE ~H!IsDispatched(H!Target(s, n))
  <2>1. methods[s][i] \notin virtual
    BY <1>7, <1>11 DEF H!IsDispatched
  <2>2. methods[d][i] = methods[s][i]
    BY <1>2, <2>1, DirectIsSame
  <2> QED
    BY <1>7, <1>9, <1>11, <2>2 DEF H!Callee
<1> QED
  BY <1>10, <1>11

LEMMA TablesDoLineUp == ASSUME HierTypes, MadeOK PROVE H!TablesLineUp
<1> SUFFICES ASSUME NEW c \in finalized, base[c] # NoClass
             PROVE  /\ Len(methods[base[c]]) <= Len(methods[c])
                    /\ \A i \in DOMAIN methods[base[c]] : H!NameOf(methods[c][i]) = H!NameOf(methods[base[c]][i])
                    /\ \A m \in H!Entries(c) : index[m] = H!Slot(methods[c], H!NameOf(m))
  BY DEF H!TablesLineUp
<1>1. base[c] \in finalized
  BY PlacesStay
<1>2. methods[base[c]] \in Seq(H!Method) /\ methods[c] \in Seq(H!Method) /\ DistinctNames(methods[c])
  BY <1>1, NamesAreDistinct
<1>3. DOMAIN methods[base[c]] = 1..Len(methods[base[c]]) /\ DOMAIN methods[c] = 1..Len(methods[c])
  BY <1>2
<1>4. ASSUME NEW m \in H!Entries(c) PROVE index[m] = H!Slot(methods[c], H!NameOf(m))
  <2>1. PICK i \in 1..Len(methods[c]) : m = methods[c][i]
    BY <1>3 DEF H!Entries, H!ToSet
  <2> QED
    BY <1>2, <2>1, SlotIs, IndexIsPlace
<1> QED
  BY <1>3, <1>4, PlacesStay

\* The recursion along the bases has a solution: the destructors that run.
DtorsOf(D, c) == IF c \notin dtor THEN <<>>
                 ELSE (IF base[c] = NoClass THEN <<>> ELSE D[base[c]])
                      \o (IF c \in dtors THEN <<c>> ELSE <<>>)
Runs(D, Fin) == D = [c \in Fin |-> DtorsOf(D, c)]
RootedBases == base \in Links /\ Rooted(base, HierClasses)

LEMMA RunsAt == ASSUME NEW D, NEW Fin, Runs(D, Fin) PROVE \A x \in Fin : D[x] = DtorsOf(D, x)
  BY Zenon DEF Runs

LEMMA RunsAreSame ==
    ASSUME RootedBases, NEW Fin, Fin \subseteq HierClasses, NEW G, G \subseteq HierClasses,
           NEW D, Runs(D, Fin), NEW E, Runs(E, G),
           NEW c \in HierClasses, H!Chain(c) \subseteq Fin \cap G
    PROVE  D[c] = E[c]
<1> DEFINE P == {x \in HierClasses : x \in H!Chain(c) => D[x] = E[x]}
<1>1. base \in Links /\ Rooted(base, HierClasses) /\ c \in H!All /\ HierClasses \subseteq H!All
  BY DEF RootedBases, H!All
<1>2. ASSUME NEW x \in HierClasses, base[x] = NoClass \/ base[x] \in P, x \in H!Chain(c) PROVE D[x] = E[x]
  <2>1. D[x] = DtorsOf(D, x) /\ E[x] = DtorsOf(E, x)
    BY <1>2, RunsAt
  <2>2. base[x] # NoClass => D[base[x]] = E[base[x]]
    BY <1>1, <1>2, AboveHas, ChainIsAbove
  <2> QED
    BY <2>1, <2>2 DEF DtorsOf
<1>3. ASSUME NEW x \in HierClasses, base[x] = NoClass \/ base[x] \in P PROVE x \in P
  BY <1>2, <1>3
<1> HIDE DEF P
<1>4. P \in SUBSET HierClasses
  BY DEF P
<1>5. P = HierClasses
  BY <1>1, <1>3, <1>4, FromTheRoot
<1>6. c \in H!Chain(c)
  BY <1>1, AboveHas, ChainIsAbove
<1> QED
  BY <1>5, <1>6 DEF P

LEMMA RunsUpward == ASSUME RootedBases PROVE \A c \in HierClasses : \E D : Runs(D, H!Chain(c))
<1> DEFINE P == {c \in HierClasses : \E D : Runs(D, H!Chain(c))}
<1>1. base \in Links /\ Rooted(base, HierClasses) /\ HierClasses \subseteq H!All
  BY DEF RootedBases, H!All
<1>2. ASSUME NEW c \in HierClasses, base[c] = NoClass \/ base[c] \in P PROVE \E D : Runs(D, H!Chain(c))
  <2>0. c \in H!All
    BY <1>1
  <2>1. CASE base[c] = NoClass
    <3>1. H!Chain(c) = {c}
      BY <1>1, <2>0, <2>1, AboveStep, ChainIsAbove
    <3> DEFINE E == [x \in {c} |-> DtorsOf(<<>>, x)]
    <3>2. DtorsOf(E, c) = DtorsOf(<<>>, c)
      BY <2>1 DEF DtorsOf
    <3>3. E = [x \in {c} |-> DtorsOf(E, x)]
      <4> HIDE DEF E
      <4>1. E = [x \in {c} |-> DtorsOf(<<>>, x)]
        BY DEF E
      <4> QED
        BY <3>2, <4>1
    <3> QED
      BY <3>1, <3>3 DEF Runs
  <2>2. CASE base[c] # NoClass
    <3>1. PICK p : p = base[c]
      OBVIOUS
    <3>2. p \in HierClasses /\ p \in H!All /\ H!Chain(c) = {c} \cup H!Chain(p)
      <4>1. p \in HierClasses
        BY <1>1, <2>2, <3>1 DEF Rooted
      <4> QED
        BY <1>1, <2>0, <2>2, <3>1, <4>1, AboveStep, ChainIsAbove
    <3>3. c \notin H!Chain(p)
      BY <1>1, <2>2, <3>1, NoneAboveItself, ChainIsAbove
    <3>4. PICK D : Runs(D, H!Chain(p))
      BY <1>2, <2>2, <3>1
    <3> DEFINE E == [x \in H!Chain(c) |-> IF x = c THEN DtorsOf(D, c) ELSE D[x]]
    <3>5. \A x \in H!Chain(p) : E[x] = D[x]
      BY <3>2, <3>3
    <3>6. p \in H!Chain(p) /\ \A x \in H!Chain(p) : base[x] = NoClass \/ base[x] \in H!Chain(p)
      BY <1>1, <3>2, AboveHas, ChainIsAbove
    <3>7. ASSUME NEW x \in H!Chain(c) PROVE E[x] = DtorsOf(E, x)
      <4>1. base[x] # NoClass => E[base[x]] = D[base[x]]
        BY <3>1, <3>2, <3>5, <3>6
      <4>2. DtorsOf(E, x) = DtorsOf(D, x)
        <5> HIDE DEF E
        <5> QED
          BY <4>1 DEF DtorsOf
      <4>3. x # c => D[x] = DtorsOf(D, x)
        BY <3>2, <3>4, RunsAt
      <4> QED
        BY <4>2, <4>3
    <3>8. E = [x \in H!Chain(c) |-> E[x]]
      OBVIOUS
    <3>9. E = [x \in H!Chain(c) |-> DtorsOf(E, x)]
      <4> HIDE DEF E
      <4> QED
        BY <3>7, <3>8
    <3> QED
      BY <3>9 DEF Runs
  <2> QED
    BY <2>1, <2>2
<1>3. ASSUME NEW c \in HierClasses, base[c] = NoClass \/ base[c] \in P PROVE c \in P
  BY <1>2, <1>3
<1> HIDE DEF P
<1>4. P \in SUBSET HierClasses
  BY DEF P
<1>5. P = HierClasses
  BY <1>1, <1>3, <1>4, FromTheRoot
<1> QED
  BY <1>5 DEF P

LEMMA CalledDtorsRun == ASSUME RootedBases PROVE Runs(H!CalledDtors, HierClasses)
<1>0. base \in Links /\ Rooted(base, HierClasses) /\ HierClasses \subseteq H!All
  BY DEF RootedBases, H!All
<1>1. PICK W : W = [c \in HierClasses |-> CHOOSE D : Runs(D, H!Chain(c))]
  OBVIOUS
<1>2. \A c \in HierClasses : Runs(W[c], H!Chain(c))
  <2>1. \A c \in HierClasses : W[c] = CHOOSE D : Runs(D, H!Chain(c))
    BY <1>1
  <2> QED
    BY <2>1, RunsUpward
<1>3. PICK E : E = [c \in HierClasses |-> W[c][c]]
  OBVIOUS
<1>4. ASSUME NEW c \in HierClasses PROVE E[c] = DtorsOf(E, c)
  <2>0. c \in H!All
    BY <1>0
  <2>1. c \in H!Chain(c) /\ H!Chain(c) \subseteq HierClasses
    BY <1>0, <2>0, AboveHas, AboveRooted, ChainIsAbove
  <2>2. W[c][c] = DtorsOf(W[c], c)
    BY <1>2, <2>1, RunsAt
  <2>3. ASSUME base[c] # NoClass PROVE W[c][base[c]] = E[base[c]]
    <3>1. PICK p : p = base[c]
      OBVIOUS
    <3>2. p \in HierClasses /\ p \in H!Chain(c)
      BY <1>0, <2>0, <2>1, <2>3, <3>1, AboveHas, ChainIsAbove
    <3>3. H!Chain(p) \subseteq H!Chain(c)
      BY <1>0, <2>0, <3>2, AboveAbove, ChainIsAbove
    <3>4. H!Chain(p) \subseteq HierClasses
      BY <2>1, <3>3
    <3>5. W[c][p] = W[p][p]
      <4>1. PICK Fin : Fin = H!Chain(c)
        OBVIOUS
      <4>2. PICK G : G = H!Chain(p)
        OBVIOUS
      <4>3. Runs(W[c], Fin) /\ Runs(W[p], G) /\ Fin \subseteq HierClasses /\ G \subseteq HierClasses
        BY <1>2, <2>1, <3>2, <3>4, <4>1, <4>2
      <4>4. H!Chain(p) \subseteq Fin \cap G
        BY <3>3, <4>1, <4>2
      <4>5. PICK D : D = W[c]
        OBVIOUS
      <4>6. PICK D2 : D2 = W[p]
        OBVIOUS
      <4>7. Runs(D, Fin) /\ Runs(D2, G)
        BY <4>3, <4>5, <4>6
      <4>8. D[p] = D2[p]
        BY <3>2, <4>3, <4>4, <4>7, RunsAreSame
      <4> QED
        BY <4>5, <4>6, <4>8
    <3> QED
      BY <1>3, <3>1, <3>2, <3>5
  <2> QED
    BY <1>3, <2>2, <2>3 DEF DtorsOf
<1>5. E = [c \in HierClasses |-> E[c]]
  BY <1>3
<1>6. E = [c \in HierClasses |-> DtorsOf(E, c)]
  BY <1>4, <1>5
<1>7. \E D : Runs(D, HierClasses)
  BY <1>6 DEF Runs
<1>8. H!CalledDtors = CHOOSE D : Runs(D, HierClasses)
  BY Zenon DEF H!CalledDtors, Runs, DtorsOf
<1> QED
  BY <1>7, <1>8

\* The destructors of a class are those of the classes above it, topmost first.
InOrder(q, c) == /\ q \in Seq(HierClasses)
                 /\ \A d : (\E i \in 1..Len(q) : q[i] = d) <=> d \in H!Chain(c) /\ d \in dtors
                 /\ \A i, j \in 1..Len(q) : i < j => q[i] # q[j] /\ q[i] \in H!Chain(q[j])
LEMMA LastInOrder ==
    ASSUME NEW q, NEW c \in HierClasses, NEW p, InOrder(q, p),
           H!Chain(c) = {c} \cup H!Chain(p), c \notin H!Chain(p)
    PROVE  /\ c \in dtors => InOrder(q \o <<c>>, c)
           /\ c \notin dtors => InOrder(q \o <<>>, c)
<1>0. q \in Seq(HierClasses)
  BY DEF InOrder
<1>1. ASSUME c \in dtors PROVE InOrder(q \o <<c>>, c)
  <2>1. PICK r : r = q \o <<c>>
    OBVIOUS
  <2>2. /\ r \in Seq(HierClasses) /\ Len(r) = Len(q) + 1 /\ r[Len(q) + 1] = c
        /\ \A i \in 1..Len(q) : r[i] = q[i]
    BY <1>0, <2>1
  <2>3. ASSUME NEW d PROVE (\E i \in 1..Len(r) : r[i] = d) <=> d \in H!Chain(c) /\ d \in dtors
    <3>1. (\E i \in 1..Len(r) : r[i] = d) <=> d = c \/ \E i \in 1..Len(q) : q[i] = d
      BY <1>0, <2>2
    <3>2. (\E i \in 1..Len(q) : q[i] = d) <=> d \in H!Chain(p) /\ d \in dtors
      BY DEF InOrder
    <3> QED
      BY <1>1, <3>1, <3>2
  <2>4. ASSUME NEW i \in 1..Len(r), NEW j \in 1..Len(r), i < j PROVE r[i] # r[j] /\ r[i] \in H!Chain(r[j])
    <3>1. i \in 1..Len(q) /\ r[i] = q[i]
      BY <1>0, <2>2, <2>4
    <3>2. CASE j \in 1..Len(q)
      BY <2>2, <2>4, <3>1, <3>2 DEF InOrder
    <3>3. CASE j = Len(q) + 1
      <4>1. q[i] \in H!Chain(p)
        BY <3>1 DEF InOrder
      <4> QED
        BY <2>2, <3>1, <3>3, <4>1
    <3> QED
      BY <1>0, <2>2, <3>2, <3>3
  <2> QED
    BY <2>1, <2>2, <2>3, <2>4 DEF InOrder
<1>2. ASSUME c \notin dtors PROVE InOrder(q \o <<>>, c)
  <2>1. q \o <<>> = q
    BY <1>0
  <2>2. InOrder(q, c)
    BY <1>2 DEF InOrder
  <2> QED
    BY <2>1, <2>2
<1> QED
  BY <1>1, <1>2

LEMMA DtorsInOrder ==
    ASSUME RootedBases, dtors \subseteq HierClasses, dtor = H!WithEmptyDtors
    PROVE  \A c \in HierClasses : InOrder(H!CalledDtors[c], c)
<1> DEFINE D == H!CalledDtors
           P == {c \in HierClasses : InOrder(D[c], c)}
<1>1. base \in Links /\ Rooted(base, HierClasses) /\ HierClasses \subseteq H!All
  BY DEF RootedBases, H!All
<1>2. \A c \in HierClasses : D[c] = DtorsOf(D, c)
  BY CalledDtorsRun, RunsAt
<1> HIDE DEF D
<1>3. ASSUME NEW c \in HierClasses, base[c] = NoClass \/ base[c] \in P PROVE InOrder(D[c], c)
  <2>0. c \in H!All /\ c \in H!Chain(c)
    BY <1>1, AboveHas, ChainIsAbove
  <2>1. c \in dtor <=> \E d \in dtors : d \in H!Chain(c)
    BY <2>0 DEF H!WithEmptyDtors, H!HasBaseDtors
  <2>2. CASE c \notin dtor
    <3>1. D[c] = <<>>
      BY <1>2, <2>2 DEF DtorsOf
    <3>2. InOrder(<<>>, c)
      BY <2>1, <2>2 DEF InOrder
    <3> QED
      BY <3>1, <3>2
  <2>3. CASE c \in dtor /\ base[c] = NoClass
    <3>1. H!Chain(c) = {c}
      BY <1>1, <2>0, <2>3, AboveStep, ChainIsAbove
    <3>2. c \in dtors
      BY <2>1, <2>3, <3>1
    <3>3. D[c] = <<>> \o <<c>>
      BY <1>2, <2>3, <3>2 DEF DtorsOf
    <3>4. <<>> \o <<c>> = <<c>>
      OBVIOUS
    <3>5. InOrder(<<c>>, c)
      BY <3>1, <3>2 DEF InOrder
    <3> QED
      BY <3>3, <3>4, <3>5
  <2>4. CASE c \in dtor /\ base[c] # NoClass
    <3>1. H!Chain(c) = {c} \cup H!Chain(base[c]) /\ c \notin H!Chain(base[c])
      BY <1>1, <2>0, <2>4, AboveStep, NoneAboveItself, ChainIsAbove
    <3>2. InOrder(D[base[c]], base[c])
      BY <1>3, <2>4
    <3>3. PICK q : q = D[base[c]]
      OBVIOUS
    <3>4. CASE c \in dtors
      <4>1. D[c] = q \o <<c>>
        BY <1>2, <2>4, <3>3, <3>4 DEF DtorsOf
      <4> QED
        BY <3>1, <3>2, <3>3, <3>4, <4>1, LastInOrder
    <3>5. CASE c \notin dtors
      <4>1. D[c] = q \o <<>>
        BY <1>2, <2>4, <3>3, <3>5 DEF DtorsOf
      <4> QED
        BY <3>1, <3>2, <3>3, <3>5, <4>1, LastInOrder
    <3> QED
      BY <3>4, <3>5
  <2> QED
    BY <2>2, <2>3, <2>4
<1>4. ASSUME NEW c \in HierClasses, base[c] = NoClass \/ base[c] \in P PROVE c \in P
  BY <1>3, <1>4
<1> HIDE DEF P
<1>5. P \in SUBSET HierClasses
  BY DEF P
<1>6. P = HierClasses
  BY <1>1, <1>4, <1>5, FromTheRoot
<1> QED
  BY <1>6 DEF P, D

LEMMA DestructorsDoRun ==
    ASSUME RootedBases, dtors \subseteq HierClasses, dtor = H!WithEmptyDtors PROVE H!AllDestructorsRun
<1> SUFFICES ASSUME NEW c \in HierClasses
             PROVE  /\ H!ToSet(H!CalledDtors[c]) = H!Chain(c) \cap dtors
                    /\ \A i, j \in DOMAIN H!CalledDtors[c] : i < j =>
                          /\ H!CalledDtors[c][i] # H!CalledDtors[c][j]
                          /\ H!CalledDtors[c][i] \in H!Chain(H!CalledDtors[c][j])
  BY DEF H!AllDestructorsRun
<1>1. PICK q : q = H!CalledDtors[c]
  OBVIOUS
<1>2. InOrder(q, c)
  BY <1>1, DtorsInOrder
<1>3. DOMAIN q = 1..Len(q)
  BY <1>2 DEF InOrder
<1>4. \A d : d \in H!ToSet(q) <=> \E i \in 1..Len(q) : q[i] = d
  BY <1>3 DEF H!ToSet
<1>5. H!ToSet(q) = H!Chain(c) \cap dtors
  BY <1>2, <1>4 DEF InOrder
<1> QED
  BY <1>1, <1>2, <1>3, <1>5 DEF InOrder

-----------------------------------------------------------------------------
\* A class of a cycle is above all that is above it.
LEMMA CycleComesBack ==
    ASSUME base \in Links, NEW c, H!InCycle(c), NEW x \in H!Chain(c) PROVE c \in H!Chain(x)
<1> DEFINE S == {y \in H!Chain(c) : c \in H!Chain(y)}
<1>1. c \in H!All /\ c \in HierClasses /\ base[c] # NoClass /\ c \in H!Chain(base[c])
  BY DEF H!InCycle, H!All
<1>2. c \in H!Chain(c) /\ H!Chain(c) \subseteq H!All
  BY <1>1, AboveHas, ChainIsAbove
<1>3. ASSUME NEW y \in S PROVE base[y] = NoClass \/ base[y] \in S
  <2>1. y \in H!All /\ y \in H!Chain(c) /\ c \in H!Chain(y)
    BY <1>2
  <2>2. CASE base[y] = NoClass
    BY <2>2
  <2>3. CASE base[y] # NoClass
    <3>1. base[y] \in H!Chain(c)
      BY <1>1, <2>1, <2>3, AboveHas, ChainIsAbove
    <3>2. H!Chain(y) = {y} \cup H!Chain(base[y])
      BY <2>1, <2>3, AboveStep, ChainIsAbove
    <3>3. c \in H!Chain(base[y])
      BY <1>1, <2>1, <3>2
    <3> QED
      BY <3>1, <3>3
  <2> QED
    BY <2>2, <2>3
<1>4. c \in S /\ S \in SUBSET H!All
  BY <1>2
<1> HIDE DEF S
<1>5. H!Chain(c) \subseteq S
  BY <1>3, <1>4, AboveLeast, ChainIsAbove
<1> QED
  BY <1>5 DEF S

LEMMA NoCycleInFinalized == ASSUME HierTypes, MadeOK PROVE \A c \in finalized : ~H!InCycle(c)
  BY NoneAboveItself, ChainIsAbove DEF HierTypes, MadeOK, H!InCycle

OrderOK == /\ order \in Seq(HierClasses) /\ \A c \in HierClasses : \E i \in 1..Len(order) : order[i] = c
           /\ \A i, j \in 1..Len(order) : order[i] = order[j] => i = j
           /\ pos \in 1..Len(order) /\ \A i \in 1..(pos - 1) : order[i] \in finalized
WalkOK == /\ checked # NoClass => base[H!Current] # NoClass /\ checked \in H!Chain(base[H!Current])
          /\ \A c \in H!Chain(H!Current) : H!InCycle(c) => checked # NoClass /\ c \in H!Chain(checked)
PhaseOK == /\ phase \in {"check", "proxies", "emit", "failed"}
           /\ phase = "check" => base[Proxy] = NoClass
           /\ base[Proxy] = NoClass => Proxy \notin finalized
           /\ phase \in {"proxies", "emit"} =>
                 HierClasses \subseteq finalized /\ dtor = H!WithEmptyDtors /\ checked = NoClass
           /\ phase = "failed" => \E c \in H!All : H!InCycle(c) \/ H!Rejected(c)
HierInv == HierTypes /\ MadeOK /\ OrderOK /\ WalkOK /\ PhaseOK

LEMMA CyclesAreSeen == ASSUME HierInv PROVE H!CyclesAreReported
<1>1. base \in Links /\ order \in Seq(HierClasses) /\ pos \in 1..Len(order) /\ H!Current \in HierClasses /\ H!Current \in H!All
  BY DEF HierInv, HierTypes, OrderOK, H!Current, H!All
<1>2. ASSUME H!CyclesFirst, checked # NoClass, H!InCycle(checked), H!Current \notin H!Chain(checked) PROVE FALSE
  <2>1. base[H!Current] # NoClass /\ checked \in H!Chain(base[H!Current])
    BY <1>2 DEF HierInv, WalkOK
  <2>2. checked \in H!Chain(H!Current)
    BY <1>1, <2>1, AboveStep, ChainIsAbove
  <2>3. ~H!InCycle(H!Current)
    BY <1>1, <1>2, <2>2, CycleComesBack
  <2>4. PICK i, j \in DOMAIN order : order[j] = H!Current /\ i < j /\ order[i] \in H!Chain(H!Current) /\ H!InCycle(order[i])
    BY <1>1, <1>2, <2>2, <2>3 DEF H!CyclesFirst
  <2>5. i \in 1..Len(order) /\ j \in 1..Len(order)
    BY <1>1
  <2>6. j = pos
    BY <1>1, <2>4, <2>5 DEF HierInv, OrderOK, H!Current
  <2>7. i \in 1..(pos - 1)
    BY <1>1, <2>4, <2>5, <2>6
  <2>8. order[i] \in finalized
    BY <2>7 DEF HierInv, OrderOK
  <2> QED
    BY <2>4, <2>8, NoCycleInFinalized DEF HierInv
<1>3. H!CyclesFirst /\ checked # NoClass => ~H!CaughtIn(checked)
  BY <1>2 DEF H!CaughtIn
<1>4. phase = "check" /\ checked = NoClass => \A c \in H!Chain(H!Current) : ~H!InCycle(c)
  BY DEF HierInv, WalkOK
<1>5. phase = "failed" => \E c \in H!All : H!InCycle(c) \/ H!Rejected(c)
  BY DEF HierInv, PhaseOK
<1> QED
  BY <1>3, <1>4, <1>5 DEF H!CyclesAreReported

LEMMA HierInvMeans == ASSUME HierInv PROVE H!CyclesAreReported /\ H!TablesLineUp /\ H!CallsReachTheNearest /\ H!AllDestructorsRun
<1>1. HierTypes /\ MadeOK
  BY DEF HierInv
<1>2. H!CallsReachTheNearest
  BY <1>1, CalleeIsNearest DEF H!CallsReachTheNearest
<1>3. ASSUME H!Compiled PROVE H!AllDestructorsRun
  <2>1. HierClasses \subseteq finalized /\ dtor = H!WithEmptyDtors
    BY <1>3 DEF HierInv, PhaseOK, H!Compiled
  <2>2. base \in Links /\ Rooted(base, finalized) /\ dtors \subseteq HierClasses
    BY <1>1 DEF HierTypes, MadeOK
  <2>3. Rooted(base, HierClasses)
    <3>1. \A c \in HierClasses : base[c] = NoClass \/ base[c] \in HierClasses
      BY DEF HierTypes, HierInv, Links, H!All
    <3>2. \A S \in SUBSET HierClasses : S # {} => \E c \in S : base[c] \notin S
      BY <2>1, <2>2 DEF Rooted
    <3> QED
      BY <3>1, <3>2 DEF Rooted, H!All
  <2> QED
    BY <2>1, <2>2, <2>3, DestructorsDoRun DEF RootedBases
<1>4. ~H!Compiled => H!AllDestructorsRun
  BY DEF H!AllDestructorsRun
<1> QED
  BY <1>1, <1>2, <1>3, <1>4, CyclesAreSeen, TablesDoLineUp

-----------------------------------------------------------------------------
\* What a failing step leaves as it is.
LEMMA RejectedStays == ASSUME NEW c, UNCHANGED <<H!source, H!tables>> PROVE H!Rejected(c) => H!Rejected(c)'
<1>1. base' = base /\ own' = own /\ shape' = shape /\ abstract' = abstract /\ methods' = methods
  BY DEF H!source, H!tables
<1>2. H!Inherited(c)' = H!Inherited(c) /\ H!OwnMethods(c)' = H!OwnMethods(c)
  BY <1>1 DEF H!Inherited, H!OwnMethods
<1>3. H!Table(c)' = H!Table(c)
  BY <1>1, <1>2, Zenon DEF H!Table
<1>4. H!Overridden(c)' = H!Overridden(c)
  BY <1>1, <1>2 DEF H!Overridden
<1>5. \A m : H!Signature(m)' = H!Signature(m)
  BY <1>1 DEF H!Signature
<1> QED
  BY <1>1, <1>3, <1>4, <1>5 DEF H!Rejected

LEMMA ChainsStay == ASSUME base' = base PROVE \A c : H!Chain(c)' = H!Chain(c) /\ (H!InCycle(c)' <=> H!InCycle(c))
<1>1. \A c : H!Chain(c)' = H!Chain(c)
  BY DEF H!Chain, H!HasBases
<1> QED
  BY <1>1 DEF H!InCycle

LEMMA TablesStay ==
    ASSUME HierTypes, MadeOK, UNCHANGED <<H!source, H!tables>> PROVE HierTypes' /\ MadeOK'
<1>1. /\ base' = base /\ own' = own /\ dtors' = dtors /\ methods' = methods /\ finalized' = finalized
      /\ index' = index /\ baseMethod' = baseMethod /\ virtual' = virtual
  BY DEF H!source, H!tables
<1>2. \A c : H!Inherited(c)' = H!Inherited(c)
  BY <1>1 DEF H!Inherited
<1> QED
  BY <1>1, <1>2 DEF HierTypes, MadeOK

LEMMA HierFailKeeps ==
    ASSUME HierInv, H!Fail, \E c \in H!All : H!InCycle(c) \/ H!Rejected(c) PROVE HierInv'
<1>1. UNCHANGED <<H!source, H!tables>> /\ order' = order /\ pos' = pos /\ checked' = checked /\ dtor' = dtor
      /\ phase' = "failed"
  BY DEF H!Fail
<1>2. base' = base /\ finalized' = finalized
  BY <1>1 DEF H!source, H!tables
<1>3. \A c : H!Chain(c)' = H!Chain(c) /\ (H!InCycle(c)' <=> H!InCycle(c))
  BY <1>2, ChainsStay
<1>4. HierTypes' /\ MadeOK'
  BY <1>1, TablesStay DEF HierInv
<1>5. OrderOK'
  BY <1>1, <1>2 DEF HierInv, OrderOK
<1>6. H!Current' = H!Current
  BY <1>1 DEF H!Current
<1>7. WalkOK'
  <2>1. base[H!Current]' = base[H!Current]
    BY <1>2, <1>6
  <2> QED
    BY <1>1, <1>2, <1>3, <1>6 DEF HierInv, WalkOK
<1>8. PhaseOK'
  <2>1. PICK c \in H!All : H!InCycle(c) \/ H!Rejected(c)
    OBVIOUS
  <2>2. H!InCycle(c)' \/ H!Rejected(c)'
    BY <1>1, <1>3, <2>1, RejectedStays
  <2>3. \E e \in H!All : H!InCycle(e)' \/ H!Rejected(e)'
    BY <2>2
  <2> QED
    BY <1>1, <1>2, <2>3 DEF HierInv, PhaseOK
<1> QED
  BY <1>4, <1>5, <1>7, <1>8 DEF HierInv

LEMMA StutterKeeps == ASSUME HierInv, UNCHANGED H!vars PROVE HierInv'
<1>1. UNCHANGED <<H!source, H!tables>> /\ order' = order /\ pos' = pos /\ checked' = checked /\ dtor' = dtor
      /\ phase' = phase
  BY DEF H!vars
<1>2. base' = base /\ finalized' = finalized /\ dtors' = dtors
  BY <1>1 DEF H!source, H!tables
<1>3. \A c : H!Chain(c)' = H!Chain(c) /\ (H!InCycle(c)' <=> H!InCycle(c))
  BY <1>2, ChainsStay
<1>4. HierTypes' /\ MadeOK'
  BY <1>1, TablesStay DEF HierInv
<1>5. OrderOK'
  BY <1>1, <1>2 DEF HierInv, OrderOK
<1>6. H!Current' = H!Current
  BY <1>1 DEF H!Current
<1>7. WalkOK'
  BY <1>1, <1>2, <1>3, <1>6 DEF HierInv, WalkOK
<1>8. H!WithEmptyDtors' = H!WithEmptyDtors
  BY <1>2, <1>3 DEF H!WithEmptyDtors, H!HasBaseDtors
<1>9. PhaseOK'
  <2>1. \A c : H!Rejected(c) => H!Rejected(c)'
    BY <1>1, RejectedStays
  <2> QED
    BY <1>1, <1>2, <1>3, <1>8, <2>1 DEF HierInv, PhaseOK
<1> QED
  BY <1>4, <1>5, <1>7, <1>9 DEF HierInv

\* The search for a cycle.
LEMMA CheckBaseKeeps == ASSUME HierInv, H!CheckBase PROVE HierInv'
<1>0. base \in Links /\ order \in Seq(HierClasses) /\ pos \in 1..Len(order) /\ H!Current \in HierClasses /\ H!Current \in H!All
  BY DEF HierInv, HierTypes, OrderOK, H!Current, H!All
<1>1. base[H!Current] # NoClass /\ checked \in H!Chain(base[H!Current]) /\ checked # NoClass /\ phase = "check"
  BY DEF HierInv, WalkOK, H!CheckBase
<1>2. base[H!Current] \in H!All
  BY <1>0, <1>1, AboveStep
<1>3. checked \in H!All
  BY <1>0, <1>1, <1>2, AboveHas, ChainIsAbove
<1>4. CASE checked = H!Current
  <2>1. H!InCycle(H!Current)
    BY <1>0, <1>1, <1>4 DEF H!InCycle
  <2> QED
    BY <1>0, <1>4, <2>1, HierFailKeeps DEF H!CheckBase
<1>5. CASE checked # H!Current
  <2>1. checked' = base[checked] /\ UNCHANGED <<H!source, H!tables>> /\ order' = order /\ pos' = pos
        /\ dtor' = dtor /\ phase' = phase
    BY <1>5 DEF H!CheckBase
  <2>2. base' = base /\ finalized' = finalized
    BY <2>1 DEF H!source, H!tables
  <2>3. \A c : H!Chain(c)' = H!Chain(c) /\ (H!InCycle(c)' <=> H!InCycle(c))
    BY <2>2, ChainsStay
  <2>4. HierTypes' /\ MadeOK'
    BY <2>1, TablesStay DEF HierInv
  <2>5. OrderOK'
    BY <2>1, <2>2 DEF HierInv, OrderOK
  <2>6. H!Current' = H!Current
    BY <2>1 DEF H!Current
  <2>7. checked' # NoClass => base[H!Current] # NoClass /\ checked' \in H!Chain(base[H!Current])
    BY <1>0, <1>1, <1>2, <2>1, AboveHas, ChainIsAbove
  <2>8. ASSUME NEW c \in H!Chain(H!Current), H!InCycle(c) PROVE checked' # NoClass /\ c \in H!Chain(checked')
    <3>1. c \in H!Chain(checked)
      BY <2>8 DEF HierInv, WalkOK
    <3>2. CASE base[checked] = NoClass
      <4>1. c = checked
        BY <1>0, <1>3, <3>1, <3>2, AboveStep, ChainIsAbove
      <4> QED
        BY <2>8, <3>2, <4>1 DEF H!InCycle
    <3>3. CASE base[checked] # NoClass
      <4>1. H!Chain(checked) = {checked} \cup H!Chain(base[checked])
        BY <1>0, <1>3, <3>3, AboveStep, ChainIsAbove
      <4>2. c \in H!Chain(base[checked])
        BY <2>8, <3>1, <4>1 DEF H!InCycle
      <4> QED
        BY <2>1, <3>3, <4>2
    <3> QED
      BY <3>2, <3>3
  <2>9. WalkOK'
    BY <2>2, <2>3, <2>6, <2>7, <2>8 DEF WalkOK
  <2>10. PhaseOK'
    BY <1>1, <2>1, <2>2 DEF HierInv, PhaseOK
  <2> QED
    BY <2>4, <2>5, <2>9, <2>10 DEF HierInv
<1> QED
  BY <1>4, <1>5

\* The finalization of a class, and that of the proxy.
LEMMA FinalizedKeeps ==
    ASSUME HierInv, NEW c \in H!All \ finalized, base[c] = NoClass \/ base[c] \in finalized, phase # "failed",
           c = Proxy => base[Proxy] # NoClass,
           H!Finalized(c), UNCHANGED <<H!source, order, phase, pos, checked, dtor>>
    PROVE  HierInv'
<1>1. base' = base /\ own' = own /\ dtors' = dtors /\ finalized' = finalized \cup {c}
      /\ order' = order /\ phase' = phase /\ pos' = pos /\ checked' = checked /\ dtor' = dtor
  BY DEF H!source, H!Finalized
<1>2. HierTypes' /\ MadeOK'
  BY <1>1, FinalizedMakes DEF HierInv
<1>3. \A e : H!Chain(e)' = H!Chain(e) /\ (H!InCycle(e)' <=> H!InCycle(e))
  BY <1>1, ChainsStay
<1>4. OrderOK'
  BY <1>1 DEF HierInv, OrderOK
<1>5. H!Current' = H!Current
  BY <1>1 DEF H!Current
<1>6. WalkOK'
  BY <1>1, <1>3, <1>5 DEF HierInv, WalkOK
<1>7. H!WithEmptyDtors' = H!WithEmptyDtors
  BY <1>1, <1>3 DEF H!WithEmptyDtors, H!HasBaseDtors
<1>8. PhaseOK'
  BY <1>1, <1>7 DEF HierInv, PhaseOK
<1> QED
  BY <1>2, <1>4, <1>6, <1>8 DEF HierInv

LEMMA FinalizeKeeps == ASSUME HierInv, NEW c \in HierClasses, H!Finalize(c) PROVE HierInv'
<1>1. c \in H!All \ finalized /\ c # Proxy /\ phase = "check" /\ (base[c] = NoClass \/ base[c] \in finalized)
  BY HierarchyIsFinite DEF H!Finalize, H!All
<1>2. CASE H!Rejected(c)
  BY <1>1, <1>2, HierFailKeeps DEF H!Finalize
<1>3. CASE ~H!Rejected(c)
  BY <1>1, <1>3, FinalizedKeeps DEF H!Finalize
<1> QED
  BY <1>2, <1>3

LEMMA FinalizeProxyKeeps == ASSUME HierInv, H!FinalizeProxy PROVE HierInv'
<1>1. Proxy \in H!All \ finalized /\ base[Proxy] # NoClass /\ phase = "proxies" /\ HierClasses \subseteq finalized
  BY DEF H!FinalizeProxy, H!All, HierInv, PhaseOK
<1>2. base[Proxy] \in finalized
  BY <1>1 DEF HierInv, HierTypes, Links
<1>3. CASE H!Rejected(Proxy)
  BY <1>1, <1>3, HierFailKeeps DEF H!FinalizeProxy
<1>4. CASE ~H!Rejected(Proxy)
  BY <1>1, <1>2, <1>4, FinalizedKeeps DEF H!FinalizeProxy
<1> QED
  BY <1>3, <1>4

LEMMA EmitKeeps == ASSUME HierInv, H!SkizoEmit PROVE HierInv'
<1>1. UNCHANGED <<H!source, H!tables>> /\ order' = order /\ pos' = pos /\ checked' = checked /\ dtor' = dtor
      /\ phase = "proxies" /\ phase' = "emit"
  BY DEF H!SkizoEmit
<1>2. base' = base /\ finalized' = finalized /\ dtors' = dtors
  BY <1>1 DEF H!source, H!tables
<1>3. \A c : H!Chain(c)' = H!Chain(c) /\ (H!InCycle(c)' <=> H!InCycle(c))
  BY <1>2, ChainsStay
<1>4. HierTypes' /\ MadeOK'
  BY <1>1, TablesStay DEF HierInv
<1>5. OrderOK'
  BY <1>1, <1>2 DEF HierInv, OrderOK
<1>6. H!Current' = H!Current
  BY <1>1 DEF H!Current
<1>7. WalkOK'
  BY <1>1, <1>2, <1>3, <1>6 DEF HierInv, WalkOK
<1>8. H!WithEmptyDtors' = H!WithEmptyDtors
  BY <1>2, <1>3 DEF H!WithEmptyDtors, H!HasBaseDtors
<1>9. PhaseOK'
  BY <1>1, <1>2, <1>8 DEF HierInv, PhaseOK
<1> QED
  BY <1>4, <1>5, <1>7, <1>9 DEF HierInv

\* The next class, or the end of the loop.
LEMMA NextClassKeeps == ASSUME HierInv, H!NextClass PROVE HierInv'
<1>0. /\ base \in Links /\ order \in Seq(HierClasses) /\ pos \in 1..Len(order) /\ HierClasses \subseteq H!All
      /\ \A i \in 1..(pos - 1) : order[i] \in finalized
  BY DEF HierInv, HierTypes, OrderOK, H!All
<1>1. phase = "check" /\ checked = NoClass /\ order[pos] \in finalized /\ UNCHANGED <<H!source, H!tables>> /\ order' = order
  BY DEF H!NextClass, H!Current
<1>2. base' = base /\ finalized' = finalized /\ dtors' = dtors
  BY <1>1 DEF H!source, H!tables
<1>3. \A c : H!Chain(c)' = H!Chain(c) /\ (H!InCycle(c)' <=> H!InCycle(c))
  BY <1>2, ChainsStay
<1>4. HierTypes' /\ MadeOK'
  BY <1>1, TablesStay DEF HierInv
<1>5. \A i \in 1..pos : order[i] \in finalized
  <2>1. \A i \in 1..pos : i = pos \/ i \in 1..(pos - 1)
    BY <1>0
  <2> QED
    BY <1>0, <1>1, <2>1
<1>6. CASE pos < Len(order)
  <2>1. pos' = pos + 1 /\ checked' = base[order[pos + 1]] /\ phase' = phase /\ dtor' = dtor
    BY <1>6 DEF H!NextClass
  <2>2. pos + 1 \in 1..Len(order) /\ (pos + 1) - 1 = pos
    BY <1>0, <1>6
  <2>3. PICK e : e = order[pos + 1]
    OBVIOUS
  <2>4. e \in HierClasses /\ e \in H!All
    BY <1>0, <2>2, <2>3
  <2>5. OrderOK'
    BY <1>1, <1>2, <1>5, <2>1, <2>2 DEF HierInv, OrderOK
  <2>6. H!Current' = e /\ checked' = base[e]
    BY <1>1, <2>1, <2>3 DEF H!Current
  <2>7. base[e] # NoClass => base[e] \in H!Chain(base[e])
    BY <1>0, <2>4, AboveStep, AboveHas, ChainIsAbove
  <2>8. ASSUME NEW c \in H!Chain(e), H!InCycle(c) PROVE base[e] # NoClass /\ c \in H!Chain(base[e])
    <3>1. CASE base[e] = NoClass
      <4>1. c = e
        BY <1>0, <2>4, <3>1, AboveStep, ChainIsAbove
      <4> QED
        BY <2>8, <3>1, <4>1 DEF H!InCycle
    <3>2. CASE base[e] # NoClass
      <4>1. H!Chain(e) = {e} \cup H!Chain(base[e])
        BY <1>0, <2>4, <3>2, AboveStep, ChainIsAbove
      <4>2. c = e \/ c \in H!Chain(base[e])
        BY <4>1
      <4> QED
        BY <2>8, <3>2, <4>2 DEF H!InCycle
    <3> QED
      BY <3>1, <3>2
  <2>9. WalkOK'
    <3>1. \A c : H!Chain(c)' = H!Chain(c)
      BY <1>3
    <3>2. \A c : H!InCycle(c)' <=> H!InCycle(c)
      BY <1>3
    <3>3. checked' # NoClass => base'[H!Current'] # NoClass /\ checked' \in H!Chain(base[e])
      BY <1>2, <2>6, <2>7
    <3>4. H!Chain(H!Current)' = H!Chain(e)
      BY <1>2, <2>6 DEF H!Chain, H!HasBases
    <3>5. H!Chain(base[H!Current])' = H!Chain(base[e])
      BY <1>2, <2>6 DEF H!Chain, H!HasBases
    <3>6. H!Chain(checked)' = H!Chain(base[e])
      BY <1>2, <2>6 DEF H!Chain, H!HasBases
    <3> QED
      BY <2>6, <2>8, <3>2, <3>3, <3>4, <3>5, <3>6 DEF WalkOK
  <2>10. PhaseOK'
    BY <1>1, <1>2, <2>1 DEF HierInv, PhaseOK
  <2> QED
    BY <1>4, <2>5, <2>9, <2>10 DEF HierInv
<1>7. CASE ~(pos < Len(order))
  <2>1. pos' = pos /\ checked' = checked /\ phase' = "proxies" /\ dtor' = H!WithEmptyDtors
    BY <1>7 DEF H!NextClass
  <2>2. OrderOK'
    BY <1>1, <1>2, <2>1 DEF HierInv, OrderOK
  <2>3. H!Current' = H!Current
    BY <1>1, <2>1 DEF H!Current
  <2>4. WalkOK'
    BY <1>2, <1>3, <2>1, <2>3 DEF HierInv, WalkOK
  <2>5. HierClasses \subseteq finalized
    <3>1. pos = Len(order)
      BY <1>0, <1>7
    <3> QED
      BY <1>5, <3>1 DEF HierInv, OrderOK
  <2>6. H!WithEmptyDtors' = H!WithEmptyDtors
    BY <1>2, <1>3 DEF H!WithEmptyDtors, H!HasBaseDtors
  <2>7. PhaseOK'
    BY <1>1, <1>2, <2>1, <2>5, <2>6 DEF HierInv, PhaseOK
  <2> QED
    BY <1>4, <2>2, <2>4, <2>7 DEF HierInv
<1> QED
  BY <1>6, <1>7

\* A foreign proxy is a new class below one of the source.
LEMMA ResolveKeeps == ASSUME HierInv, NEW c \in HierClasses, H!ResolveForeignProxy(c) PROVE HierInv'
<1>0. /\ base \in Links /\ own \in [H!All -> Seq(HierNames)] /\ methods \in [H!All -> Seq(H!Method)]
      /\ index \in [H!Method -> Nat] /\ baseMethod \in [H!Method -> H!Method] /\ HierClasses \subseteq H!All /\ Proxy \in H!All
      /\ finalized \subseteq H!All
  BY DEF HierInv, HierTypes, MadeOK, Rooted, H!All
<1>1. /\ phase = "proxies" /\ base[Proxy] = NoClass
      /\ base' = [base EXCEPT ![Proxy] = c]
      /\ own' = [own EXCEPT ![Proxy] = [i \in DOMAIN methods[c] |-> H!NameOf(methods[c][i])]]
      /\ methods' = [methods EXCEPT ![Proxy] = [i \in DOMAIN methods[c] |-> <<Proxy, H!NameOf(methods[c][i])>>]]
      /\ dtors' = dtors /\ order' = order /\ phase' = phase /\ pos' = pos /\ checked' = checked
      /\ finalized' = finalized /\ index' = index /\ baseMethod' = baseMethod /\ virtual' = virtual /\ dtor' = dtor
  BY DEF H!ResolveForeignProxy
<1>2. HierClasses \subseteq finalized /\ dtor = H!WithEmptyDtors /\ checked = NoClass /\ Proxy \notin finalized
  BY <1>1 DEF HierInv, PhaseOK
<1>3. finalized = HierClasses /\ c \in finalized /\ c \in H!All
  BY <1>0, <1>2 DEF H!All
<1>4. base' \in Links /\ base'[Proxy] = c /\ \A d \in HierClasses : base'[d] = base[d]
  BY <1>0, <1>1, HierarchyIsFinite DEF Links, H!All
<1>5. methods[c] \in Seq(H!Method) /\ DistinctNames(methods[c]) /\ \A i \in 1..Len(methods[c]) : H!NameOf(methods[c][i]) \in HierNames
  <2>1. methods[c] \in Seq(H!Method) /\ DistinctNames(methods[c])
    BY <1>3, NamesAreDistinct DEF HierInv
  <2>2. \A m \in H!Method : H!NameOf(m) \in HierNames
    BY DEF H!Method, H!NameOf
  <2> QED
    BY <2>1, <2>2
<1>6. HierTypes'
  <2>1. PICK q : q = [i \in DOMAIN methods[c] |-> H!NameOf(methods[c][i])]
    OBVIOUS
  <2>2. DOMAIN methods[c] = 1..Len(methods[c]) /\ Len(methods[c]) \in Nat
    BY <1>5
  <2>3. q \in Seq(HierNames) /\ Len(q) = Len(methods[c]) /\ \A i \in 1..Len(methods[c]) : q[i] = H!NameOf(methods[c][i])
    BY <1>5, <2>1, <2>2
  <2>4. Different(q)
    BY <1>5, <2>3 DEF Different, DistinctNames
  <2>5. own' \in [H!All -> Seq(HierNames)] /\ \A d \in H!All : Different(own'[d])
    BY <1>0, <1>1, <2>1, <2>3, <2>4 DEF HierInv, HierTypes
  <2>6. PICK r : r = [i \in DOMAIN methods[c] |-> <<Proxy, H!NameOf(methods[c][i])>>]
    OBVIOUS
  <2>7. r \in Seq(H!Method)
    BY <1>0, <1>5, <2>2, <2>6 DEF H!Method
  <2>8. methods' \in [H!All -> Seq(H!Method)]
    BY <1>0, <1>1, <2>6, <2>7
  <2> QED
    BY <1>1, <1>4, <2>5, <2>8 DEF HierInv, HierTypes
<1>7. \A d \in finalized : own'[d] = own[d] /\ methods'[d] = methods[d] /\ base'[d] = base[d]
  BY <1>0, <1>1, <1>2, <1>3, <1>4
<1>8. \A d \in finalized : H!Inherited(d)' = H!Inherited(d)
  <2>1. \A d \in finalized : base[d] = NoClass \/ base[d] \in finalized
    BY DEF HierInv, MadeOK, Rooted
  <2> QED
    BY <1>7, <2>1 DEF H!Inherited
<1>9. MadeOK'
  <2>1. Rooted(base', finalized)
    <3>1. Rooted(base, finalized)
      BY DEF HierInv, MadeOK
    <3> QED
      BY <1>7, <3>1 DEF Rooted
  <2>2. \A d \in finalized : Made(d, H!Inherited(d)', own'[d], methods'[d], index', baseMethod', virtual')
    BY <1>1, <1>7, <1>8 DEF HierInv, MadeOK
  <2> QED
    BY <1>1, <2>1, <2>2 DEF HierInv, MadeOK
<1>10. \A x \in HierClasses : H!Chain(x)' = H!Chain(x) /\ H!Chain(x) \subseteq HierClasses
  <2>1. \A x : H!Chain(x)' = Above(base', x)
    BY DEF H!Chain, Above, H!HasBases
  <2> QED
    BY <1>0, <1>4, <2>1, AboveSame, ChainIsAbove
<1>11. OrderOK'
  BY <1>1 DEF HierInv, OrderOK
<1>12. H!Current' = H!Current /\ H!Current \in HierClasses
  BY <1>1 DEF H!Current, HierInv, OrderOK
<1>13. WalkOK'
  <2>1. H!Chain(H!Current)' = H!Chain(H!Current) /\ H!Chain(H!Current) \subseteq HierClasses
    <3>1. PICK x \in HierClasses : x = H!Current
      BY <1>12
    <3>2. H!Chain(H!Current)' = H!Chain(x)'
      BY <1>12, <3>1 DEF H!Chain, H!HasBases
    <3> QED
      BY <1>10, <3>1, <3>2
  <2>2. ASSUME NEW x \in HierClasses, H!InCycle(x)' PROVE H!InCycle(x)
    <3>1. base[x] = base'[x] /\ base[x] # NoClass /\ base[x] \in HierClasses
      BY <1>0, <1>4, <2>2 DEF H!InCycle, Links
    <3>2. x \in H!Chain(base[x])'
      BY <2>2 DEF H!InCycle
    <3>3. PICK y \in HierClasses : y = base[x]
      BY <3>1
    <3>4. x \in H!Chain(y)'
      BY <3>1, <3>2, <3>3 DEF H!Chain, H!HasBases
    <3> QED
      BY <1>10, <3>1, <3>3, <3>4 DEF H!InCycle
  <2>3. \A x \in H!Chain(H!Current) : ~H!InCycle(x)
    BY <1>2 DEF HierInv, WalkOK
  <2> QED
    BY <1>1, <1>2, <2>1, <2>2, <2>3 DEF WalkOK
<1>14. H!WithEmptyDtors' = H!WithEmptyDtors
  <2>1. \A x \in HierClasses : H!HasBaseDtors(x)' <=> H!HasBaseDtors(x)
    BY <1>1, <1>10 DEF H!HasBaseDtors
  <2> QED
    BY <1>1, <2>1 DEF H!WithEmptyDtors
<1>15. PhaseOK'
  <2>1. base'[Proxy] # NoClass
    BY <1>3, <1>4, HierarchyIsFinite
  <2> QED
    BY <1>1, <1>2, <1>14, <2>1 DEF PhaseOK
<1> QED
  BY <1>6, <1>9, <1>11, <1>13, <1>15 DEF HierInv

-----------------------------------------------------------------------------
LEMMA OrderOfClasses ==
    \E q : /\ q = H!SetToSeq(HierClasses) /\ q \in Seq(HierClasses) /\ 1 <= Len(q)
           /\ \A c \in HierClasses : \E i \in 1..Len(q) : q[i] = c
           /\ \A i, j \in 1..Len(q) : q[i] = q[j] => i = j
<1>1. PICK k \in Nat : k = Cardinality(HierClasses) /\ ExistsBijection(1..k, HierClasses)
  BY HierarchyIsFinite, FS_CardinalityType
<1>2. PICK g : g \in Bijection(1..k, HierClasses)
  BY <1>1 DEF ExistsBijection
<1>3. g \in [1..k -> HierClasses] /\ IsInjective(g)
  BY <1>2 DEF Bijection, Injection
<1>4. PICK q : q = H!SetToSeq(HierClasses)
  OBVIOUS
<1>5. q = CHOOSE f \in [1..k -> HierClasses] : IsInjective(f)
  BY <1>1, <1>4 DEF H!SetToSeq, H!Cardinality, Cardinality, H!IsInjective, IsInjective
<1>6. q \in [1..k -> HierClasses] /\ IsInjective(q)
  BY <1>3, <1>5
<1>7. \A i, j \in 1..k : q[i] = q[j] => i = j
  BY <1>6 DEF IsInjective
<1>8. q \in Seq(HierClasses) /\ Len(q) = k
  BY <1>6, SeqDef, LenProperties
<1>9. IsFiniteSet(1..k) /\ Cardinality(1..k) = k
  BY FS_Interval
<1>10. q \in Injection(1..k, HierClasses)
  BY <1>6 DEF Injection
<1>11. q \in Surjection(1..k, HierClasses)
  BY <1>1, <1>9, <1>10, HierarchyIsFinite, FS_Injection
<1>12. \A c \in HierClasses : \E i \in 1..k : q[i] = c
  BY <1>11 DEF Surjection
<1>13. 1 <= k
  <2>1. PICK c \in HierClasses : TRUE
    BY HierarchyIsFinite
  <2> QED
    BY <1>12, <2>1
<1> QED
  BY <1>4, <1>7, <1>8, <1>12, <1>13

LEMMA NamesInOrder ==
    ASSUME NEW S \in SUBSET HierNames, NEW q \in H!SetToSeqs(S) PROVE q \in Seq(HierNames) /\ Different(q)
<1>1. PICK n \in Nat : n = Cardinality(S)
  BY HierarchyIsFinite, FS_Subset, FS_CardinalityType
<1>2. q \in [1..n -> S] /\ \A i, j \in 1..n : i # j => q[i] # q[j]
  BY <1>1 DEF H!SetToSeqs, H!Cardinality, Cardinality
<1>3. q \in Seq(HierNames) /\ Len(q) = n
  BY <1>1, <1>2, SeqDef, LenProperties
<1> QED
  BY <1>2, <1>3 DEF Different

LEMMA HierInit == H!Init => HierInv
<1> SUFFICES ASSUME H!Init PROVE HierInv
  OBVIOUS
<1>1. base \in Links /\ base[Proxy] = NoClass
  <2>1. PICK b \in [HierClasses -> HierClasses \cup {NoClass}] : base = [c \in H!All |-> IF c = Proxy THEN NoClass ELSE b[c]]
    BY DEF H!Init
  <2> QED
    BY <2>1, HierarchyIsFinite DEF Links, H!All
<1>2. own \in [H!All -> Seq(HierNames)] /\ \A c \in H!All : Different(own[c])
  <2>1. PICK o \in [HierClasses -> UNION {H!SetToSeqs(S) : S \in SUBSET HierNames}] :
              own = [c \in H!All |-> IF c = Proxy THEN <<>> ELSE o[c]]
    BY DEF H!Init
  <2>2. \A c \in HierClasses : o[c] \in Seq(HierNames) /\ Different(o[c])
    BY NamesInOrder
  <2>3. <<>> \in Seq(HierNames) /\ Different(<<>>)
    BY DEF Different
  <2>4. ASSUME NEW c \in H!All PROVE own[c] \in Seq(HierNames) /\ Different(own[c])
    <3>1. CASE c = Proxy
      BY <2>1, <2>3, <3>1
    <3>2. CASE c # Proxy
      BY <2>1, <2>2, <3>2 DEF H!All
    <3> QED
      BY <3>1, <3>2
  <2>5. own \in [H!All -> Seq(HierNames)]
    BY <2>1, <2>4
  <2> QED
    BY <2>4, <2>5
<1>3. /\ methods = [c \in H!All |-> H!OwnMethods(c)] /\ finalized = {} /\ index = [m \in H!Method |-> 0]
      /\ baseMethod = [m \in H!Method |-> m] /\ virtual = {} /\ dtors \subseteq HierClasses
      /\ order = H!SetToSeq(HierClasses) /\ phase = "check" /\ pos = 1 /\ checked = base[Head(order)]
  BY DEF H!Init
<1>4. methods \in [H!All -> Seq(H!Method)]
  <2>1. ASSUME NEW c \in H!All PROVE H!OwnMethods(c) \in Seq(H!Method)
    <3>1. own[c] \in Seq(HierNames)
      BY <1>2
    <3>2. H!OwnMethods(c) = Owned(c, own[c])
      BY <3>1 DEF H!OwnMethods, Owned
    <3> QED
      BY <1>2, <3>1, <3>2, OwnAreDifferent
  <2> QED
    BY <1>3, <2>1
<1>5. HierTypes
  BY <1>1, <1>2, <1>3, <1>4 DEF HierTypes
<1>6. MadeOK
  <2>1. \A c \in H!All, n \in HierNames : baseMethod[<<c, n>>] = <<c, n>>
    BY <1>3 DEF H!Method
  <2> QED
    BY <1>3, <2>1 DEF MadeOK, Rooted
<1>7. PICK q : /\ q = H!SetToSeq(HierClasses) /\ q \in Seq(HierClasses) /\ 1 <= Len(q)
               /\ \A c \in HierClasses : \E i \in 1..Len(q) : q[i] = c
               /\ \A i, j \in 1..Len(q) : q[i] = q[j] => i = j
  BY OrderOfClasses
<1>8. OrderOK
  BY <1>3, <1>7 DEF OrderOK
<1>9. H!Current = q[1] /\ H!Current \in HierClasses /\ H!Current \in H!All /\ checked = base[H!Current]
  BY <1>3, <1>7 DEF H!Current, H!All
<1>10. WalkOK
  <2>1. base[H!Current] # NoClass => base[H!Current] \in H!Chain(base[H!Current])
    BY <1>1, <1>9, AboveStep, AboveHas, ChainIsAbove
  <2>2. ASSUME NEW c \in H!Chain(H!Current), H!InCycle(c) PROVE base[H!Current] # NoClass /\ c \in H!Chain(base[H!Current])
    <3>1. CASE base[H!Current] = NoClass
      <4>1. c = H!Current
        BY <1>1, <1>9, <3>1, AboveStep, ChainIsAbove
      <4> QED
        BY <2>2, <3>1, <4>1 DEF H!InCycle
    <3>2. CASE base[H!Current] # NoClass
      <4>1. H!Chain(H!Current) = {H!Current} \cup H!Chain(base[H!Current])
        BY <1>1, <1>9, <3>2, AboveStep, ChainIsAbove
      <4>2. c = H!Current \/ c \in H!Chain(base[H!Current])
        BY <4>1
      <4> QED
        BY <2>2, <3>2, <4>2 DEF H!InCycle
    <3> QED
      BY <3>1, <3>2
  <2> QED
    BY <1>9, <2>1, <2>2 DEF WalkOK
<1>11. PhaseOK
  BY <1>1, <1>3 DEF PhaseOK
<1> QED
  BY <1>5, <1>6, <1>8, <1>10, <1>11 DEF HierInv

LEMMA HierNext == HierInv /\ [H!Next]_(H!vars) => HierInv'
<1> SUFFICES ASSUME HierInv, [H!Next]_(H!vars) PROVE HierInv'
  OBVIOUS
<1>1. CASE UNCHANGED H!vars
  BY <1>1, StutterKeeps
<1>2. CASE H!CheckBase
  BY <1>2, CheckBaseKeeps
<1>3. ASSUME NEW c \in HierClasses, H!Finalize(c) PROVE HierInv'
  BY <1>3, FinalizeKeeps
<1>4. ASSUME NEW c \in HierClasses, H!ResolveForeignProxy(c) PROVE HierInv'
  BY <1>4, ResolveKeeps
<1>5. CASE H!NextClass
  BY <1>5, NextClassKeeps
<1>6. CASE H!FinalizeProxy
  BY <1>6, FinalizeProxyKeeps
<1>7. CASE H!SkizoEmit
  BY <1>7, EmitKeeps
<1> QED
  BY <1>1, <1>2, <1>3, <1>4, <1>5, <1>6, <1>7 DEF H!Next

\* Calls reach the method the object's class has for the name, tables line up below
\* every class, destruction runs all inherited destructors in order, and cycles are
\* reported: for any classes with any bases, methods and destructors.
THEOREM HierarchiesDispatch == MCSpec => []HierarchiesAreSound
<1> DEFINE Inv == which = "hierarchy" => HierInv
<1>1. MCInit => Inv
  BY HierInit DEF MCInit
<1>2. Inv /\ [MCNext]_allVars => Inv'
  <2> SUFFICES ASSUME Inv, [MCNext]_allVars, which' = "hierarchy" PROVE HierInv'
    OBVIOUS
  <2>1. which = "hierarchy"
    BY DEF MCNext, allVars, common
  <2>2. [H!Next]_(H!vars)
    BY <2>1 DEF MCNext, allVars, common, madeVars, hierVars, H!vars, H!source, H!tables
  <2> QED
    BY <2>1, <2>2, HierNext
<1>3. Inv => HierarchiesAreSound
  BY HierInvMeans DEF HierarchiesAreSound
<1> QED
  BY <1>1, <1>2, <1>3, PTL DEF MCSpec
-----------------------------------------------------------------------------
(***************************************************************************)
(* Types: the class a reference is resolved to is that of the type it      *)
(* means, whatever has been made before, and a type has one class.         *)
(***************************************************************************)
MadeKinds  == {"array", "failable", "foreign", "boxed"}
PlainNames == T!Source \cup T!ToSet(Aliases)
TypeWords  == PlainNames \cup MadeKinds
MadeClasses == [special : MadeKinds, of : PlainNames \cup Nat]

\* A class is made of one that was there before.
WellMadeTypes(ks) == /\ ks \in Seq(MadeClasses)
                     /\ \A c \in 1..Len(ks) : ks[c].of \in T!Source \cup 1..(c - 1)

\* The names of the first k classes.
Named(ks, k, M, c) == IF c \notin 1..k THEN <<c>> ELSE <<ks[c].special>> \o M[ks[c].of]
IsMeaningTo(M, ks, k) == M = [c \in PlainNames \cup 1..k |-> Named(ks, k, M, c)]
MeaningOf(ks) == CHOOSE M : IsMeaningTo(M, ks, Len(ks))

LEMMA NamesAreNames == /\ IsFiniteSet(T!Source) /\ Aliases \in Seq(T!ToSet(Aliases))
                       /\ MaxLevel \in Nat /\ MaxGenerated \in Nat
                       /\ \A n \in PlainNames : n \notin Nat /\ n \notin MadeKinds /\ n # None
                       /\ None \notin Nat
                       /\ \A i, j \in DOMAIN Aliases : Aliases[i] = Aliases[j] => i = j
<1>1. T!IsFiniteSet(T!Source) <=> IsFiniteSet(T!Source)
  BY DEF T!IsFiniteSet, IsFiniteSet
<1> QED
  BY <1>1, TypesHaveNames DEF T!TypesAssumption, PlainNames, MadeKinds

LEMMA MeaningIsOf == T!Meaning = MeaningOf(klasses)
  BY Zenon DEF T!Meaning, MeaningOf, IsMeaningTo, Named, PlainNames

LEMMA MeaningToExists ==
    ASSUME NEW ks, WellMadeTypes(ks), NEW k \in 0..Len(ks)
    PROVE  \E M : IsMeaningTo(M, ks, k)
<1> DEFINE Bad == {i \in 0..Len(ks) : ~\E M : IsMeaningTo(M, ks, i)}
<1>0. Len(ks) \in Nat /\ Bad \subseteq Nat
  BY DEF WellMadeTypes
<1>00. Bad \subseteq 0..Len(ks)
  OBVIOUS
<1>1. CASE Bad = {}
  BY <1>1
<1>2. CASE Bad # {}
  <2>1. PICK i \in Bad : \A j \in Bad : i <= j
    BY <1>0, <1>2, LeastNumber
  <2>2. CASE i = 0
    <3>1. PICK M : M = [c \in PlainNames \cup 1..0 |-> <<c>>]
      OBVIOUS
    <3>2. \A c \in PlainNames \cup 1..0 : Named(ks, 0, M, c) = <<c>>
      BY DEF Named
    <3>3. IsMeaningTo(M, ks, 0)
      BY <3>1, <3>2 DEF IsMeaningTo
    <3> QED
      BY <2>1, <2>2, <3>3
  <2>3. CASE i # 0
    <3>1. i - 1 \in 0..Len(ks) /\ i - 1 \notin Bad /\ i \in 1..Len(ks) /\ i \in Nat
      <4> HIDE DEF Bad
      <4>1. i \in Nat /\ i \in 0..Len(ks) /\ ~(i <= i - 1)
        BY <1>0, <1>00, <2>1
      <4> QED
        BY <1>0, <2>1, <2>3, <4>1
    <3>2. PICK M : IsMeaningTo(M, ks, i - 1)
      BY <3>1
    <3>3. PICK D : D = PlainNames \cup 1..(i - 1)
      OBVIOUS
    <3>4. M = [c \in D |-> Named(ks, i - 1, M, c)]
      BY <3>2, <3>3 DEF IsMeaningTo
    <3>5. i \notin D /\ PlainNames \cup 1..i = D \cup {i}
      BY <3>1, <3>3, NamesAreNames
    <3>6. PICK m : m = <<ks[i].special>> \o M[ks[i].of]
      OBVIOUS
    <3>7. PICK W : W = [c \in D \cup {i} |-> IF c = i THEN m ELSE M[c]]
      OBVIOUS
    <3>8. ASSUME NEW c \in D PROVE W[c] = Named(ks, i, W, c)
      <4>1. W[c] = M[c] /\ M[c] = Named(ks, i - 1, M, c)
        BY <3>4, <3>5, <3>7, <3>8
      <4>2. CASE c \notin 1..(i - 1)
        <5>1. c \notin 1..i
          BY <3>3, <3>5, <3>8, <4>2, <3>1
        <5> QED
          BY <4>1, <4>2, <5>1 DEF Named
      <4>3. CASE c \in 1..(i - 1)
        <5>1. ks[c].of \in D /\ c \in 1..i
          BY <3>1, <3>3, <4>3 DEF WellMadeTypes, PlainNames
        <5>2. W[ks[c].of] = M[ks[c].of]
          BY <3>5, <3>7, <5>1
        <5> QED
          BY <4>1, <4>3, <5>1, <5>2 DEF Named
      <4> QED
        BY <4>2, <4>3
    <3>9. W[i] = Named(ks, i, W, i)
      <4>1. ks[i].of \in D
        BY <3>1, <3>3 DEF WellMadeTypes, PlainNames
      <4>2. W[ks[i].of] = M[ks[i].of] /\ W[i] = m
        BY <3>5, <3>7, <4>1
      <4> QED
        BY <3>1, <3>6, <4>2 DEF Named
    <3>10. \A c \in D \cup {i} : W[c] = Named(ks, i, W, c)
      BY <3>8, <3>9
    <3>11. W = [c \in D \cup {i} |-> W[c]]
      BY <3>7
    <3>12. W = [c \in D \cup {i} |-> Named(ks, i, W, c)]
      BY <3>10, <3>11
    <3>13. IsMeaningTo(W, ks, i)
      BY <3>5, <3>12 DEF IsMeaningTo
    <3> QED
      BY <2>1, <3>13
  <2> QED
    BY <2>2, <2>3
<1> QED
  BY <1>1, <1>2

\* Later classes leave the names of the earlier ones.
Extends(ks, ls) == Len(ks) <= Len(ls) /\ \A c \in 1..Len(ks) : ls[c] = ks[c]

LEMMA MeaningIs == ASSUME NEW ks, WellMadeTypes(ks) PROVE IsMeaningTo(MeaningOf(ks), ks, Len(ks))
<1>1. Len(ks) \in 0..Len(ks)
  BY DEF WellMadeTypes
<1>2. \E M : IsMeaningTo(M, ks, Len(ks))
  BY <1>1, MeaningToExists
<1> QED
  BY <1>2, Zenon DEF MeaningOf

LEMMA PlainMeaning ==
    ASSUME NEW ks, WellMadeTypes(ks), NEW n \in PlainNames PROVE MeaningOf(ks)[n] = <<n>>
<1>1. PICK M : M = MeaningOf(ks)
  OBVIOUS
<1>2. M = [c \in PlainNames \cup 1..Len(ks) |-> Named(ks, Len(ks), M, c)]
  BY <1>1, MeaningIs DEF IsMeaningTo
<1>3. n \notin 1..Len(ks)
  BY NamesAreNames DEF WellMadeTypes
<1>4. M[n] = Named(ks, Len(ks), M, n)
  BY <1>2
<1> QED
  BY <1>1, <1>3, <1>4 DEF Named

LEMMA MadeMeaning ==
    ASSUME NEW ks, WellMadeTypes(ks), NEW c \in 1..Len(ks)
    PROVE  MeaningOf(ks)[c] = <<ks[c].special>> \o MeaningOf(ks)[ks[c].of]
<1>1. PICK M : M = MeaningOf(ks)
  OBVIOUS
<1>2. M = [x \in PlainNames \cup 1..Len(ks) |-> Named(ks, Len(ks), M, x)]
  BY <1>1, MeaningIs DEF IsMeaningTo
<1>4. M[c] = Named(ks, Len(ks), M, c)
  BY <1>2
<1> QED
  BY <1>1, <1>4 DEF Named

LEMMA PutInFront ==
    ASSUME NEW w \in TypeWords, NEW m \in Seq(TypeWords)
    PROVE  /\ <<w>> \o m \in Seq(TypeWords) /\ Len(<<w>> \o m) = Len(m) + 1
           /\ (<<w>> \o m)[1] = w /\ \A i \in 1..Len(m) : (<<w>> \o m)[i + 1] = m[i]
<1>1. <<w>> \in Seq(TypeWords) /\ Len(<<w>>) = 1 /\ <<w>>[1] = w
  OBVIOUS
<1>2. PICK v : v = <<w>>
  OBVIOUS
<1>3. v \in Seq(TypeWords) /\ Len(v) = 1 /\ v[1] = w /\ Len(m) \in Nat
  BY <1>1, <1>2
<1>4. v \o m \in Seq(TypeWords) /\ Len(v \o m) = Len(v) + Len(m)
      /\ \A i \in 1..Len(v) + Len(m) : (v \o m)[i] = IF i <= Len(v) THEN v[i] ELSE m[i - Len(v)]
  BY <1>3, ConcatProperties
<1> HIDE DEF TypeWords
<1>5. (v \o m)[1] = w
  BY <1>3, <1>4
<1>6. ASSUME NEW i \in 1..Len(m) PROVE (v \o m)[i + 1] = m[i]
  <2>1. i + 1 \in 1..1 + Len(m) /\ ~(i + 1 <= 1) /\ i + 1 - 1 = i
    BY <1>3
  <2> QED
    BY <1>3, <1>4, <2>1
<1> QED
  BY <1>2, <1>3, <1>4, <1>5, <1>6

LEMMA InFrontIsOne ==
    ASSUME NEW w \in TypeWords, NEW m \in Seq(TypeWords), NEW v \in TypeWords, NEW k \in Seq(TypeWords),
           NEW p, p = <<w>> \o m, p = <<v>> \o k
    PROVE  w = v /\ m = k
<1>1. /\ Len(p) = Len(m) + 1 /\ p[1] = w /\ \A i \in 1..Len(m) : p[i + 1] = m[i]
      /\ Len(p) = Len(k) + 1 /\ p[1] = v /\ \A i \in 1..Len(k) : p[i + 1] = k[i]
  BY PutInFront
<1>3. Len(m) = Len(k)
  BY <1>1
<1>4. \A i \in 1..Len(m) : m[i] = k[i]
  BY <1>1, <1>3
<1> QED
  BY <1>1, <1>3, <1>4, SeqEqual

LEMMA MadeTypes ==
    ASSUME NEW ks, WellMadeTypes(ks), NEW c \in 1..Len(ks)
    PROVE  /\ ks[c].special \in MadeKinds /\ ks[c].special \in TypeWords
           /\ ks[c].of \in T!Source \cup 1..(c - 1) /\ ks[c].of \in PlainNames \cup 1..Len(ks)
<1>1. ks[c] \in MadeClasses
  BY DEF WellMadeTypes
<1>2. ks[c].special \in MadeKinds
  BY <1>1 DEF MadeClasses
<1>3. ks[c].of \in T!Source \cup 1..(c - 1) /\ Len(ks) \in Nat
  BY DEF WellMadeTypes
<1>4. 1..(c - 1) \subseteq 1..Len(ks)
  BY <1>3
<1> QED
  BY <1>2, <1>3, <1>4 DEF TypeWords, PlainNames

LEMMA MeaningsAreWords ==
    ASSUME NEW ks, WellMadeTypes(ks), NEW c \in PlainNames \cup 1..Len(ks)
    PROVE  MeaningOf(ks)[c] \in Seq(TypeWords) /\ Len(MeaningOf(ks)[c]) > 0
<1> DEFINE M == MeaningOf(ks)
           Bad == {i \in 1..Len(ks) : ~(M[i] \in Seq(TypeWords) /\ Len(M[i]) > 0)}
<1>1. \A n \in PlainNames : M[n] \in Seq(TypeWords) /\ Len(M[n]) > 0
  <2> SUFFICES ASSUME NEW n \in PlainNames PROVE M[n] \in Seq(TypeWords) /\ Len(M[n]) > 0
    OBVIOUS
  <2>1. M[n] = <<n>> /\ n \in TypeWords
    BY PlainMeaning DEF TypeWords
  <2> HIDE DEF M, TypeWords
  <2> QED
    BY <2>1
<1>2. Len(ks) \in Nat /\ Bad \subseteq Nat /\ Bad \subseteq 1..Len(ks)
  BY DEF WellMadeTypes
<1>3. ASSUME Bad # {} PROVE FALSE
  <2>1. PICK i \in Bad : \A j \in Bad : i <= j
    <3> HIDE DEF Bad
    <3> QED
      BY <1>2, <1>3, LeastNumber
  <2>2. i \in 1..Len(ks) /\ ks[i].special \in TypeWords /\ ks[i].of \in T!Source \cup 1..(i - 1)
    BY <1>2, <2>1, MadeTypes
  <2>3. M[i] = <<ks[i].special>> \o M[ks[i].of]
    BY <2>2, MadeMeaning
  <2>4. M[ks[i].of] \in Seq(TypeWords)
    <3>1. CASE ks[i].of \in T!Source
      BY <1>1, <3>1 DEF PlainNames
    <3>2. CASE ks[i].of \in 1..(i - 1)
      <4>1. PICK j : j = ks[i].of
        OBVIOUS
      <4>2. j \in 1..Len(ks) /\ ~(i <= j)
        BY <1>2, <2>2, <3>2, <4>1
      <4>3. j \notin Bad
        <5> HIDE DEF Bad
        <5> QED
          BY <2>1, <4>2
      <4> HIDE DEF M
      <4> QED
        BY <4>1, <4>2, <4>3
    <3> QED
      BY <2>2, <3>1, <3>2
  <2> HIDE DEF M
  <2>5. M[i] \in Seq(TypeWords) /\ Len(M[i]) = Len(M[ks[i].of]) + 1
    BY <2>2, <2>3, <2>4, PutInFront
  <2>6. Len(M[i]) > 0
    BY <2>4, <2>5
  <2> QED
    BY <2>1, <2>5, <2>6
<1>4. \A i \in 1..Len(ks) : M[i] \in Seq(TypeWords) /\ Len(M[i]) > 0
  BY <1>3
<1> QED
  BY <1>1, <1>4

\* The name of a generated class: its kind, and the name of the class it is made of.
LEMMA MadeName ==
    ASSUME NEW ks, WellMadeTypes(ks), NEW c \in 1..Len(ks)
    PROVE  /\ ks[c].of \in PlainNames \cup 1..Len(ks) /\ ks[c].special \in TypeWords
           /\ Len(MeaningOf(ks)[c]) > 1 /\ MeaningOf(ks)[c][1] = ks[c].special
           /\ Len(MeaningOf(ks)[c]) = Len(MeaningOf(ks)[ks[c].of]) + 1
           /\ MeaningOf(ks)[c][2] = MeaningOf(ks)[ks[c].of][1]
<1>1. PICK o, s : o = ks[c].of /\ s = ks[c].special
  OBVIOUS
<1>2. o \in PlainNames \cup 1..Len(ks) /\ s \in TypeWords
  BY <1>1, MadeTypes
<1>3. PICK m, p : m = MeaningOf(ks)[o] /\ p = MeaningOf(ks)[c]
  OBVIOUS
<1>4. m \in Seq(TypeWords) /\ Len(m) > 0
  BY <1>2, <1>3, MeaningsAreWords
<1>5. p = <<s>> \o m
  BY <1>1, <1>3, MadeMeaning
<1>6. Len(p) = Len(m) + 1 /\ p[1] = s /\ \A i \in 1..Len(m) : p[i + 1] = m[i]
  BY <1>2, <1>4, <1>5, PutInFront
<1>7. Len(m) \in Nat /\ 1 \in 1..Len(m) /\ 1 + 1 = 2
  BY <1>4
<1>8. p[2] = m[1]
  BY <1>6, <1>7
<1> QED
  BY <1>1, <1>2, <1>3, <1>4, <1>6, <1>7, <1>8

LEMMA SameNameOfMade ==
    ASSUME NEW ks, WellMadeTypes(ks), NEW c \in 1..Len(ks), NEW d \in 1..Len(ks),
           MeaningOf(ks)[c] = MeaningOf(ks)[d]
    PROVE  ks[c].special = ks[d].special /\ MeaningOf(ks)[ks[c].of] = MeaningOf(ks)[ks[d].of]
<1>1. PICK m, k : m = MeaningOf(ks)[ks[c].of] /\ k = MeaningOf(ks)[ks[d].of]
  OBVIOUS
<1>2. m \in Seq(TypeWords) /\ k \in Seq(TypeWords) /\ ks[c].special \in TypeWords /\ ks[d].special \in TypeWords
  BY <1>1, MadeName, MeaningsAreWords
<1>3. PICK v, w : v = ks[c].special /\ w = ks[d].special
  OBVIOUS
<1>4. MeaningOf(ks)[c] = <<v>> \o m /\ MeaningOf(ks)[d] = <<w>> \o k
  BY <1>1, <1>3, MadeMeaning
<1>5. PICK p : p = MeaningOf(ks)[c]
  OBVIOUS
<1>6. v \in TypeWords /\ w \in TypeWords /\ p = <<v>> \o m /\ p = <<w>> \o k
  BY <1>2, <1>3, <1>4, <1>5
<1>7. v = w /\ m = k
  <2> HIDE DEF TypeWords
  <2> QED
    BY <1>2, <1>6, InFrontIsOne, Zenon
<1> QED
  BY <1>1, <1>3, <1>7

LEMMA NamesStay ==
    ASSUME NEW ks, WellMadeTypes(ks), NEW ls, WellMadeTypes(ls), Extends(ks, ls),
           NEW c \in PlainNames \cup 1..Len(ks)
    PROVE  MeaningOf(ls)[c] = MeaningOf(ks)[c]
<1> DEFINE Bad == {i \in 1..Len(ks) : MeaningOf(ls)[i] # MeaningOf(ks)[i]}
<1>1. \A n \in PlainNames : MeaningOf(ls)[n] = MeaningOf(ks)[n]
  BY PlainMeaning
<1>2. Len(ks) \in Nat /\ Len(ls) \in Nat /\ Bad \subseteq Nat /\ Bad \subseteq 1..Len(ks)
  BY DEF WellMadeTypes
<1>3. ASSUME Bad # {} PROVE FALSE
  <2>1. PICK i \in Bad : \A j \in Bad : i <= j
    <3> HIDE DEF Bad
    <3> QED
      BY <1>2, <1>3, LeastNumber
  <2>2. i \in 1..Len(ks) /\ i \in 1..Len(ls) /\ ls[i] = ks[i] /\ ks[i].of \in T!Source \cup 1..(i - 1)
    BY <1>2, <2>1 DEF WellMadeTypes, Extends
  <2>3. MeaningOf(ls)[ks[i].of] = MeaningOf(ks)[ks[i].of]
    <3>1. CASE ks[i].of \in T!Source
      BY <1>1, <3>1 DEF PlainNames
    <3>2. CASE ks[i].of \in 1..(i - 1)
      <4>1. PICK j : j = ks[i].of
        OBVIOUS
      <4>2. j \in 1..Len(ks) /\ ~(i <= j)
        BY <1>2, <2>2, <3>2, <4>1
      <4>3. j \notin Bad
        <5> HIDE DEF Bad
        <5> QED
          BY <2>1, <4>2
      <4> QED
        BY <4>1, <4>2, <4>3
    <3> QED
      BY <2>2, <3>1, <3>2
  <2>4. MeaningOf(ls)[i] = <<ls[i].special>> \o MeaningOf(ls)[ls[i].of]
    BY <2>2, MadeMeaning
  <2>5. MeaningOf(ks)[i] = <<ks[i].special>> \o MeaningOf(ks)[ks[i].of]
    BY <2>2, MadeMeaning
  <2> QED
    BY <2>1, <2>2, <2>3, <2>4, <2>5
<1> QED
  BY <1>1, <1>3

\* What stands in the maps: an array's key is the name in its brackets, that of the
\* others is what they are made of.
AroundKinds == {"failable", "foreign", "boxed"}
IsArrayKey(ks, n, k) == n \in T!Source \cup 1..Len(ks) /\ k \in Nat \ {0} /\ (n \in T!Source \/ k = 1)
IsInside(ms, n, k, o) == IF k = 1 THEN o = n
                         ELSE <<n, k - 1>> \in DOMAIN ms["array"] /\ o = ms["array"][<<n, k - 1>>]
IsFlat(ms, o) == \/ o \in T!Source
                 \/ \E n \in T!Source, k \in Nat \ {0} :
                       <<n, k>> \in DOMAIN ms["array"] /\ ms["array"][<<n, k>>] = o
MayBeIn(ks, ms, s, o) ==
    /\ s = "failable" => IsFlat(ms, o)
    /\ s = "foreign" => o \in T!Source
    /\ s = "boxed" => o \in T!Source \/ (o \in 1..Len(ks) /\ ks[o].special = "failable")

ArrayEntryOK(ks, ms, key) ==
    \E n, k : /\ key = <<n, k>> /\ IsArrayKey(ks, n, k) /\ ms["array"][key] \in 1..Len(ks)
              /\ ks[ms["array"][key]].special = "array"
              /\ IsInside(ms, n, k, ks[ms["array"][key]].of)
AroundEntryOK(ks, ms, s, o) ==
    ms[s][o] \in 1..Len(ks) /\ ks[ms[s][o]].special = s /\ ks[ms[s][o]].of = o
ClassEntryOK(ks, ms, c) ==
    IF ks[c].special = "array" THEN \E key \in DOMAIN ms["array"] : ms["array"][key] = c
    ELSE /\ ks[c].of \in DOMAIN ms[ks[c].special] /\ ms[ks[c].special][ks[c].of] = c
         /\ MayBeIn(ks, ms, ks[c].special, ks[c].of)
MapsOK(ks, ms) == /\ ms = [s \in MadeKinds |-> ms[s]]
                  /\ \A key \in DOMAIN ms["array"] : ArrayEntryOK(ks, ms, key)
                  /\ \A s \in AroundKinds : \A o \in DOMAIN ms[s] : AroundEntryOK(ks, ms, s, o)
                  /\ \A c \in 1..Len(ks) : ClassEntryOK(ks, ms, c)
RegistryOK(ks, ms) == WellMadeTypes(ks) /\ MapsOK(ks, ms)
MapsGrow(ms, ns) == \A s \in MadeKinds : \A y \in DOMAIN ms[s] : y \in DOMAIN ns[s] /\ ns[s][y] = ms[s][y]

KeyFits(ks, ms, s, key, o) ==
    \/ s = "array" /\ \E n, k : key = <<n, k>> /\ IsArrayKey(ks, n, k) /\ IsInside(ms, n, k, o)
    \/ s \in AroundKinds /\ key = o /\ MayBeIn(ks, ms, s, o)

LEMMA EntriesStay ==
    ASSUME NEW ks, NEW ms, RegistryOK(ks, ms), NEW ls, NEW ns, WellMadeTypes(ls), Extends(ks, ls), MapsGrow(ms, ns)
    PROVE  /\ \A n, k : IsArrayKey(ks, n, k) => IsArrayKey(ls, n, k)
           /\ \A n, k, o : IsInside(ms, n, k, o) => IsInside(ns, n, k, o)
           /\ \A s, o : MayBeIn(ks, ms, s, o) => MayBeIn(ls, ns, s, o)
           /\ \A key \in DOMAIN ms["array"] : ArrayEntryOK(ls, ns, key)
           /\ \A s \in AroundKinds : \A o \in DOMAIN ms[s] : AroundEntryOK(ls, ns, s, o)
           /\ \A c \in 1..Len(ks) : ClassEntryOK(ls, ns, c)
<1>1. Len(ks) \in Nat /\ Len(ls) \in Nat /\ Len(ks) <= Len(ls) /\ 1..Len(ks) \subseteq 1..Len(ls)
  BY DEF RegistryOK, WellMadeTypes, Extends
<1>2. \A c \in 1..Len(ks) : ls[c] = ks[c]
  BY DEF Extends
<1>3. \A y \in DOMAIN ms["array"] : y \in DOMAIN ns["array"] /\ ns["array"][y] = ms["array"][y]
  BY DEF MapsGrow, MadeKinds
<1>4. \A n, k : IsArrayKey(ks, n, k) => IsArrayKey(ls, n, k)
  BY <1>1 DEF IsArrayKey
<1>5. \A n, k, o : IsInside(ms, n, k, o) => IsInside(ns, n, k, o)
  BY <1>3 DEF IsInside
<1>6. \A o : IsFlat(ms, o) => IsFlat(ns, o)
  BY <1>3 DEF IsFlat
<1>7. \A s, o : MayBeIn(ks, ms, s, o) => MayBeIn(ls, ns, s, o)
  BY <1>1, <1>2, <1>6 DEF MayBeIn
<1>8. ASSUME NEW key \in DOMAIN ms["array"] PROVE ArrayEntryOK(ls, ns, key)
  <2>1. PICK n, k : /\ key = <<n, k>> /\ IsArrayKey(ks, n, k) /\ ms["array"][key] \in 1..Len(ks)
                    /\ ks[ms["array"][key]].special = "array" /\ IsInside(ms, n, k, ks[ms["array"][key]].of)
    BY DEF RegistryOK, MapsOK, ArrayEntryOK
  <2>2. PICK c : c = ms["array"][key]
    OBVIOUS
  <2>3. ns["array"][key] = c /\ c \in 1..Len(ls) /\ ls[c] = ks[c]
    BY <1>1, <1>2, <1>3, <2>1, <2>2
  <2>4. IsArrayKey(ls, n, k) /\ IsInside(ns, n, k, ls[c].of) /\ ls[c].special = "array"
    BY <1>4, <1>5, <2>1, <2>2, <2>3
  <2> QED
    BY <2>1, <2>3, <2>4 DEF ArrayEntryOK
<1>9. ASSUME NEW s \in AroundKinds, NEW o \in DOMAIN ms[s] PROVE AroundEntryOK(ls, ns, s, o)
  <2>1. AroundEntryOK(ks, ms, s, o)
    BY DEF RegistryOK, MapsOK
  <2>2. ns[s][o] = ms[s][o]
    BY DEF MapsGrow, MadeKinds, AroundKinds
  <2> QED
    BY <1>1, <1>2, <2>1, <2>2 DEF AroundEntryOK
<1>10. ASSUME NEW c \in 1..Len(ks) PROVE ClassEntryOK(ls, ns, c)
  <2>1. ClassEntryOK(ks, ms, c) /\ ls[c] = ks[c] /\ ks[c].special \in MadeKinds
    BY <1>2, MadeTypes DEF RegistryOK, MapsOK
  <2>2. CASE ks[c].special = "array"
    BY <1>3, <2>1, <2>2 DEF ClassEntryOK
  <2>3. CASE ks[c].special # "array"
    <3>1. /\ ks[c].of \in DOMAIN ms[ks[c].special] /\ ms[ks[c].special][ks[c].of] = c
          /\ MayBeIn(ks, ms, ks[c].special, ks[c].of)
      BY <2>1, <2>3 DEF ClassEntryOK
    <3>2. ks[c].of \in DOMAIN ns[ks[c].special] /\ ns[ks[c].special][ks[c].of] = c
      BY <2>1, <3>1 DEF MapsGrow
    <3> QED
      BY <1>7, <2>1, <2>3, <3>1, <3>2 DEF ClassEntryOK
  <2> QED
    BY <2>2, <2>3
<1> QED
  BY <1>4, <1>5, <1>7, <1>8, <1>9, <1>10

\* What an operation that makes a class leaves.
NewClass(ks, s, o) == Append(ks, [special |-> s, of |-> o])
NewMaps(ms, s, key, c) == [ms EXCEPT ![s] = T!Extended(@, key, c)]

LEMMA OneMoreClass ==
    ASSUME NEW ks, WellMadeTypes(ks), NEW s \in MadeKinds, NEW o \in T!Source \cup 1..Len(ks),
           NEW ls, ls = NewClass(ks, s, o)
    PROVE  /\ WellMadeTypes(ls) /\ Extends(ks, ls) /\ Len(ls) = Len(ks) + 1
           /\ ls[Len(ks) + 1].special = s /\ ls[Len(ks) + 1].of = o
<1>1. ks \in Seq(MadeClasses) /\ Len(ks) \in Nat
  BY DEF WellMadeTypes
<1>2. PICK k : k = [special |-> s, of |-> o]
  OBVIOUS
<1>3. k \in MadeClasses /\ k.special = s /\ k.of = o /\ ls = Append(ks, k)
  BY <1>1, <1>2 DEF MadeClasses, PlainNames, NewClass
<1>4. /\ ls \in Seq(MadeClasses) /\ Len(ls) = Len(ks) + 1 /\ ls[Len(ks) + 1] = k
      /\ \A c \in 1..Len(ks) : ls[c] = ks[c]
  BY <1>1, <1>3, AppendProperties
<1>5. ASSUME NEW c \in 1..Len(ls) PROVE ls[c].of \in T!Source \cup 1..(c - 1)
  <2>1. CASE c \in 1..Len(ks)
    BY <1>4, <2>1 DEF WellMadeTypes
  <2>2. CASE c = Len(ks) + 1
    <3>1. ls[c].of = o /\ c - 1 = Len(ks)
      BY <1>1, <1>3, <1>4, <2>2
    <3> QED
      BY <3>1
  <2> QED
    BY <1>1, <1>4, <2>1, <2>2
<1>6. WellMadeTypes(ls)
  BY <1>4, <1>5 DEF WellMadeTypes
<1>7. Extends(ks, ls)
  BY <1>1, <1>4 DEF Extends
<1> QED
  BY <1>3, <1>4, <1>6, <1>7

LEMMA OneMoreEntry ==
    ASSUME NEW ms, ms = [s \in MadeKinds |-> ms[s]], NEW t \in MadeKinds, NEW key, key \notin DOMAIN ms[t], NEW c,
           NEW ns, ns = NewMaps(ms, t, key, c)
    PROVE  /\ ns = [s \in MadeKinds |-> ns[s]] /\ MapsGrow(ms, ns)
           /\ DOMAIN ns[t] = DOMAIN ms[t] \cup {key} /\ ns[t][key] = c
           /\ \A s \in MadeKinds : s # t => ns[s] = ms[s]
<1>1. PICK f : f = T!Extended(ms[t], key, c)
  OBVIOUS
<1>2. /\ DOMAIN f = DOMAIN ms[t] \cup {key} /\ f[key] = c
      /\ \A y \in DOMAIN ms[t] : f[y] = ms[t][y]
  BY <1>1 DEF T!Extended
<1>3. ns[t] = f /\ (\A s \in MadeKinds : s # t => ns[s] = ms[s]) /\ ns = [s \in MadeKinds |-> ns[s]]
  BY <1>1 DEF NewMaps
<1>4. MapsGrow(ms, ns)
  BY <1>2, <1>3 DEF MapsGrow
<1> QED
  BY <1>2, <1>3, <1>4

LEMMA MappedFound ==
    ASSUME NEW ks, NEW ms, NEW x, NEW s, NEW key, NEW o, key \in DOMAIN ms[s],
           NEW r, r = T!Mapped(T!Registry(ks, ms, x), s, key, o)
    PROVE  /\ r.klasses = ks /\ r.maps = ms /\ r.class = ms[s][key]
           /\ r = T!Registry(r.klasses, r.maps, r.class)
<1>1. PICK q : q = T!Registry(ks, ms, x)
  OBVIOUS
<1>2. q = [klasses |-> ks, maps |-> ms, class |-> x]
  BY <1>1 DEF T!Registry
<1>3. q.klasses = ks /\ q.maps = ms
  BY <1>2
<1>4. r = [q EXCEPT !.class = ms[s][key]]
  BY <1>1, <1>3 DEF T!Mapped
<1> QED
  BY <1>2, <1>4 DEF T!Registry

LEMMA MappedAdded ==
    ASSUME NEW ks, NEW ms, NEW x, NEW s, NEW key, NEW o, key \notin DOMAIN ms[s],
           NEW r, r = T!Mapped(T!Registry(ks, ms, x), s, key, o)
    PROVE  /\ r.klasses = NewClass(ks, s, o) /\ r.class = Len(ks) + 1
           /\ r.maps = NewMaps(ms, s, key, Len(ks) + 1)
           /\ r = T!Registry(r.klasses, r.maps, r.class)
<1>1. PICK q : q = T!Registry(ks, ms, x)
  OBVIOUS
<1>2. q = [klasses |-> ks, maps |-> ms, class |-> x]
  BY <1>1 DEF T!Registry
<1>3. q.klasses = ks /\ q.maps = ms
  BY <1>2
<1>4. r = T!Registry(NewClass(ks, s, o), NewMaps(ms, s, key, Len(ks) + 1), Len(ks) + 1)
  BY <1>1, <1>3, Zenon DEF T!Mapped, NewClass, NewMaps
<1> QED
  BY <1>4 DEF T!Registry

\* A class found in a map, or made and entered there.
MadeWell(ks, ms, r) ==
    /\ RegistryOK(r.klasses, r.maps) /\ Extends(ks, r.klasses) /\ MapsGrow(ms, r.maps)
    /\ r.class \in T!Source \cup 1..Len(r.klasses)
    /\ r = T!Registry(r.klasses, r.maps, r.class)

LEMMA MappedWell ==
    ASSUME NEW ks, NEW ms, RegistryOK(ks, ms), NEW x, NEW s \in MadeKinds, NEW key,
           NEW o \in T!Source \cup 1..Len(ks), KeyFits(ks, ms, s, key, o),
           NEW r, r = T!Mapped(T!Registry(ks, ms, x), s, key, o)
    PROVE  /\ MadeWell(ks, ms, r) /\ r.class \in 1..Len(r.klasses)
           /\ key \in DOMAIN r.maps[s] /\ r.maps[s][key] = r.class
<1>0. WellMadeTypes(ks) /\ MapsOK(ks, ms)
  BY DEF RegistryOK
<1>1. CASE key \in DOMAIN ms[s]
  <2>1. /\ r.klasses = ks /\ r.maps = ms /\ r.class = ms[s][key]
        /\ r = T!Registry(r.klasses, r.maps, r.class)
    BY <1>1, MappedFound
  <2>2. ms[s][key] \in 1..Len(ks)
    <3>1. CASE s = "array"
      BY <1>0, <1>1, <3>1 DEF MapsOK, ArrayEntryOK
    <3>2. CASE s \in AroundKinds
      BY <1>0, <1>1, <3>2 DEF MapsOK, AroundEntryOK
    <3> QED
      BY <3>1, <3>2 DEF MadeKinds, AroundKinds
  <2>3. Extends(ks, ks) /\ MapsGrow(ms, ms)
    BY <1>0 DEF Extends, MapsGrow, WellMadeTypes
  <2> QED
    BY <1>1, <2>1, <2>2, <2>3 DEF MadeWell
<1>2. CASE key \notin DOMAIN ms[s]
  <2>2. PICK ls, ns, c : ls = r.klasses /\ ns = r.maps /\ c = r.class
    OBVIOUS
  <2>3. ls = NewClass(ks, s, o) /\ c = Len(ks) + 1 /\ ns = NewMaps(ms, s, key, c)
        /\ r = T!Registry(r.klasses, r.maps, r.class)
    BY <1>2, <2>2, MappedAdded
  <2>4. /\ WellMadeTypes(ls) /\ Extends(ks, ls) /\ Len(ls) = Len(ks) + 1
        /\ ls[c].special = s /\ ls[c].of = o
    BY <1>0, <2>3, OneMoreClass
  <2>5. Len(ks) \in Nat /\ c \in 1..Len(ls) /\ ls[c].special = s /\ ls[c].of = o
    BY <1>0, <2>3, <2>4 DEF WellMadeTypes
  <2>6. /\ ns = [t \in MadeKinds |-> ns[t]] /\ MapsGrow(ms, ns)
        /\ DOMAIN ns[s] = DOMAIN ms[s] \cup {key} /\ ns[s][key] = c
        /\ \A t \in MadeKinds : t # s => ns[t] = ms[t]
    <3>1. ms = [t \in MadeKinds |-> ms[t]]
      BY <1>0 DEF MapsOK
    <3> QED
      BY <3>1, <1>2, <2>3, OneMoreEntry
  <2>7. /\ \A a, b : IsArrayKey(ks, a, b) => IsArrayKey(ls, a, b)
        /\ \A a, b, d : IsInside(ms, a, b, d) => IsInside(ns, a, b, d)
        /\ \A t, d : MayBeIn(ks, ms, t, d) => MayBeIn(ls, ns, t, d)
        /\ \A y \in DOMAIN ms["array"] : ArrayEntryOK(ls, ns, y)
        /\ \A t \in AroundKinds : \A d \in DOMAIN ms[t] : AroundEntryOK(ls, ns, t, d)
        /\ \A d \in 1..Len(ks) : ClassEntryOK(ls, ns, d)
    BY <2>4, <2>6, EntriesStay
  <2>8. ASSUME NEW y \in DOMAIN ns["array"] PROVE ArrayEntryOK(ls, ns, y)
    <3>1. CASE y \in DOMAIN ms["array"]
      BY <2>7, <3>1
    <3>2. CASE y \notin DOMAIN ms["array"]
      <4>1. s = "array" /\ y = key
        BY <2>6, <2>8, <3>2 DEF MadeKinds
      <4>2. PICK a, b : key = <<a, b>> /\ IsArrayKey(ks, a, b) /\ IsInside(ms, a, b, o)
        BY <4>1 DEF KeyFits, AroundKinds
      <4>3. IsArrayKey(ls, a, b) /\ IsInside(ns, a, b, o)
        BY <2>7, <4>2
      <4> QED
        BY <2>5, <2>6, <4>1, <4>2, <4>3 DEF ArrayEntryOK
    <3> QED
      BY <3>1, <3>2
  <2>9. ASSUME NEW t \in AroundKinds, NEW d \in DOMAIN ns[t] PROVE AroundEntryOK(ls, ns, t, d)
    <3>0. t \in MadeKinds /\ t # "array"
      BY DEF AroundKinds, MadeKinds
    <3>1. CASE d \in DOMAIN ms[t]
      BY <2>7, <3>1
    <3>2. CASE d \notin DOMAIN ms[t]
      <4>1. s = t /\ d = key
        BY <2>6, <2>9, <3>0, <3>2
      <4>2. key = o
        BY <3>0, <4>1 DEF KeyFits
      <4> QED
        BY <2>5, <2>6, <4>1, <4>2 DEF AroundEntryOK
    <3> QED
      BY <3>1, <3>2
  <2>10. ASSUME NEW d \in 1..Len(ls) PROVE ClassEntryOK(ls, ns, d)
    <3>1. CASE d \in 1..Len(ks)
      BY <2>7, <3>1
    <3>2. CASE d = c
      <4>1. CASE s = "array"
        BY <2>5, <2>6, <3>2, <4>1 DEF ClassEntryOK
      <4>2. CASE s # "array"
        <5>1. key = o /\ MayBeIn(ls, ns, s, o)
          BY <2>7, <4>2 DEF KeyFits
        <5> QED
          BY <2>5, <2>6, <3>2, <4>2, <5>1 DEF ClassEntryOK
      <4> QED
        BY <4>1, <4>2
    <3> QED
      BY <2>3, <2>4, <2>5, <3>1, <3>2
  <2>11. MapsOK(ls, ns)
    BY <2>6, <2>8, <2>9, <2>10 DEF MapsOK
  <2> QED
    BY <2>2, <2>3, <2>4, <2>5, <2>6, <2>11 DEF MadeWell, RegistryOK
<1> QED
  BY <1>1, <1>2

\* Arrays of arrays, from the inside.
ArrayAt(ks, ms, n, R, k) ==
    IF k = 0 THEN T!Registry(ks, ms, n)
    ELSE IF <<n, k>> \in DOMAIN ms.array THEN T!Registry(ks, ms, ms.array[<<n, k>>])
    ELSE T!Mapped(R[k - 1], "array", <<n, k>>, R[k - 1].class)
IsArrayRun(R, ks, ms, n, l) == R = [k \in 0..l |-> ArrayAt(ks, ms, n, R, k)]

LEMMA ArrayRunExists == ASSUME NEW ks, NEW ms, NEW n, NEW l \in Nat PROVE \E R : IsArrayRun(R, ks, ms, n, l)
<1> DEFINE Bad == {k \in Nat : ~\E R : IsArrayRun(R, ks, ms, n, k)}
<1>1. CASE Bad = {}
  BY <1>1
<1>2. CASE Bad # {}
  <2>1. PICK k \in Bad : \A j \in Bad : k <= j
    BY <1>2, LeastNumber
  <2>2. CASE k = 0
    <3>1. PICK R : R = [i \in 0..0 |-> T!Registry(ks, ms, n)]
      OBVIOUS
    <3>2. \A i \in 0..0 : ArrayAt(ks, ms, n, R, i) = T!Registry(ks, ms, n)
      BY DEF ArrayAt
    <3>3. IsArrayRun(R, ks, ms, n, 0)
      BY <3>1, <3>2 DEF IsArrayRun
    <3> QED
      BY <2>1, <2>2, <3>3
  <2>3. CASE k # 0
    <3>1. k - 1 \in Nat /\ k - 1 \notin Bad /\ k \in Nat
      BY <2>1, <2>3
    <3>2. PICK R : IsArrayRun(R, ks, ms, n, k - 1)
      BY <3>1
    <3>3. \A i \in 0..(k - 1) : R[i] = ArrayAt(ks, ms, n, R, i)
      BY <3>2, Zenon DEF IsArrayRun
    <3>4. PICK B : B = [i \in 0..k |-> IF i = k THEN ArrayAt(ks, ms, n, R, k) ELSE R[i]]
      OBVIOUS
    <3>5. ASSUME NEW i \in 0..k PROVE B[i] = ArrayAt(ks, ms, n, B, i)
      <4>1. CASE i = 0
        <5>1. B[i] = R[i] /\ i \in 0..(k - 1)
          BY <2>3, <3>1, <3>4, <4>1
        <5> QED
          BY <3>3, <4>1, <5>1 DEF ArrayAt
      <4>2. CASE i # 0
        <5>1. B[i - 1] = R[i - 1] /\ B[i] = IF i = k THEN ArrayAt(ks, ms, n, R, k) ELSE R[i]
          BY <3>1, <3>4, <4>2
        <5>2. i # k => i \in 0..(k - 1)
          BY <3>1
        <5>3. B[i] = ArrayAt(ks, ms, n, R, i)
          BY <3>3, <5>1, <5>2
        <5> QED
          BY <4>2, <5>1, <5>3 DEF ArrayAt
      <4> QED
        BY <4>1, <4>2
    <3>6. B = [i \in 0..k |-> B[i]]
      BY <3>4
    <3>7. IsArrayRun(B, ks, ms, n, k)
      BY <3>5, <3>6 DEF IsArrayRun
    <3> QED
      BY <2>1, <3>7
  <2> QED
    BY <2>2, <2>3
<1> QED
  BY <1>1, <1>2

LEMMA ArrayIsRun ==
    ASSUME NEW n, NEW l \in Nat
    PROVE  \E R : IsArrayRun(R, klasses, maps, n, l) /\ T!Array(n, l) = R[l]
<1> DEFINE B == CHOOSE x : IsArrayRun(x, klasses, maps, n, l)
<1>1. IsArrayRun(B, klasses, maps, n, l)
  BY ArrayRunExists, Zenon
<1>2. T!Array(n, l) = B[l]
  BY Zenon DEF T!Array, IsArrayRun, ArrayAt
<1> QED
  BY <1>1, <1>2

LEMMA MadeWellTwice ==
    ASSUME NEW ks, NEW ms, NEW q, MadeWell(ks, ms, q), NEW r, MadeWell(q.klasses, q.maps, r),
           Len(ks) \in Nat
    PROVE  MadeWell(ks, ms, r)
<1>1. PICK ls, ns : ls = r.klasses /\ ns = r.maps
  OBVIOUS
<1>2. PICK hs, gs : hs = q.klasses /\ gs = q.maps
  OBVIOUS
<1>3. Extends(ks, hs) /\ Extends(hs, ls) /\ MapsGrow(ms, gs) /\ MapsGrow(gs, ns) /\ Len(hs) \in Nat /\ Len(ls) \in Nat
  BY <1>1, <1>2 DEF MadeWell, RegistryOK, WellMadeTypes
<1>4. Extends(ks, ls)
  BY <1>3 DEF Extends
<1>5. MapsGrow(ms, ns)
  BY <1>3 DEF MapsGrow
<1> QED
  BY <1>1, <1>4, <1>5 DEF MadeWell

LEMMA ArrayKeys ==
    ASSUME NEW ks, NEW ms, RegistryOK(ks, ms), NEW n, NEW k, <<n, k>> \in DOMAIN ms["array"],
           NEW c, c = ms["array"][<<n, k>>]
    PROVE  /\ IsArrayKey(ks, n, k) /\ c \in 1..Len(ks) /\ ks[c].special = "array"
           /\ IsInside(ms, n, k, ks[c].of)
<1>1. PICK m, l : /\ <<n, k>> = <<m, l>> /\ IsArrayKey(ks, m, l) /\ c \in 1..Len(ks)
                  /\ ks[c].special = "array" /\ IsInside(ms, m, l, ks[c].of)
  BY DEF RegistryOK, MapsOK, ArrayEntryOK
<1> QED
  BY <1>1

LEMMA NothingMadeIsWell ==
    ASSUME NEW ks, NEW ms, RegistryOK(ks, ms), NEW c \in T!Source \cup 1..Len(ks)
    PROVE  LET r == T!Registry(ks, ms, c)
           IN  MadeWell(ks, ms, r) /\ r.klasses = ks /\ r.maps = ms /\ r.class = c
<1>1. PICK r : r = T!Registry(ks, ms, c)
  OBVIOUS
<1>2. r.klasses = ks /\ r.maps = ms /\ r.class = c
  BY <1>1 DEF T!Registry
<1>3. Extends(ks, ks) /\ MapsGrow(ms, ms)
  BY DEF Extends, MapsGrow, RegistryOK, WellMadeTypes
<1>4. MadeWell(ks, ms, r)
  BY <1>1, <1>2, <1>3 DEF MadeWell
<1> QED
  BY <1>1, <1>2, <1>4

ArrayIsMade(ks, ms, n, k, r) ==
    /\ MadeWell(ks, ms, r)
    /\ IF k = 0 THEN r.class = n
       ELSE <<n, k>> \in DOMAIN r.maps["array"] /\ r.maps["array"][<<n, k>>] = r.class

LEMMA ArrayWell ==
    ASSUME NEW ks, NEW ms, RegistryOK(ks, ms), NEW n \in T!Source \cup 1..Len(ks), NEW l \in Nat,
           n \in T!Source \/ l <= 1, NEW R, IsArrayRun(R, ks, ms, n, l)
    PROVE  ArrayIsMade(ks, ms, n, l, R[l])
<1> DEFINE Bad == {k \in 0..l : ~ArrayIsMade(ks, ms, n, k, R[k])}
<1>1. \A k \in 0..l : R[k] = ArrayAt(ks, ms, n, R, k)
  BY Zenon DEF IsArrayRun
<1>2. CASE Bad = {}
  BY <1>2
<1>3. CASE Bad # {}
  <2>0. Bad \subseteq Nat /\ Bad \subseteq 0..l
    OBVIOUS
  <2>1. PICK k \in Bad : \A j \in Bad : k <= j
    <3> HIDE DEF Bad
    <3> QED
      BY <1>3, <2>0, LeastNumber
  <2>2. CASE k = 0
    <3>1. R[k] = T!Registry(ks, ms, n)
      BY <1>1, <2>1, <2>2 DEF ArrayAt
    <3> QED
      BY <2>1, <2>2, <3>1, NothingMadeIsWell DEF ArrayIsMade
  <2>3. CASE k # 0 /\ <<n, k>> \in DOMAIN ms.array
    <3>1. PICK c : c = ms["array"][<<n, k>>]
      OBVIOUS
    <3>2. R[k] = T!Registry(ks, ms, c)
      BY <1>1, <2>1, <2>3, <3>1 DEF ArrayAt
    <3>3. c \in 1..Len(ks)
      BY <2>3, <3>1, ArrayKeys
    <3> QED
      BY <2>1, <2>3, <3>1, <3>2, <3>3, NothingMadeIsWell DEF ArrayIsMade
  <2>4. CASE k # 0 /\ <<n, k>> \notin DOMAIN ms.array
    <3>1. k \in Nat /\ k \in 0..l /\ k - 1 \in 0..l /\ ~(k <= k - 1)
      BY <2>0, <2>1, <2>4
    <3>2. k - 1 \notin Bad
      <4> HIDE DEF Bad
      <4> QED
        BY <2>1, <3>1
    <3>3. PICK q : q = R[k - 1]
      OBVIOUS
    <3>4. ArrayIsMade(ks, ms, n, k - 1, q)
      BY <3>1, <3>2, <3>3
    <3>5. MadeWell(ks, ms, q) /\ RegistryOK(q.klasses, q.maps) /\ q = T!Registry(q.klasses, q.maps, q.class)
          /\ q.class \in T!Source \cup 1..Len(q.klasses) /\ Extends(ks, q.klasses)
      BY <3>4 DEF ArrayIsMade, MadeWell
    <3>6. PICK r : r = R[k]
      OBVIOUS
    <3>7. r = T!Mapped(T!Registry(q.klasses, q.maps, q.class), "array", <<n, k>>, q.class)
      BY <1>1, <2>4, <3>1, <3>3, <3>5, <3>6, Zenon DEF ArrayAt
    <3>8. IsArrayKey(q.klasses, n, k)
      BY <2>4, <3>1, <3>5 DEF IsArrayKey, Extends, RegistryOK, WellMadeTypes
    <3>9. IsInside(q.maps, n, k, q.class)
      BY <3>1, <3>4 DEF IsInside, ArrayIsMade
    <3>10. KeyFits(q.klasses, q.maps, "array", <<n, k>>, q.class) /\ "array" \in MadeKinds
      BY <3>8, <3>9 DEF KeyFits, MadeKinds
    <3>11. /\ MadeWell(q.klasses, q.maps, r)
           /\ <<n, k>> \in DOMAIN r.maps["array"] /\ r.maps["array"][<<n, k>>] = r.class
      BY <3>5, <3>7, <3>10, MappedWell
    <3>12. MadeWell(ks, ms, r)
      BY <3>5, <3>11, MadeWellTwice DEF RegistryOK, WellMadeTypes
    <3> QED
      BY <2>1, <2>4, <3>6, <3>11, <3>12 DEF ArrayIsMade
  <2> QED
    BY <2>2, <2>3, <2>4
<1> QED
  BY <1>2, <1>3

\* Brackets around a name.
Brackets(k) == [i \in 1..k |-> "array"]
Tower(k, n) == Brackets(k) \o <<n>>

LEMMA BracketsAre == ASSUME NEW k \in Nat PROVE Brackets(k) \in Seq(TypeWords) /\ Len(Brackets(k)) = k
  BY DEF Brackets, TypeWords, MadeKinds

LEMMA TowersAre ==
    ASSUME NEW n \in PlainNames, NEW k \in Nat
    PROVE  /\ Tower(k, n) \in Seq(TypeWords) /\ Len(Tower(k, n)) = k + 1
           /\ \A i \in 1..k : Tower(k, n)[i] = "array"
           /\ Tower(k, n)[k + 1] = n
<1>1. PICK b, v : b = Brackets(k) /\ v = <<n>>
  OBVIOUS
<1>2. b \in Seq(TypeWords) /\ Len(b) = k /\ \A i \in 1..k : b[i] = "array"
  BY <1>1, BracketsAre DEF Brackets
<1>3. v \in Seq(TypeWords) /\ Len(v) = 1 /\ v[1] = n
  BY <1>1 DEF TypeWords
<1>04. b \o v \in Seq(TypeWords) /\ Len(b \o v) = Len(b) + Len(v)
      /\ \A i \in 1..Len(b) + Len(v) : (b \o v)[i] = IF i <= Len(b) THEN b[i] ELSE v[i - Len(b)]
  BY <1>2, <1>3, ConcatProperties
<1>4. b \o v \in Seq(TypeWords) /\ Len(b \o v) = k + 1
      /\ \A i \in 1..(k + 1) : (b \o v)[i] = IF i <= k THEN b[i] ELSE v[i - k]
  BY <1>2, <1>3, <1>04
<1>5. \A i \in 1..k : (b \o v)[i] = "array"
  BY <1>2, <1>4
<1>6. (b \o v)[k + 1] = n
  <2>1. k + 1 \in 1..(k + 1) /\ ~(k + 1 <= k) /\ k + 1 - k = 1
    OBVIOUS
  <2> QED
    BY <1>3, <1>4, <2>1
<1> QED
  BY <1>1, <1>4, <1>5, <1>6 DEF Tower

LEMMA TowersDiffer ==
    ASSUME NEW n \in PlainNames, NEW k \in Nat, NEW m \in PlainNames, NEW l \in Nat, Tower(k, n) = Tower(l, m)
    PROVE  k = l /\ n = m
<1>1. k + 1 = l + 1
  BY TowersAre
<1>2. k = l
  BY <1>1
<1>3. Tower(k, n)[k + 1] = n /\ Tower(l, m)[l + 1] = m
  BY TowersAre
<1> QED
  BY <1>2, <1>3

LEMMA TowerGround == ASSUME NEW n \in PlainNames PROVE Tower(0, n) = <<n>>
<1>1. /\ Tower(0, n) \in Seq(TypeWords) /\ Len(Tower(0, n)) = 1 /\ Tower(0, n)[1] = n
  <2>1. 0 + 1 = 1 /\ 0 \in Nat
    OBVIOUS
  <2> QED
    BY <2>1, TowersAre
<1>2. <<n>> \in Seq(TypeWords) /\ Len(<<n>>) = 1 /\ <<n>>[1] = n
  BY DEF TypeWords
<1>3. \A i \in 1..Len(<<n>>) : Tower(0, n)[i] = <<n>>[i]
  BY <1>1, <1>2
<1> QED
  BY <1>1, <1>2, <1>3, SeqEqual

LEMMA TowerGrows ==
    ASSUME NEW n \in PlainNames, NEW k \in Nat PROVE Tower(k + 1, n) = <<"array">> \o Tower(k, n)
<1>1. PICK t, u, v : t = Tower(k, n) /\ u = Tower(k + 1, n) /\ v = <<"array">> \o t
  OBVIOUS
<1>2. k + 1 \in Nat /\ "array" \in TypeWords
  BY DEF TypeWords, MadeKinds
<1>3. /\ t \in Seq(TypeWords) /\ Len(t) = k + 1 /\ (\A i \in 1..k : t[i] = "array") /\ t[k + 1] = n
  BY <1>1, TowersAre
<1>4. /\ u \in Seq(TypeWords) /\ Len(u) = k + 2 /\ (\A i \in 1..(k + 1) : u[i] = "array") /\ u[k + 2] = n
  <2>1. k + 1 + 1 = k + 2
    OBVIOUS
  <2> QED
    BY <1>1, <1>2, <2>1, TowersAre
<1>5. /\ v \in Seq(TypeWords) /\ Len(v) = k + 2 /\ v[1] = "array" /\ \A i \in 1..(k + 1) : v[i + 1] = t[i]
  <2>1. /\ v \in Seq(TypeWords) /\ Len(v) = Len(t) + 1 /\ v[1] = "array" /\ \A i \in 1..Len(t) : v[i + 1] = t[i]
    BY <1>1, <1>2, <1>3, PutInFront
  <2> QED
    BY <1>3, <2>1
<1>6. ASSUME NEW i \in 1..(k + 2) PROVE u[i] = v[i]
  <2>1. CASE i = 1
    BY <1>4, <1>5, <2>1
  <2>2. CASE i = k + 2
    <3>1. k + 1 \in 1..(k + 1) /\ k + 1 + 1 = k + 2
      OBVIOUS
    <3>2. v[k + 2] = t[k + 1]
      BY <1>5, <3>1
    <3> QED
      BY <1>3, <1>4, <2>2, <3>2
  <2>3. CASE i # 1 /\ i # k + 2
    <3>1. i - 1 \in 1..(k + 1) /\ i - 1 + 1 = i /\ i - 1 \in 1..k /\ i \in 1..(k + 1)
      BY <2>3
    <3>2. v[i] = t[i - 1]
      BY <1>5, <3>1
    <3> QED
      BY <1>3, <1>4, <3>1, <3>2
  <2> QED
    BY <2>1, <2>2, <2>3
<1>7. u = v
  BY <1>4, <1>5, <1>6, SeqEqual
<1> QED
  BY <1>1, <1>7

\* The name of an array class is that of what is in its brackets, with the brackets.
LEMMA ArrayName ==
    ASSUME NEW ks, NEW ms, RegistryOK(ks, ms), NEW n \in T!Source, NEW k \in Nat \ {0},
           <<n, k>> \in DOMAIN ms["array"]
    PROVE  MeaningOf(ks)[ms["array"][<<n, k>>]] = Tower(k, n)
<1> DEFINE Bad == {l \in Nat \ {0} : /\ <<n, l>> \in DOMAIN ms["array"]
                                     /\ MeaningOf(ks)[ms["array"][<<n, l>>]] # Tower(l, n)}
<1>0. n \in PlainNames /\ Bad \subseteq Nat /\ WellMadeTypes(ks)
  BY DEF PlainNames, RegistryOK
<1>1. ASSUME Bad # {} PROVE FALSE
  <2>1. PICK l \in Bad : \A j \in Bad : l <= j
    <3> HIDE DEF Bad
    <3> QED
      BY <1>0, <1>1, LeastNumber
  <2>2. l \in Nat \ {0} /\ <<n, l>> \in DOMAIN ms["array"]
    OBVIOUS
  <2>3. PICK c : c = ms["array"][<<n, l>>]
    OBVIOUS
  <2>4. c \in 1..Len(ks) /\ ks[c].special = "array" /\ IsInside(ms, n, l, ks[c].of)
    BY <2>2, <2>3, ArrayKeys
  <2>5. MeaningOf(ks)[c] = <<"array">> \o MeaningOf(ks)[ks[c].of]
    BY <1>0, <2>4, MadeMeaning
  <2>6. MeaningOf(ks)[ks[c].of] = Tower(l - 1, n)
    <3>1. CASE l = 1
      <4>1. ks[c].of = n /\ l - 1 = 0
        BY <2>4, <3>1 DEF IsInside
      <4> QED
        BY <1>0, <4>1, PlainMeaning, TowerGround
    <3>2. CASE l # 1
      <4>1. /\ <<n, l - 1>> \in DOMAIN ms["array"] /\ ks[c].of = ms["array"][<<n, l - 1>>]
        BY <2>4, <3>2 DEF IsInside
      <4>2. l - 1 \in Nat \ {0} /\ ~(l <= l - 1)
        BY <2>2, <3>2
      <4>3. l - 1 \notin Bad
        <5> HIDE DEF Bad
        <5> QED
          BY <2>1, <4>2
      <4> QED
        BY <4>1, <4>2, <4>3
    <3> QED
      BY <3>1, <3>2
  <2>7. Tower(l, n) = <<"array">> \o Tower(l - 1, n)
    <3>1. l - 1 \in Nat /\ l - 1 + 1 = l
      BY <2>2
    <3> QED
      BY <1>0, <3>1, TowerGrows
  <2> QED
    BY <2>3, <2>5, <2>6, <2>7
<1> QED
  BY <1>1

\* Classes of the source with brackets, and what is made of them once, have one name each.
LEMMA FlatName ==
    ASSUME NEW ks, NEW ms, RegistryOK(ks, ms), NEW o, IsFlat(ms, o)
    PROVE  \E n \in T!Source, k \in Nat : /\ MeaningOf(ks)[o] = Tower(k, n)
                                          /\ IF k = 0 THEN o = n ELSE o = ms["array"][<<n, k>>]
<1>0. T!Source \subseteq PlainNames /\ WellMadeTypes(ks) /\ 0 \in Nat
  BY DEF PlainNames, RegistryOK
<1>1. CASE o \in T!Source
  <2>1. MeaningOf(ks)[o] = Tower(0, o)
    BY <1>0, <1>1, PlainMeaning, TowerGround
  <2> QED
    BY <1>0, <1>1, <2>1
<1>2. CASE o \notin T!Source
  <2>1. PICK n \in T!Source, k \in Nat \ {0} : <<n, k>> \in DOMAIN ms["array"] /\ ms["array"][<<n, k>>] = o
    BY <1>2 DEF IsFlat
  <2>2. MeaningOf(ks)[o] = Tower(k, n)
    BY <2>1, ArrayName
  <2> QED
    BY <2>1, <2>2
<1> QED
  BY <1>1, <1>2

LEMMA FlatNamesDiffer ==
    ASSUME NEW ks, NEW ms, RegistryOK(ks, ms), NEW o, IsFlat(ms, o), NEW p, IsFlat(ms, p),
           MeaningOf(ks)[o] = MeaningOf(ks)[p]
    PROVE  o = p
<1>1. PICK n \in T!Source, k \in Nat : /\ MeaningOf(ks)[o] = Tower(k, n)
                                       /\ IF k = 0 THEN o = n ELSE o = ms["array"][<<n, k>>]
  BY FlatName
<1>2. PICK m \in T!Source, l \in Nat : /\ MeaningOf(ks)[p] = Tower(l, m)
                                       /\ IF l = 0 THEN p = m ELSE p = ms["array"][<<m, l>>]
  BY FlatName
<1>3. k = l /\ n = m
  BY <1>1, <1>2, TowersDiffer DEF PlainNames
<1> QED
  BY <1>1, <1>2, <1>3

LEMMA AroundsDiffer ==
    ASSUME NEW ks, NEW ms, RegistryOK(ks, ms), NEW c \in 1..Len(ks), NEW d \in 1..Len(ks),
           ks[c].special \in AroundKinds, ks[c].special = ks[d].special, ks[c].of = ks[d].of
    PROVE  c = d
<1>1. ClassEntryOK(ks, ms, c) /\ ClassEntryOK(ks, ms, d)
  BY DEF RegistryOK, MapsOK
<1>2. ks[c].special # "array" /\ ks[d].special # "array"
  BY DEF AroundKinds
<1> QED
  BY <1>1, <1>2 DEF ClassEntryOK

LEMMA FailablesDiffer ==
    ASSUME NEW ks, NEW ms, RegistryOK(ks, ms), NEW c \in 1..Len(ks), NEW d \in 1..Len(ks),
           MeaningOf(ks)[c] = MeaningOf(ks)[d], ks[c].special = "failable"
    PROVE  c = d
<1>0. WellMadeTypes(ks) /\ "failable" \in AroundKinds
  BY DEF RegistryOK, AroundKinds
<1>1. ks[c].special = ks[d].special /\ MeaningOf(ks)[ks[c].of] = MeaningOf(ks)[ks[d].of]
  BY <1>0, SameNameOfMade
<1>2. ClassEntryOK(ks, ms, c) /\ ClassEntryOK(ks, ms, d)
  BY DEF RegistryOK, MapsOK
<1>3. IsFlat(ms, ks[c].of) /\ IsFlat(ms, ks[d].of)
  BY <1>1, <1>2 DEF ClassEntryOK, MayBeIn
<1>4. ks[c].of = ks[d].of
  BY <1>1, <1>3, FlatNamesDiffer
<1> QED
  BY <1>0, <1>1, <1>4, AroundsDiffer

\* Two classes of one type are arrays of generated classes.
LEMMA TypesDiffer ==
    ASSUME NEW ks, NEW ms, RegistryOK(ks, ms), NEW c \in 1..Len(ks), NEW d \in 1..Len(ks), c # d,
           MeaningOf(ks)[c] = MeaningOf(ks)[d]
    PROVE  T!Twice(MeaningOf(ks)[c], MeaningOf(ks)[d])
<1>0. WellMadeTypes(ks) /\ T!Source \subseteq PlainNames
  BY DEF RegistryOK, PlainNames
<1>1. PICK s, o, p, M : s = ks[c].special /\ o = ks[c].of /\ p = ks[d].of /\ M = MeaningOf(ks)
  OBVIOUS
<1>2. ks[d].special = s /\ M[o] = M[p]
  BY <1>0, <1>1, SameNameOfMade
<1>3. /\ s \in MadeKinds /\ o \in T!Source \cup 1..(c - 1) /\ p \in T!Source \cup 1..(d - 1)
      /\ o \in PlainNames \cup 1..Len(ks) /\ p \in PlainNames \cup 1..Len(ks)
  BY <1>0, <1>1, MadeTypes
<1>4. ClassEntryOK(ks, ms, c) /\ ClassEntryOK(ks, ms, d)
  BY DEF RegistryOK, MapsOK
<1>5. ASSUME NEW n \in T!Source PROVE Len(M[n]) = 1 /\ M[n][1] = n /\ n \notin MadeKinds
  <2>1. M[n] = <<n>> /\ n \notin MadeKinds
    BY <1>0, <1>1, PlainMeaning, NamesAreNames
  <2> QED
    BY <2>1
<1>6. ASSUME NEW x \in 1..Len(ks) PROVE Len(M[x]) > 1 /\ Len(M[x]) # 1 /\ M[x][1] = ks[x].special
  <2>1. Len(M[x]) > 1 /\ M[x][1] = ks[x].special
    BY <1>0, <1>1, MadeName
  <2>2. M[x] \in Seq(TypeWords)
    BY <1>0, <1>1, MeaningsAreWords
  <2>3. PICK a : a = Len(M[x])
    OBVIOUS
  <2>4. a \in Nat /\ a > 1
    BY <2>1, <2>2, <2>3
  <2>5. a # 1
    BY <2>4
  <2> QED
    BY <2>1, <2>3, <2>5
<1>7. s # "failable"
  BY <1>1, FailablesDiffer
<1>8. s # "foreign"
  <2> SUFFICES ASSUME s = "foreign" PROVE FALSE
    OBVIOUS
  <2>1. o \in T!Source /\ p \in T!Source
    BY <1>1, <1>2, <1>4 DEF ClassEntryOK, MayBeIn
  <2>2. o = p
    BY <1>2, <1>5, <2>1
  <2> QED
    BY <1>1, <1>2, <2>2, AroundsDiffer DEF AroundKinds
<1>9. s # "boxed"
  <2> SUFFICES ASSUME s = "boxed" PROVE FALSE
    OBVIOUS
  <2>1. /\ o \in T!Source \/ (o \in 1..Len(ks) /\ ks[o].special = "failable")
        /\ p \in T!Source \/ (p \in 1..Len(ks) /\ ks[p].special = "failable")
    BY <1>1, <1>2, <1>4 DEF ClassEntryOK, MayBeIn
  <2>2. o = p
    <3>1. CASE o \in T!Source /\ p \in T!Source
      BY <1>2, <1>5, <3>1
    <3>2. CASE o \in 1..Len(ks) /\ ks[o].special = "failable" /\ p \in 1..Len(ks) /\ ks[p].special = "failable"
      BY <1>1, <1>2, <3>2, FailablesDiffer
    <3>3. CASE o \in T!Source /\ p \in 1..Len(ks)
      BY <1>2, <1>5, <1>6, <3>3
    <3>4. CASE p \in T!Source /\ o \in 1..Len(ks)
      BY <1>2, <1>5, <1>6, <3>4
    <3> QED
      BY <2>1, <3>1, <3>2, <3>3, <3>4
  <2> QED
    BY <1>1, <1>2, <2>2, AroundsDiffer DEF AroundKinds
<1>10. s = "array"
  BY <1>3, <1>7, <1>8, <1>9 DEF MadeKinds
<1>11. /\ M[c][1] = "array" /\ M[c][2] = M[o][1] /\ Len(M[c]) = Len(M[o]) + 1
       /\ M[d][2] = M[p][1] /\ Len(M[o]) \in Nat /\ Len(M[o]) > 0
  <2>1. M[o] \in Seq(TypeWords) /\ Len(M[o]) > 0
    BY <1>0, <1>1, <1>3, MeaningsAreWords
  <2>2. Len(M[o]) \in Nat
    BY <2>1
  <2> QED
    BY <1>0, <1>1, <1>10, <2>1, <2>2, MadeName
<1>12. PICK kc \in DOMAIN ms["array"] : ms["array"][kc] = c
  BY <1>1, <1>4, <1>10 DEF ClassEntryOK
<1>13. PICK kd \in DOMAIN ms["array"] : ms["array"][kd] = d
  BY <1>2, <1>4, <1>10 DEF ClassEntryOK
<1>14. PICK n, k : kc = <<n, k>> /\ IsArrayKey(ks, n, k) /\ IsInside(ms, n, k, o)
  BY <1>1, <1>12 DEF RegistryOK, MapsOK, ArrayEntryOK
<1>15. PICK m, l : kd = <<m, l>> /\ IsArrayKey(ks, m, l) /\ IsInside(ms, m, l, p)
  BY <1>1, <1>13 DEF RegistryOK, MapsOK, ArrayEntryOK
<1>16. kc # kd
  BY <1>12, <1>13
<1>17. k # 1 => o \in 1..Len(ks) /\ ks[o].special = "array"
  <2> SUFFICES ASSUME k # 1 PROVE o \in 1..Len(ks) /\ ks[o].special = "array"
    OBVIOUS
  <2>1. <<n, k - 1>> \in DOMAIN ms["array"] /\ o = ms["array"][<<n, k - 1>>]
    BY <1>14 DEF IsInside
  <2> QED
    BY <2>1, ArrayKeys
<1>18. l # 1 => p \in 1..Len(ks) /\ ks[p].special = "array"
  <2> SUFFICES ASSUME l # 1 PROVE p \in 1..Len(ks) /\ ks[p].special = "array"
    OBVIOUS
  <2>1. <<m, l - 1>> \in DOMAIN ms["array"] /\ p = ms["array"][<<m, l - 1>>]
    BY <1>15 DEF IsInside
  <2> QED
    BY <2>1, ArrayKeys
<1>19. (k = 1 => o = n) /\ (l = 1 => p = m)
  BY <1>14, <1>15 DEF IsInside
<1>20. ASSUME Len(M[o]) = 1 PROVE FALSE
  <2>1. o \notin 1..Len(ks) /\ p \notin 1..Len(ks)
    <3>1. Len(M[p]) = 1
      BY <1>2, <1>20
    <3> QED
      BY <1>6, <1>20, <3>1
  <2>2. o \in T!Source /\ p \in T!Source
    BY <2>1, <1>0, MadeTypes, <1>1
  <2>3. o = p
    BY <1>2, <1>5, <2>2
  <2> QED
    BY <1>14, <1>15, <1>16, <1>17, <1>18, <1>19, <2>1, <2>3
<1>21. ASSUME M[o][1] = "failable" PROVE FALSE
  <2>1. o \notin T!Source /\ p \notin T!Source
    BY <1>2, <1>5, <1>21 DEF MadeKinds
  <2>2. o \in 1..Len(ks) /\ p \in 1..Len(ks)
    BY <1>0, <1>1, <2>1, MadeTypes, <1>3
  <2>3. ks[o].special = "failable" /\ ks[p].special = "failable"
    BY <1>2, <1>6, <1>21, <2>2
  <2>4. o = p
    BY <1>1, <1>2, <2>2, <2>3, FailablesDiffer
  <2> QED
    BY <1>14, <1>15, <1>16, <1>17, <1>18, <1>19, <2>3, <2>4
<1>22. Len(M[c]) > 2
  <2>1. PICK a : a = Len(M[o])
    OBVIOUS
  <2>2. a # 1 /\ a \in Nat /\ a > 0 /\ Len(M[c]) = a + 1
    BY <1>11, <1>20, <2>1
  <2>3. a + 1 > 2
    BY <2>2
  <2> QED
    BY <2>2, <2>3
<1>23. M[c][2] # "failable"
  BY <1>11, <1>21
<1> QED
  BY <1>1, <1>11, <1>22, <1>23 DEF T!Twice

-----------------------------------------------------------------------------
\* References: of the source, or what an alias has become.
IsReference(ks, ref) ==
    /\ ref.kind \in {"normal", "failable", "foreign"} /\ ref.level \in Nat
    /\ ref.name \in T!Source \cup 1..Len(ks)
    /\ ref.name \notin T!Source => ref.kind = "normal" /\ ref.level = 0
    /\ ref.kind = "foreign" => ref.level = 0
InSource(ref) == IF ref.kind = "normal" THEN Tower(ref.level, ref.name)
                 ELSE <<ref.kind>> \o Tower(ref.level, ref.name)

LEMMA ArraysResolve ==
    ASSUME RegistryOK(klasses, maps), NEW n \in T!Source \cup 1..Len(klasses), NEW l \in Nat,
           n \in T!Source \/ l <= 1, NEW r, r = T!Array(n, l)
    PROVE  ArrayIsMade(klasses, maps, n, l, r)
<1>1. PICK R : IsArrayRun(R, klasses, maps, n, l) /\ r = R[l]
  BY ArrayIsRun
<1> QED
  BY <1>1, ArrayWell

LEMMA ArrayMeans ==
    ASSUME NEW ks, NEW ms, Len(ks) \in Nat, NEW n \in T!Source, NEW l \in Nat, NEW r, ArrayIsMade(ks, ms, n, l, r)
    PROVE  /\ MeaningOf(r.klasses)[r.class] = Tower(l, n)
           /\ IsFlat(r.maps, r.class) /\ (l = 0 => r.class \in T!Source)
<1>1. RegistryOK(r.klasses, r.maps) /\ WellMadeTypes(r.klasses) /\ n \in PlainNames
  BY DEF ArrayIsMade, MadeWell, RegistryOK, PlainNames
<1>2. CASE l = 0
  <2>1. r.class = n
    BY <1>2 DEF ArrayIsMade
  <2>2. MeaningOf(r.klasses)[n] = Tower(0, n)
    BY <1>1, PlainMeaning, TowerGround
  <2> QED
    BY <1>2, <2>1, <2>2 DEF IsFlat
<1>3. CASE l # 0
  <2>1. l \in Nat \ {0} /\ <<n, l>> \in DOMAIN r.maps["array"] /\ r.maps["array"][<<n, l>>] = r.class
    BY <1>3 DEF ArrayIsMade
  <2>2. MeaningOf(r.klasses)[r.class] = Tower(l, n)
    BY <1>1, <2>1, ArrayName
  <2> QED
    BY <1>3, <2>1, <2>2 DEF IsFlat
<1> QED
  BY <1>2, <1>3

LEMMA ReferencesResolve ==
    ASSUME RegistryOK(klasses, maps), NEW ref, IsReference(klasses, ref), NEW r, r = T!Resolve(ref)
    PROVE  /\ MadeWell(klasses, maps, r)
           /\ ref.name \in T!Source => MeaningOf(r.klasses)[r.class] = InSource(ref)
           /\ ref.name \notin T!Source => r.class = ref.name
<1>0. Len(klasses) \in Nat
  BY DEF RegistryOK, WellMadeTypes
<1>1. PICK q : q = T!Array(ref.name, ref.level)
  OBVIOUS
<1>2. ArrayIsMade(klasses, maps, ref.name, ref.level, q)
  <2>1. /\ ref.name \in T!Source \cup 1..Len(klasses) /\ ref.level \in Nat
        /\ ref.name \in T!Source \/ ref.level <= 1
    BY DEF IsReference
  <2> QED
    BY <1>1, <2>1, ArraysResolve
<1>3. MadeWell(klasses, maps, q)
  BY <1>2 DEF ArrayIsMade
<1>4. CASE ref.kind = "normal"
  <2>1. r = q
    BY <1>1, <1>4 DEF T!Resolve
  <2>2. ref.name \in T!Source => MeaningOf(r.klasses)[r.class] = InSource(ref)
    BY <1>0, <1>2, <1>4, <2>1, ArrayMeans DEF IsReference, InSource
  <2>3. ref.name \notin T!Source => r.class = ref.name
    BY <1>2, <2>1 DEF IsReference, ArrayIsMade
  <2> QED
    BY <1>3, <2>1, <2>2, <2>3
<1>5. CASE ref.kind # "normal"
  <2>1. ref.name \in T!Source /\ ref.kind \in {"failable", "foreign"} /\ ref.level \in Nat
    BY <1>5 DEF IsReference
  <2>2. PICK s : s = ref.kind
    OBVIOUS
  <2>3. r = T!Mapped(q, s, q.class, q.class)
    BY <1>1, <1>5, <2>2 DEF T!Resolve, T!Around
  <2>4. /\ RegistryOK(q.klasses, q.maps) /\ q = T!Registry(q.klasses, q.maps, q.class)
        /\ q.class \in T!Source \cup 1..Len(q.klasses)
    BY <1>3 DEF MadeWell
  <2>5. /\ MeaningOf(q.klasses)[q.class] = Tower(ref.level, ref.name)
        /\ IsFlat(q.maps, q.class) /\ (ref.level = 0 => q.class \in T!Source)
    BY <1>0, <1>2, <2>1, ArrayMeans
  <2>6. KeyFits(q.klasses, q.maps, s, q.class, q.class) /\ s \in MadeKinds /\ s # "array"
    BY <2>1, <2>2, <2>5 DEF KeyFits, MayBeIn, AroundKinds, IsReference, MadeKinds
  <2>7. r = T!Mapped(T!Registry(q.klasses, q.maps, q.class), s, q.class, q.class)
    BY <2>3, <2>4, Zenon
  <2>8. /\ MadeWell(q.klasses, q.maps, r) /\ r.class \in 1..Len(r.klasses)
        /\ q.class \in DOMAIN r.maps[s] /\ r.maps[s][q.class] = r.class
    BY <2>4, <2>6, <2>7, MappedWell
  <2>9. MadeWell(klasses, maps, r)
    BY <1>0, <1>3, <2>8, MadeWellTwice
  <2>10. /\ r.klasses[r.class].special = s /\ r.klasses[r.class].of = q.class
         /\ RegistryOK(r.klasses, r.maps) /\ WellMadeTypes(r.klasses) /\ Extends(q.klasses, r.klasses)
    <3>1. RegistryOK(r.klasses, r.maps) /\ Extends(q.klasses, r.klasses)
      BY <2>8 DEF MadeWell
    <3>2. s \in AroundKinds
      BY <2>1, <2>2 DEF AroundKinds
    <3>3. AroundEntryOK(r.klasses, r.maps, s, q.class)
      BY <2>8, <3>1, <3>2 DEF RegistryOK, MapsOK
    <3> QED
      BY <2>8, <3>1, <3>3 DEF AroundEntryOK, RegistryOK
  <2>11. MeaningOf(r.klasses)[r.class] = <<s>> \o MeaningOf(r.klasses)[q.class]
    <3>1. MeaningOf(r.klasses)[r.class]
             = <<r.klasses[r.class].special>> \o MeaningOf(r.klasses)[r.klasses[r.class].of]
      BY <2>8, <2>10, MadeMeaning
    <3> QED
      BY <2>10, <3>1
  <2>12. MeaningOf(r.klasses)[q.class] = MeaningOf(q.klasses)[q.class]
    BY <2>4, <2>10, NamesStay DEF RegistryOK, PlainNames
  <2> QED
    BY <1>5, <2>1, <2>2, <2>5, <2>9, <2>11, <2>12 DEF InSource
<1> QED
  BY <1>4, <1>5

\* What a reference means, as the model writes it.
LEMMA WrapsAre ==
    ASSUME NEW ref, ref.kind \in {"normal", "failable", "foreign"}, ref.level \in Nat,
           ref.name \in PlainNames
    PROVE  T!Wrap(ref, <<ref.name>>) = InSource(ref)
<1>1. PICK b, v, w : b = Brackets(ref.level) /\ v = <<ref.name>> /\ w = <<ref.kind>>
  OBVIOUS
<1>2. b \in Seq(TypeWords) /\ v \in Seq(TypeWords) /\ w \in Seq(TypeWords \cup {"normal"})
  BY <1>1, BracketsAre DEF TypeWords, MadeKinds
<1>3. CASE ref.kind = "normal"
  <2>1. T!Wrap(ref, v) = (<<>> \o b) \o v
    BY <1>1, <1>3, Zenon DEF T!Wrap, Brackets
  <2>2. <<>> \o b = b
    BY <1>2, ConcatEmptySeq
  <2> QED
    BY <1>1, <1>3, <2>1, <2>2 DEF InSource, Tower
<1>4. CASE ref.kind # "normal"
  <2>1. T!Wrap(ref, v) = (w \o b) \o v
    BY <1>1, <1>4, Zenon DEF T!Wrap, Brackets
  <2>2. w \in Seq(TypeWords)
    BY <1>1, <1>4 DEF TypeWords, MadeKinds
  <2>3. (w \o b) \o v = w \o (b \o v)
    BY <1>2, <2>2, ConcatAssociative
  <2> QED
    BY <1>1, <1>4, <2>1, <2>3 DEF InSource, Tower
<1> QED
  BY <1>3, <1>4

LEMMA PlainWraps ==
    ASSUME NEW ref, ref.kind = "normal", ref.level = 0, NEW m \in Seq(TypeWords)
    PROVE  T!Wrap(ref, m) = m
<1>1. PICK b : b = Brackets(0)
  OBVIOUS
<1>2. T!Wrap(ref, m) = (<<>> \o b) \o m
  BY <1>1, Zenon DEF T!Wrap, Brackets
<1>3. b = <<>>
  BY <1>1 DEF Brackets
<1>4. <<>> \o b = b /\ <<>> \o m = m
  BY <1>3, ConcatEmptySeq, BracketsAre
<1> QED
  BY <1>2, <1>3, <1>4

-----------------------------------------------------------------------------
AliasNames == T!ToSet(Aliases)
IsOpen(w, i) == w[Aliases[i]] = None
\* Aliases are resolved in the order of the source.
AliasesOK ==
    /\ target \in [AliasNames -> T!Refs]
    /\ wrapped \in [AliasNames -> T!Source \cup 1..Len(klasses) \cup {None}]
    /\ phase \in {"aliases", "infer", "run", "failed"}
    /\ phase = "aliases" => \E i \in DOMAIN Aliases : \A j \in DOMAIN Aliases : IsOpen(wrapped, j) <=> i <= j
    /\ phase \in {"infer", "run"} => \A a \in AliasNames : wrapped[a] # None
AnswerOK(ks, a) == a.how \in {"reference", "name"} =>
                     /\ a.class # None /\ MeaningOf(ks)[a.class] = a.type
IsNotBox(ks, c) == c \in 1..Len(ks) => ks[c].special # "boxed"
NamesOK(ks, ns) == \A e \in ns : \E c \in PlainNames \cup 1..Len(ks) :
                       e = <<MeaningOf(ks)[c], c>> /\ IsNotBox(ks, c)
TypesInv == /\ RegistryOK(klasses, maps) /\ AliasesOK
            /\ AnswerOK(klasses, answer) /\ NamesOK(klasses, niceNames)

LEMMA NamesOKStays ==
    ASSUME NEW ks, WellMadeTypes(ks), NEW ls, WellMadeTypes(ls), Extends(ks, ls), NEW ns, NamesOK(ks, ns)
    PROVE  NamesOK(ls, ns)
<1> SUFFICES ASSUME NEW e \in ns
             PROVE  \E c \in PlainNames \cup 1..Len(ls) : e = <<MeaningOf(ls)[c], c>> /\ IsNotBox(ls, c)
  BY DEF NamesOK
<1>1. PICK c \in PlainNames \cup 1..Len(ks) : e = <<MeaningOf(ks)[c], c>> /\ IsNotBox(ks, c)
  BY DEF NamesOK
<1>2. MeaningOf(ls)[c] = MeaningOf(ks)[c]
  BY NamesStay
<1>3. Len(ks) \in Nat /\ Len(ls) \in Nat /\ Len(ks) <= Len(ls) /\ \A d \in 1..Len(ks) : ls[d] = ks[d]
  BY DEF WellMadeTypes, Extends
<1>4. c \in PlainNames \cup 1..Len(ls)
  BY <1>3
<1>5. c \in 1..Len(ls) => c \in 1..Len(ks)
  BY <1>3, NamesAreNames
<1>6. IsNotBox(ls, c)
  BY <1>1, <1>3, <1>5 DEF IsNotBox
<1> QED
  BY <1>1, <1>2, <1>4, <1>6

LEMMA TypesInit == ASSUME T!Init PROVE TypesInv
<1>1. klasses = <<>> /\ maps = T!NoMaps
  BY DEF T!Init
<1>2. WellMadeTypes(klasses)
  BY <1>1 DEF WellMadeTypes
<1>3. maps = [s \in MadeKinds |-> maps[s]] /\ \A s \in MadeKinds : maps[s] = <<>>
  BY <1>1 DEF T!NoMaps, MadeKinds
<1>4. \A s \in MadeKinds : DOMAIN maps[s] = {}
  BY <1>3
<1>5. MapsOK(klasses, maps)
  BY <1>1, <1>3, <1>4 DEF MapsOK, MadeKinds, AroundKinds
<1>6. answer.how = "none" /\ niceNames = {}
  BY DEF T!Init, T!NoAnswer, T!Answer
<1>7. AnswerOK(klasses, answer) /\ NamesOK(klasses, niceNames)
  BY <1>6 DEF AnswerOK, NamesOK
<1>8. Aliases \in Seq(AliasNames) /\ \A i \in DOMAIN Aliases : Aliases[i] \in AliasNames
  BY NamesAreNames DEF AliasNames
<1>9. target \in [AliasNames -> T!Refs] /\ wrapped = [a \in AliasNames |-> None]
  BY DEF T!Init, AliasNames
<1>10. wrapped \in [AliasNames -> T!Source \cup 1..Len(klasses) \cup {None}]
  BY <1>9
<1>11. CASE Aliases = <<>>
  <2>1. phase = "infer" /\ AliasNames = {}
    BY <1>11 DEF T!Init, AliasNames, T!ToSet
  <2> QED
    BY <1>2, <1>5, <1>7, <1>9, <1>10, <2>1 DEF TypesInv, AliasesOK, RegistryOK
<1>12. CASE Aliases # <<>>
  <2>1. phase = "aliases" /\ DOMAIN Aliases = 1..Len(Aliases) /\ Len(Aliases) \in Nat /\ Len(Aliases) # 0
    BY <1>8, <1>12 DEF T!Init
  <2>2. 1 \in DOMAIN Aliases /\ \A j \in DOMAIN Aliases : IsOpen(wrapped, j) <=> 1 <= j
    BY <1>8, <1>9, <2>1 DEF IsOpen
  <2>3. AliasesOK
    BY <1>9, <1>10, <2>1, <2>2 DEF AliasesOK
  <2> QED
    BY <1>2, <1>5, <1>7, <2>3 DEF TypesInv, RegistryOK
<1> QED
  BY <1>11, <1>12

\* An operation that makes classes and nothing else of what is known of aliases.
LEMMA TypesMade ==
    ASSUME TypesInv, NEW r, MadeWell(klasses, maps, r), klasses' = r.klasses, maps' = r.maps,
           UNCHANGED <<target, phase, wrapped, niceNames>>, AnswerOK(r.klasses, answer')
    PROVE  TypesInv'
<1>1. RegistryOK(klasses', maps') /\ Extends(klasses, klasses') /\ WellMadeTypes(klasses) /\ WellMadeTypes(klasses')
  BY DEF MadeWell, TypesInv, RegistryOK
<1>2. Len(klasses) \in Nat /\ Len(klasses') \in Nat /\ Len(klasses) <= Len(klasses')
  BY <1>1 DEF WellMadeTypes, Extends
<1>3. NamesOK(klasses', niceNames')
  BY <1>1, NamesOKStays DEF TypesInv
<1>4. wrapped' \in [AliasNames -> T!Source \cup 1..Len(klasses') \cup {None}]
  <2>1. T!Source \cup 1..Len(klasses) \cup {None} \subseteq T!Source \cup 1..Len(klasses') \cup {None}
    BY <1>2
  <2> QED
    BY <2>1 DEF TypesInv, AliasesOK
<1>5. AliasesOK'
  BY <1>4 DEF TypesInv, AliasesOK
<1> QED
  BY <1>1, <1>3, <1>5 DEF TypesInv

LEMMA AliasesAre == /\ DOMAIN Aliases = 1..Len(Aliases) /\ Len(Aliases) \in Nat
                    /\ \A i \in DOMAIN Aliases : Aliases[i] \in AliasNames
                    /\ \A n : T!IsAlias(n) <=> n \in AliasNames
<1>1. DOMAIN Aliases = 1..Len(Aliases) /\ Len(Aliases) \in Nat
  BY NamesAreNames
<1>2. AliasNames = {Aliases[i] : i \in DOMAIN Aliases}
  BY DEF AliasNames, T!ToSet
<1> QED
  BY <1>1, <1>2 DEF T!IsAlias

LEMMA Redirected ==
    ASSUME RegistryOK(klasses, maps), AliasesOK, NEW w \in T!Refs, NEW ref, ref = T!Redirect(w), ~T!Refused(ref)
    PROVE  /\ IsReference(klasses, ref)
           /\ w.name \in AliasNames => ref.name = wrapped[w.name] /\ ref.kind = "normal" /\ ref.level = 0
           /\ w.name \notin AliasNames => ref = w /\ w.name \in T!Source
<1>1. /\ w.name \in T!Source \cup AliasNames /\ w.kind \in {"normal", "failable", "foreign"} /\ w.level \in Nat
  BY NamesAreNames DEF T!Refs, AliasNames
<1>2. CASE w.name \in AliasNames
  <2>1. ref = T!Ref(wrapped[w.name], "normal", 0)
    BY <1>2, AliasesAre DEF T!Redirect
  <2>2. ref.name = wrapped[w.name] /\ ref.kind = "normal" /\ ref.level = 0
    BY <2>1 DEF T!Ref
  <2>3. ref.name # None
    BY DEF T!Refused
  <2>4. ref.name \in T!Source \cup 1..Len(klasses)
    BY <1>2, <2>2, <2>3 DEF AliasesOK
  <2> QED
    BY <1>2, <2>2, <2>4 DEF IsReference
<1>3. CASE w.name \notin AliasNames
  <2>1. ref = w /\ w.name \in T!Source
    BY <1>1, <1>3, AliasesAre DEF T!Redirect
  <2>2. ref.kind = "foreign" => ref.level = 0
    BY <1>1, <2>1 DEF T!Refused
  <2> QED
    BY <1>1, <1>3, <2>1, <2>2 DEF IsReference
<1> QED
  BY <1>2, <1>3

LEMMA ClassesAreSome ==
    ASSUME NEW ks, NEW ms, RegistryOK(ks, ms), NEW c \in PlainNames \cup 1..Len(ks) PROVE c # None
  BY NamesAreNames DEF RegistryOK, WellMadeTypes

LEMMA FailKeepsTypes == ASSUME TypesInv, T!Fail, UNCHANGED <<target, niceNames>> PROVE TypesInv'
<1>1. UNCHANGED <<klasses, maps, wrapped, target, niceNames>> /\ phase' = "failed" /\ answer'.how = "none"
  BY DEF T!Fail, T!NoAnswer, T!Answer
<1>2. RegistryOK(klasses, maps)' /\ NamesOK(klasses, niceNames)'
  BY <1>1 DEF TypesInv
<1>3. AliasesOK'
  BY <1>1 DEF TypesInv, AliasesOK
<1>4. AnswerOK(klasses, answer)'
  BY <1>1 DEF AnswerOK
<1> QED
  BY <1>2, <1>3, <1>4 DEF TypesInv

LEMMA ResolveAliasTypes == ASSUME TypesInv, T!ResolveAlias PROVE TypesInv'
<1>0. RegistryOK(klasses, maps) /\ AliasesOK /\ phase = "aliases" /\ UNCHANGED <<target, niceNames>>
  BY DEF TypesInv, T!ResolveAlias
<1>1. PICK k \in DOMAIN Aliases : \A j \in DOMAIN Aliases : IsOpen(wrapped, j) <=> k <= j
  BY <1>0 DEF AliasesOK
<1>2. PICK i : i = CHOOSE a \in DOMAIN Aliases : T!Unresolved(a) /\ \A j \in 1..(a - 1) : ~T!Unresolved(j)
  OBVIOUS
<1>3. \A j : T!Unresolved(j) <=> IsOpen(wrapped, j)
  BY DEF T!Unresolved, IsOpen
<1>4. i = k
  <2>1. k \in 1..Len(Aliases) /\ DOMAIN Aliases = 1..Len(Aliases) /\ Len(Aliases) \in Nat
    BY <1>1, AliasesAre
  <2>2. T!Unresolved(k) /\ \A j \in 1..(k - 1) : ~T!Unresolved(j)
    BY <1>1, <1>3, <2>1
  <2>3. i \in DOMAIN Aliases /\ T!Unresolved(i) /\ \A j \in 1..(i - 1) : ~T!Unresolved(j)
    BY <1>2, <2>2
  <2>4. k <= i
    BY <1>1, <1>3, <2>3
  <2>5. ~(k <= i - 1)
    BY <2>1, <2>2, <2>3
  <2> QED
    BY <2>1, <2>3, <2>4, <2>5
<1>5. PICK ref : ref = T!Redirect(target[Aliases[i]])
  OBVIOUS
<1>6. IF T!Refused(ref) THEN T!Fail
      ELSE /\ T!Becomes(T!Resolve(ref))
           /\ wrapped' = [wrapped EXCEPT ![Aliases[i]] = T!Resolve(ref).class]
           /\ phase' = IF i = Len(Aliases) THEN "infer" ELSE "aliases"
           /\ answer' = T!NoAnswer
  BY <1>2, <1>5, Zenon DEF T!ResolveAlias
<1>7. CASE T!Refused(ref)
  BY <1>0, <1>6, <1>7, FailKeepsTypes
<1>8. CASE ~T!Refused(ref)
  <2>1. Aliases[i] \in AliasNames /\ target[Aliases[i]] \in T!Refs
    BY <1>0, <1>1, <1>4, AliasesAre DEF AliasesOK
  <2>2. IsReference(klasses, ref)
    BY <1>0, <1>5, <1>8, <2>1, Redirected
  <2>3. PICK r : r = T!Resolve(ref)
    OBVIOUS
  <2>4. MadeWell(klasses, maps, r)
    BY <1>0, <2>2, <2>3, ReferencesResolve
  <2>5. /\ klasses' = r.klasses /\ maps' = r.maps /\ wrapped' = [wrapped EXCEPT ![Aliases[i]] = r.class]
        /\ phase' = (IF i = Len(Aliases) THEN "infer" ELSE "aliases") /\ answer'.how = "none"
    BY <1>6, <1>8, <2>3 DEF T!Becomes, T!NoAnswer, T!Answer
  <2>6. RegistryOK(klasses', maps') /\ Extends(klasses, klasses') /\ WellMadeTypes(klasses) /\ WellMadeTypes(klasses')
        /\ r.class \in T!Source \cup 1..Len(klasses')
    BY <2>4, <2>5 DEF MadeWell, TypesInv, RegistryOK
  <2>7. NamesOK(klasses', niceNames')
    BY <1>0, <2>6, NamesOKStays DEF TypesInv
  <2>8. Len(klasses) \in Nat /\ Len(klasses') \in Nat /\ Len(klasses) <= Len(klasses')
    BY <2>6 DEF WellMadeTypes, Extends
  <2>9. wrapped' \in [AliasNames -> T!Source \cup 1..Len(klasses') \cup {None}]
    <3>1. T!Source \cup 1..Len(klasses) \cup {None} \subseteq T!Source \cup 1..Len(klasses') \cup {None}
      BY <2>8
    <3>2. wrapped \in [AliasNames -> T!Source \cup 1..Len(klasses') \cup {None}]
      BY <1>0, <3>1 DEF AliasesOK
    <3> QED
      BY <2>5, <2>6, <3>2
  <2>10. r.class # None
    BY <2>6, ClassesAreSome DEF PlainNames
  <2>11. \A j \in DOMAIN Aliases : IsOpen(wrapped', j) <=> i + 1 <= j
    <3> SUFFICES ASSUME NEW j \in DOMAIN Aliases PROVE IsOpen(wrapped', j) <=> i + 1 <= j
      OBVIOUS
    <3>1. i \in 1..Len(Aliases) /\ j \in 1..Len(Aliases) /\ Len(Aliases) \in Nat
      BY <1>1, <1>4, AliasesAre
    <3>2. j # i => Aliases[j] # Aliases[i]
      BY <1>1, <1>4, NamesAreNames
    <3>3. IsOpen(wrapped, j) <=> i <= j
      BY <1>1, <1>4
    <3>4. Aliases[j] \in AliasNames
      BY AliasesAre
    <3>5. CASE j = i
      <4>1. wrapped'[Aliases[j]] = r.class
        BY <1>0, <2>1, <2>5, <3>5 DEF AliasesOK
      <4> QED
        BY <2>10, <3>1, <3>5, <4>1 DEF IsOpen
    <3>6. CASE j # i
      <4>1. wrapped'[Aliases[j]] = wrapped[Aliases[j]]
        BY <1>0, <2>1, <2>5, <3>2, <3>4, <3>6 DEF AliasesOK
      <4>2. i <= j <=> i + 1 <= j
        BY <3>1, <3>6
      <4> QED
        BY <3>3, <4>1, <4>2 DEF IsOpen
    <3> QED
      BY <3>5, <3>6
  <2>12. AliasesOK'
    <3>1. i \in 1..Len(Aliases) /\ DOMAIN Aliases = 1..Len(Aliases) /\ Len(Aliases) \in Nat
      BY <1>1, <1>4, AliasesAre
    <3>2. CASE i = Len(Aliases)
      <4>1. \A j \in DOMAIN Aliases : wrapped'[Aliases[j]] # None
        BY <2>11, <3>1, <3>2 DEF IsOpen
      <4>2. \A a \in AliasNames : \E j \in DOMAIN Aliases : a = Aliases[j]
        BY DEF AliasNames, T!ToSet
      <4>3. \A a \in AliasNames : wrapped'[a] # None
        BY <4>1, <4>2
      <4>4. phase' = "infer"
        BY <2>5, <3>2
      <4> QED
        BY <1>0, <2>9, <4>3, <4>4 DEF AliasesOK
    <3>3. CASE i # Len(Aliases)
      <4>1. PICK n \in Nat : n = Len(Aliases)
        BY <3>1
      <4>2. i \in 1..n /\ i # n
        BY <3>1, <3>3, <4>1
      <4>3. i + 1 \in 1..n
        BY <4>1, <4>2
      <4>4. i + 1 \in DOMAIN Aliases
        BY <3>1, <4>1, <4>3
      <4>5. phase' = "aliases"
        BY <2>5, <3>3
      <4> QED
        BY <1>0, <2>9, <2>11, <4>4, <4>5 DEF AliasesOK
    <3> QED
      BY <3>2, <3>3
  <2>13. AnswerOK(klasses', answer')
    BY <2>5 DEF AnswerOK
  <2> QED
    BY <2>6, <2>7, <2>12, <2>13 DEF TypesInv
<1> QED
  BY <1>7, <1>8

LEMMA ResolveTypeRefTypes == ASSUME TypesInv, NEW w \in T!Refs, T!ResolveTypeRef(w) PROVE TypesInv'
<1>0. RegistryOK(klasses, maps) /\ AliasesOK /\ phase = "infer" /\ UNCHANGED <<target, niceNames>>
  BY DEF TypesInv, T!ResolveTypeRef
<1>1. PICK ref : ref = T!Redirect(w)
  OBVIOUS
<1>2. IF T!Refused(ref) THEN T!Fail
      ELSE /\ T!Becomes(T!Resolve(ref))
           /\ answer' = T!Answer(IF T!IsAlias(w.name) /\ ~T!IsPlain(w) THEN "around an alias" ELSE "reference",
                                 T!MeaningOfRef(w), T!Resolve(ref).class)
           /\ UNCHANGED <<phase, wrapped>>
  BY <1>1, Zenon DEF T!ResolveTypeRef
<1>3. CASE T!Refused(ref)
  BY <1>0, <1>2, <1>3, FailKeepsTypes
<1>4. CASE ~T!Refused(ref)
  <2>1. /\ IsReference(klasses, ref)
        /\ w.name \in AliasNames => ref.name = wrapped[w.name] /\ ref.kind = "normal" /\ ref.level = 0
        /\ w.name \notin AliasNames => ref = w /\ w.name \in T!Source
    BY <1>0, <1>1, <1>4, Redirected
  <2>2. PICK r : r = T!Resolve(ref)
    OBVIOUS
  <2>3. /\ MadeWell(klasses, maps, r)
        /\ ref.name \in T!Source => MeaningOf(r.klasses)[r.class] = InSource(ref)
        /\ ref.name \notin T!Source => r.class = ref.name
    BY <1>0, <2>1, <2>2, ReferencesResolve
  <2>4. PICK how : how = IF T!IsAlias(w.name) /\ ~T!IsPlain(w) THEN "around an alias" ELSE "reference"
    OBVIOUS
  <2>5. /\ klasses' = r.klasses /\ maps' = r.maps /\ UNCHANGED <<phase, wrapped>>
        /\ answer' = T!Answer(how, T!MeaningOfRef(w), r.class)
    BY <1>2, <1>4, <2>2, <2>4, Zenon DEF T!Becomes
  <2>6. answer'.how = how /\ answer'.type = T!MeaningOfRef(w) /\ answer'.class = r.class
    BY <2>5 DEF T!Answer
  <2>7. RegistryOK(r.klasses, r.maps) /\ WellMadeTypes(r.klasses) /\ WellMadeTypes(klasses) /\ Extends(klasses, r.klasses)
        /\ r.class \in T!Source \cup 1..Len(r.klasses)
    BY <1>0, <2>3 DEF MadeWell, RegistryOK
  <2>8. r.class # None
    BY <2>7, ClassesAreSome DEF PlainNames
  <2>9. ASSUME how = "reference" PROVE MeaningOf(r.klasses)[r.class] = T!MeaningOfRef(w)
    <3>1. CASE w.name \in AliasNames
      <4>1. T!IsPlain(w) /\ T!IsAlias(w.name)
        BY <2>4, <2>9, <3>1, AliasesAre
      <4>2. PICK m : m = MeaningOf(klasses)[ref.name]
        OBVIOUS
      <4>3. ref.name \in PlainNames \cup 1..Len(klasses)
        BY <2>1 DEF IsReference, PlainNames
      <4>4. m \in Seq(TypeWords)
        BY <2>7, <4>2, <4>3, MeaningsAreWords
      <4>5. T!MeaningOfRef(w) = T!Wrap(w, m)
        BY <2>1, <3>1, <4>1, <4>2, MeaningIsOf DEF T!MeaningOfRef
      <4>6. T!Wrap(w, m) = m
        BY <4>1, <4>4, PlainWraps DEF T!IsPlain
      <4>7. MeaningOf(r.klasses)[r.class] = m
        <5>1. MeaningOf(r.klasses)[ref.name] = m
          BY <2>7, <4>2, <4>3, NamesStay
        <5>2. CASE ref.name \in T!Source
          <6>1. MeaningOf(r.klasses)[r.class] = Tower(0, ref.name)
            BY <2>1, <2>3, <3>1, <5>2 DEF InSource
          <6>2. m = Tower(0, ref.name)
            BY <2>7, <4>2, <5>2, PlainMeaning, TowerGround DEF PlainNames
          <6> QED
            BY <6>1, <6>2
        <5>3. CASE ref.name \notin T!Source
          BY <2>3, <5>1, <5>3
        <5> QED
          BY <5>2, <5>3
      <4> QED
        BY <4>5, <4>6, <4>7
    <3>2. CASE w.name \notin AliasNames
      <4>1. ~T!IsAlias(w.name) /\ ref = w /\ w.name \in T!Source
        BY <2>1, <3>2, AliasesAre
      <4>2. T!MeaningOfRef(w) = T!Wrap(w, <<w.name>>)
        BY <4>1 DEF T!MeaningOfRef
      <4>3. w.kind \in {"normal", "failable", "foreign"} /\ w.level \in Nat /\ w.name \in PlainNames
        BY <2>1, <4>1 DEF IsReference, PlainNames
      <4>4. T!Wrap(w, <<w.name>>) = InSource(w)
        BY <4>3, WrapsAre
      <4> QED
        BY <2>3, <4>1, <4>2, <4>4
    <3> QED
      BY <3>1, <3>2
  <2>10. how # "name"
    BY <2>4
  <2>11. AnswerOK(r.klasses, answer')
    BY <2>6, <2>8, <2>9, <2>10 DEF AnswerOK
  <2> QED
    BY <1>0, <2>3, <2>5, <2>11, TypesMade
<1> QED
  BY <1>3, <1>4

LEMMA LiteralTypes == ASSUME TypesInv, NEW c, T!inferArrayInitExpr(c) PROVE TypesInv'
<1>1. PICK r : r = T!Array(c, 1)
  OBVIOUS
<1>2. /\ c \in T!Source \cup 1..Len(klasses) /\ klasses' = r.klasses /\ maps' = r.maps
      /\ UNCHANGED <<target, phase, wrapped, niceNames>>
      /\ answer' = T!Answer("literal", <<"array">> \o T!Meaning[c], r.class)
  BY <1>1, Zenon DEF T!inferArrayInitExpr, T!Becomes
<1>3. RegistryOK(klasses, maps)
  BY DEF TypesInv
<1>4. ArrayIsMade(klasses, maps, c, 1, T!Array(c, 1))
  BY <1>2, <1>3, ArraysResolve
<1>5. MadeWell(klasses, maps, r)
  BY <1>1, <1>4 DEF ArrayIsMade
<1>6. answer'.how = "literal"
  BY <1>2 DEF T!Answer
<1>7. AnswerOK(r.klasses, answer')
  BY <1>6 DEF AnswerOK
<1> QED
  BY <1>2, <1>5, <1>7, TypesMade

LEMMA BoxedClassTypes == ASSUME TypesInv, NEW c, T!BoxedClass(c) PROVE TypesInv'
<1>1. PICK r : r = T!Mapped(T!Registry(klasses, maps, None), "boxed", c, c)
  OBVIOUS
<1>2. /\ c \in T!Source \cup 1..Len(klasses) /\ T!IsByValue(c)
      /\ klasses' = r.klasses /\ maps' = r.maps /\ answer' = T!NoAnswer
      /\ UNCHANGED <<target, phase, wrapped, niceNames>>
  BY <1>1, Zenon DEF T!BoxedClass, T!Becomes
<1>3. c \in T!Source \/ (c \in 1..Len(klasses) /\ klasses[c].special = "failable")
  BY <1>2 DEF T!IsByValue, T!Special, T!Source
<1>4. KeyFits(klasses, maps, "boxed", c, c) /\ "boxed" \in MadeKinds
  BY <1>3 DEF KeyFits, MayBeIn, AroundKinds, MadeKinds
<1>5. MadeWell(klasses, maps, r)
  BY <1>1, <1>2, <1>4, MappedWell DEF TypesInv
<1>6. answer'.how = "none"
  BY <1>2 DEF T!NoAnswer, T!Answer
<1>7. AnswerOK(r.klasses, answer')
  BY <1>6 DEF AnswerOK
<1> QED
  BY <1>2, <1>5, <1>7, TypesMade

LEMMA CompiledTypes == ASSUME TypesInv, T!Compiled PROVE TypesInv'
<1>1. /\ phase = "infer" /\ phase' = "run" /\ UNCHANGED <<target, wrapped, klasses, maps, niceNames>>
      /\ answer' = T!NoAnswer
  BY DEF T!Compiled
<1>2. answer'.how = "none"
  BY <1>1 DEF T!NoAnswer, T!Answer
<1>3. AliasesOK'
  BY <1>1 DEF TypesInv, AliasesOK
<1>4. AnswerOK(klasses, answer)'
  BY <1>2 DEF AnswerOK
<1> QED
  BY <1>1, <1>3, <1>4 DEF TypesInv

\* Of the classes with a name, the last one lasts.
LEMMA NameOfClass ==
    ASSUME RegistryOK(klasses, maps), NEW c \in PlainNames \cup 1..Len(klasses)
    PROVE  T!Special(c) # "boxed" => IsNotBox(klasses, c) /\ T!NiceName(c) = MeaningOf(klasses)[c]
  BY MeaningIsOf DEF T!Special, IsNotBox, T!NiceName

LEMMA NotBoxed ==
    ASSUME RegistryOK(klasses, maps), NEW c \in PlainNames \cup 1..Len(klasses), IsNotBox(klasses, c)
    PROVE  T!Special(c) # "boxed"
  BY NamesAreNames DEF T!Special, IsNotBox, MadeKinds

LEMMA SomeLasts ==
    ASSUME RegistryOK(klasses, maps), NEW c \in PlainNames \cup 1..Len(klasses), T!Special(c) # "boxed"
    PROVE  \E d \in PlainNames \cup 1..Len(klasses) : T!Lasting(d) /\ T!NiceName(d) = T!NiceName(c)
<1>0. Len(klasses) \in Nat /\ WellMadeTypes(klasses)
  BY DEF RegistryOK, WellMadeTypes
<1> DEFINE Same == {d \in 1..Len(klasses) : T!Special(d) # "boxed" /\ T!NiceName(d) = T!NiceName(c)}
           Left == {k \in Nat : \E d \in Same : k = Len(klasses) - d}
<1>1. CASE Same = {}
  <2>1. T!Lasting(c)
    BY <1>1 DEF T!Lasting
  <2> QED
    BY <2>1
<1>2. CASE Same # {}
  <2>1. \A d \in Same : Len(klasses) - d \in Nat /\ d \in 1..Len(klasses)
    BY <1>0
  <2>2. Left # {} /\ Left \subseteq Nat
    <3> HIDE DEF Same
    <3> QED
      BY <1>2, <2>1
  <2>3. PICK k \in Left : \A j \in Left : k <= j
    <3> HIDE DEF Left, Same
    <3> QED
      BY <2>2, LeastNumber
  <2>4. PICK d \in Same : k = Len(klasses) - d
    <3> HIDE DEF Same
    <3> QED
      BY <2>3
  <2>5. \A e \in Same : e <= d
    <3> SUFFICES ASSUME NEW e \in Same PROVE e <= d
      OBVIOUS
    <3> HIDE DEF Same
    <3>1. Len(klasses) - e \in Left
      BY <2>1
    <3> HIDE DEF Left
    <3>2. k <= Len(klasses) - e
      BY <2>3, <3>1
    <3> QED
      BY <1>0, <2>1, <2>4, <3>2
  <2>6. d \in 1..Len(klasses) /\ T!Special(d) # "boxed" /\ T!NiceName(d) = T!NiceName(c)
    OBVIOUS
  <2>7. ASSUME NEW e \in (1..Len(klasses)) \ {d}, T!Special(e) # "boxed" /\ T!NiceName(e) = T!NiceName(d)
        PROVE  d \in 1..Len(klasses) /\ e < d
    <3>1. e \in Same
      BY <2>6, <2>7
    <3> HIDE DEF Same
    <3> QED
      BY <1>0, <2>5, <2>6, <2>7, <3>1
  <2>8. T!Lasting(d)
    BY <2>6, <2>7 DEF T!Lasting
  <2> QED
    BY <2>6, <2>8
<1> QED
  BY <1>1, <1>2

\* As many entries as classes are entries of all classes.
LEMMA AllAreListed ==
    ASSUME TypesInv, Cardinality(niceNames) = Cardinality(PlainNames \cup 1..Len(klasses)),
           NEW c \in PlainNames \cup 1..Len(klasses)
    PROVE  <<MeaningOf(klasses)[c], c>> \in niceNames
<1> DEFINE R == PlainNames \cup 1..Len(klasses)
           f == [e \in niceNames |-> e[2]]
<1>1. Len(klasses) \in Nat /\ NamesOK(klasses, niceNames)
  BY DEF TypesInv, RegistryOK, WellMadeTypes
<1>2. IsFiniteSet(R)
  <2>1. IsFiniteSet(1..Len(klasses))
    BY <1>1, FS_Interval
  <2>2. IsFiniteSet(AliasNames)
    <3>1. IsFiniteSet(1..Len(Aliases))
      BY AliasesAre, FS_Interval
    <3> DEFINE g == [i \in 1..Len(Aliases) |-> Aliases[i]]
    <3>2. g \in Surjection(1..Len(Aliases), AliasNames)
      <4>1. AliasNames = {Aliases[i] : i \in DOMAIN Aliases} /\ DOMAIN Aliases = 1..Len(Aliases)
        BY AliasesAre DEF AliasNames, T!ToSet
      <4> QED
        BY <4>1 DEF Surjection
    <3> HIDE DEF g
    <3> QED
      BY <3>1, <3>2, FS_Surjection
  <2>3. IsFiniteSet(T!Source)
    BY NamesAreNames
  <2>4. IsFiniteSet(T!Source \cup AliasNames)
    BY <2>2, <2>3, FS_Union
  <2>5. R = (T!Source \cup AliasNames) \cup 1..Len(klasses)
    BY DEF PlainNames, AliasNames
  <2> HIDE DEF R
  <2> QED
    BY <2>1, <2>4, <2>5, FS_Union
<1>3. \A e \in niceNames : e[2] \in R /\ e = <<MeaningOf(klasses)[e[2]], e[2]>>
  <2> SUFFICES ASSUME NEW e \in niceNames PROVE e[2] \in R /\ e = <<MeaningOf(klasses)[e[2]], e[2]>>
    OBVIOUS
  <2>1. PICK d \in R : e = <<MeaningOf(klasses)[d], d>>
    BY <1>1 DEF NamesOK
  <2>2. e[2] = d
    BY <2>1
  <2> QED
    BY <2>1, <2>2
<1>4. f \in Injection(niceNames, R)
  <2>1. f \in [niceNames -> R]
    BY <1>3
  <2>2. ASSUME NEW d \in niceNames, NEW e \in niceNames, f[d] = f[e] PROVE d = e
    BY <1>3, <2>2
  <2> HIDE DEF f, R
  <2> QED
    BY <2>1, <2>2 DEF Injection, IsInjective
<1>5. f \in Surjection(niceNames, R)
  <2> HIDE DEF f
  <2> QED
    BY <1>2, <1>4, FS_Injection
<1>6. PICK e \in niceNames : f[e] = c
  <2> HIDE DEF f
  <2> QED
    BY <1>5 DEF Surjection
<1> QED
  BY <1>3, <1>6

LEMMA NamesFind ==
    ASSUME TypesInv, NEW c, T!ClassByNiceName(c) PROVE TypesInv'
<1>0. RegistryOK(klasses, maps) /\ NamesOK(klasses, niceNames) /\ Len(klasses) \in Nat
  BY DEF TypesInv, RegistryOK, WellMadeTypes
<1>1. PICK found : found = {e \in niceNames' : e[1] = T!NiceName(c)}
  OBVIOUS
<1>2. PICK e : e = CHOOSE e1 \in found : TRUE
  OBVIOUS
<1>3. /\ phase = "run" /\ c \in T!Registered /\ T!Special(c) # "boxed"
      /\ niceNames' = IF T!IsCurrent THEN niceNames ELSE T!NiceNames
      /\ answer' = T!Answer("name", T!Meaning[c], IF found = {} THEN None ELSE e[2])
      /\ UNCHANGED <<target, phase, wrapped, klasses, maps>>
  BY <1>1, <1>2, Zenon DEF T!ClassByNiceName
<1>4. c \in PlainNames \cup 1..Len(klasses) /\ T!Registered = PlainNames \cup 1..Len(klasses)
  BY <1>3 DEF T!Registered, PlainNames
<1>5. T!NiceName(c) = MeaningOf(klasses)[c] /\ T!Meaning = MeaningOf(klasses)
  BY <1>0, <1>3, <1>4, NameOfClass, MeaningIsOf
<1>6. NamesOK(klasses, niceNames')
  <2>1. CASE T!IsCurrent
    BY <1>0, <1>3, <2>1
  <2>2. CASE ~T!IsCurrent
    <3> SUFFICES ASSUME NEW x \in T!NiceNames
                 PROVE  \E d \in PlainNames \cup 1..Len(klasses) :
                            x = <<MeaningOf(klasses)[d], d>> /\ IsNotBox(klasses, d)
      BY <1>3, <2>2 DEF NamesOK
    <3>1. PICK d \in T!Registered : x = <<T!NiceName(d), d>> /\ T!Lasting(d)
      BY DEF T!NiceNames
    <3>2. T!Special(d) # "boxed"
      BY <3>1 DEF T!Lasting
    <3>3. IsNotBox(klasses, d) /\ T!NiceName(d) = MeaningOf(klasses)[d]
      BY <1>0, <1>4, <3>2, NameOfClass
    <3> QED
      BY <1>4, <3>1, <3>3
  <2> QED
    BY <2>1, <2>2
<1>7. found # {}
  <2>1. CASE T!IsCurrent
    <3>1. T!Cardinality(niceNames) = T!Cardinality(PlainNames \cup 1..Len(klasses))
      BY <1>4, <2>1 DEF T!IsCurrent
    <3>2. Cardinality(niceNames) = Cardinality(PlainNames \cup 1..Len(klasses))
      BY <3>1 DEF T!Cardinality, Cardinality
    <3>3. <<MeaningOf(klasses)[c], c>> \in niceNames
      BY <1>4, <3>2, AllAreListed
    <3> QED
      BY <1>1, <1>3, <1>5, <2>1, <3>3
  <2>2. CASE ~T!IsCurrent
    <3>1. PICK d \in PlainNames \cup 1..Len(klasses) : T!Lasting(d) /\ T!NiceName(d) = T!NiceName(c)
      BY <1>0, <1>3, <1>4, SomeLasts
    <3>2. <<T!NiceName(d), d>> \in T!NiceNames
      BY <1>4, <3>1 DEF T!NiceNames
    <3>3. <<T!NiceName(d), d>> \in found
      BY <1>1, <1>3, <2>2, <3>1, <3>2
    <3> QED
      BY <3>3
  <2> QED
    BY <2>1, <2>2
<1>8. e \in niceNames' /\ e[1] = MeaningOf(klasses)[c]
  BY <1>1, <1>2, <1>5, <1>7
<1>9. PICK d \in PlainNames \cup 1..Len(klasses) : e = <<MeaningOf(klasses)[d], d>>
  BY <1>6, <1>8 DEF NamesOK
<1>10. e[2] = d /\ MeaningOf(klasses)[d] = MeaningOf(klasses)[c] /\ d # None
  BY <1>0, <1>8, <1>9, ClassesAreSome
<1>11. answer'.type = MeaningOf(klasses)[c] /\ answer'.class = d
  BY <1>3, <1>5, <1>7, <1>10 DEF T!Answer
<1>12. AnswerOK(klasses, answer')
  BY <1>10, <1>11 DEF AnswerOK
<1>13. AliasesOK'
  BY <1>3 DEF TypesInv, AliasesOK
<1> QED
  BY <1>0, <1>3, <1>6, <1>12, <1>13 DEF TypesInv

LEMMA TypesNext == ASSUME TypesInv, T!Next PROVE TypesInv'
<1>1. CASE T!ResolveAlias
  BY <1>1, ResolveAliasTypes
<1>2. CASE \E ref \in T!Refs : (T!IsPlain(ref) => T!IsAlias(ref.name)) /\ T!ResolveTypeRef(ref)
  BY <1>2, ResolveTypeRefTypes
<1>3. CASE \E c \in T!Source \cup 1..MaxGenerated : T!inferArrayInitExpr(c) \/ T!BoxedClass(c)
  BY <1>3, LiteralTypes, BoxedClassTypes
<1>4. CASE T!Compiled
  BY <1>4, CompiledTypes
<1>5. CASE \E c \in T!Source \cup T!ToSet(Aliases) \cup 1..MaxGenerated : T!ClassByNiceName(c)
  BY <1>5, NamesFind
<1> QED
  BY <1>1, <1>2, <1>3, <1>4, <1>5 DEF T!Next

\* Whatever a program mentions, in whatever order, through whatever aliases: a reference is
\* resolved to the class of the type it means, no two classes are one type (but arrays of
\* generated classes), and a class is found by its name (CDomain::ResolveTypeRef,
\* ClassByNiceName).
THEOREM OneTypeIsOneClass == MCSpec => []TypesHaveOneClass
<1> DEFINE Inv == which = "types" => TypesInv
<1>1. MCInit => Inv
  BY TypesInit DEF MCInit
<1>2. Inv /\ [MCNext]_allVars => Inv'
  <2> SUFFICES ASSUME Inv, [MCNext]_allVars, which' = "types" PROVE TypesInv'
    OBVIOUS
  <2>1. which = "types" /\ TypesInv
    BY DEF MCNext, allVars, common
  <2>2. T!Next \/ UNCHANGED <<phase, target, wrapped, klasses, maps, niceNames, answer>>
    BY <2>1 DEF MCNext, allVars, common, madeVars, typesVars
  <2>3. CASE T!Next
    BY <2>1, <2>3, TypesNext
  <2>4. CASE UNCHANGED <<phase, target, wrapped, klasses, maps, niceNames, answer>>
    BY <2>1, <2>4 DEF TypesInv, AliasesOK
  <2> QED
    BY <2>2, <2>3, <2>4
<1>3. Inv => TypesHaveOneClass
  <2> SUFFICES ASSUME TypesInv PROVE T!ClassIsTheType /\ T!NiceNamesFind
    BY DEF TypesHaveOneClass
  <2>1. \A c, d \in 1..Len(klasses) :
           c # d => T!Meaning[c] # T!Meaning[d] \/ T!Twice(T!Meaning[c], T!Meaning[d])
    BY TypesDiffer, MeaningIsOf DEF TypesInv
  <2> QED
    BY <2>1, MeaningIsOf DEF TypesInv, AnswerOK, T!ClassIsTheType, T!NiceNamesFind
<1> QED
  BY <1>1, <1>2, <1>3, PTL DEF MCSpec
=============================================================================
