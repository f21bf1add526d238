-------------------------------- MODULE GCMark --------------------------------
(***************************************************************************)
(* The mark phase of the collector (SMemoryManager::gcMark): a depth-first *)
(* walk that leaves its marks in the objects and finds their references by *)
(* the kind of the object and its GC map.                                  *)
(*                                                                         *)
(* The heap is any graph, one root after the other is marked. gcMark calls *)
(* itself for every child; its activations are `calls'.                    *)
(***************************************************************************)
EXTENDS Naturals, Sequences, SequenceTheorems, TLAPS

CONSTANTS Objects,  \* the objects of the heap
          None,     \* a null reference
          Kinds,    \* among AllKinds
          Words     \* how many words an object has after its header, an even number

AllKinds == {"object", "structs", "numbers", "refs", "leaves", "map"}

GCMarkAssumption == /\ None \notin Objects
                    /\ Kinds \subseteq AllKinds
                    /\ Words \in Nat \ {0} /\ Words % 2 = 0

VARIABLES kind,     \* the kind of each object
          word,     \* the words of each object
          roots,    \* the roots still to be marked
          start,    \* the roots the phase has begun with
          marked,   \* the objects whose vtable has its last bit set
          calls     \* the objects gcMark is at, the innermost first, and the next child
vars == <<kind, word, roots, start, marked, calls>>

\* The layout of the class ("object") or of the items ("structs", "numbers" are
\* value types of two words): the offsets that hold references.
GCMap(k) == IF k \in {"object", "structs"} THEN <<0>> ELSE <<>>

\* "refs" and "leaves" are arrays of references to a class that has a GC map of its
\* own or has none.
ItemHasMap(k) == k \in {"structs", "refs"}
IsValueType(k) == k \in {"structs", "numbers"}
ItemSize(k) == IF IsValueType(k) THEN 2 ELSE 1

\* Mutant of Visits: an array is walked only if the class of its items has a map.
VisitsByMap(o) == IF kind[o] = "leaves" THEN <<>> ELSE word[o]

\* The words gcMark goes to, in its order. (The map of the items has one offset.)
Visits(o) ==
    LET k == kind[o] IN
    CASE k = "object" -> [j \in 1..Len(GCMap(k)) |-> word[o][GCMap(k)[j] + 1]]
      [] k = "map" -> [i \in 1..Words |-> word[o][i]]
      [] k \notin {"object", "map"} /\ ItemHasMap(k) /\ IsValueType(k) ->
            [i \in 1..(Words \div ItemSize(k)) |-> word[o][(i - 1) * ItemSize(k) + GCMap(k)[1] + 1]]
      [] k \notin {"object", "map"} /\ ~IsValueType(k) ->
            [i \in 1..(Words \div ItemSize(k)) |-> word[o][(i - 1) * ItemSize(k) + 1]]
      [] OTHER -> <<>>

Init == /\ kind \in [Objects -> Kinds]
        /\ word \in [Objects -> [1..Words -> Objects \cup {None}]]
        /\ start \in SUBSET Objects
        /\ roots = start
        /\ marked = {} /\ calls = <<>>

\* gcMark is called: a null pointer or a marked object changes nothing.
GcMark(p, callers) ==
    IF p = None \/ p \in marked
    THEN UNCHANGED marked /\ calls' = callers
    ELSE marked' = marked \cup {p} /\ calls' = <<[obj |-> p, child |-> 1]>> \o callers

MarkRoot(r) ==
    /\ calls = <<>> /\ r \in roots
    /\ roots' = roots \ {r}
    /\ GcMark(r, <<>>)
    /\ UNCHANGED <<kind, word, start>>

MarkChild ==
    /\ calls # <<>>
    /\ LET o == Head(calls).obj
           i == Head(calls).child
       IN /\ i <= Len(Visits(o))
          /\ GcMark(Visits(o)[i], <<[obj |-> o, child |-> i + 1]>> \o Tail(calls))
    /\ UNCHANGED <<kind, word, roots, start>>

Return ==
    /\ calls # <<>> /\ Head(calls).child > Len(Visits(Head(calls).obj))
    /\ calls' = Tail(calls)
    /\ UNCHANGED <<kind, word, roots, start, marked>>

Next == \/ \E r \in Objects : MarkRoot(r)
        \/ MarkChild \/ Return

Spec == Init /\ [][Next]_vars

-----------------------------------------------------------------------------
\* The references of an object, whoever looks for them: the words of its type
\* that are declared as references.
References(o) ==
    {word[o][i] : i \in CASE kind[o] = "object" -> {1}
                          [] kind[o] = "structs" -> {i \in 1..Words : i % 2 = 1}
                          [] kind[o] = "numbers" -> {}
                          [] OTHER -> 1..Words} \ {None}

Closed(S) == \A o \in S : References(o) \subseteq S
Reach(R)  == {o \in Objects : \A S \in SUBSET Objects :
                                 R \subseteq S /\ Closed(S) => o \in S}

\* When the roots are through, exactly the objects they lead to are marked,
\* whatever cycles the graph has and whatever order the roots come in.
MarksWhatIsReachable == (roots = {} /\ calls = <<>>) => marked = Reach(start)

\* Between roots, an object that is marked has been walked: its early return loses
\* nothing. No object is walked twice, so that the calls go no deeper than there are
\* objects.
MarksAreClosed == /\ marked \subseteq Reach(start)
                  /\ calls = <<>> => Closed(marked)
WalksOnce == \A i, j \in 1..Len(calls) : calls[i].obj = calls[j].obj => i = j

-----------------------------------------------------------------------------
(***************************************************************************)
(* The proof, for any graph and any number of objects.                     *)
(***************************************************************************)
Call == [obj : Objects, child : Nat \ {0}]
VisitsOf  == [o \in Objects |-> Visits(o)]
RefsOf    == [o \in Objects |-> References(o)]
Reachable == Reach(start)

Types == /\ kind \in [Objects -> Kinds]
         /\ word \in [Objects -> [1..Words -> Objects \cup {None}]]
         /\ start \subseteq Objects /\ roots \subseteq start /\ marked \subseteq Objects
         /\ calls \in Seq(Call)
\* A call is at a marked object and has marked the children it has been at.
CallsMark == \A i \in 1..Len(calls) :
    /\ calls[i].obj \in marked
    /\ \A n \in 1..(calls[i].child - 1) :
          n \in 1..Len(VisitsOf[calls[i].obj]) =>
             VisitsOf[calls[i].obj][n] \in marked \cup {None}
\* A marked object has all its children marked, or gcMark is still at it.
MarksLead == \A o \in marked : \/ RefsOf[o] \subseteq marked
                               \/ \E i \in 1..Len(calls) : calls[i].obj = o
RootsMarked == \A r \in start : r \in roots \/ r \in marked
IInv == /\ Types /\ CallsMark /\ WalksOnce /\ MarksLead /\ RootsMarked
        /\ marked \subseteq Reachable

\* gcMark visits the references of an object and nothing else.
LEMMA VisitsReferences ==
    ASSUME GCMarkAssumption, Types, NEW o \in Objects
    PROVE  /\ Len(VisitsOf[o]) \in Nat
           /\ \A n \in 1..Len(VisitsOf[o]) : VisitsOf[o][n] \in RefsOf[o] \cup {None}
           /\ \A r \in RefsOf[o] : \E n \in 1..Len(VisitsOf[o]) : VisitsOf[o][n] = r
           /\ RefsOf[o] \subseteq Objects
<1>1. PICK w : w = word[o]
  OBVIOUS
<1>2. w \in [1..Words -> Objects \cup {None}] /\ kind[o] \in AllKinds
  BY <1>1 DEF Types, GCMarkAssumption
<1>3. PICK half \in Nat : Words = 2 * half /\ Words \div 2 = half /\ half >= 1
  BY DEF GCMarkAssumption
<1>4. VisitsOf[o] = Visits(o) /\ RefsOf[o] = References(o)
  BY DEF VisitsOf, RefsOf
<1>5. CASE kind[o] = "object"
  <2>1. Visits(o) = [j \in 1..1 |-> w[1]] /\ References(o) = {w[1]} \ {None}
    BY <1>1, <1>5 DEF Visits, References, GCMap
  <2> QED
    BY <1>2, <1>3, <1>4, <2>1
<1>6. CASE kind[o] = "structs"
  <2>1. /\ Visits(o) = [i \in 1..half |-> w[2 * i - 1]]
        /\ References(o) = {w[i] : i \in {j \in 1..Words : j % 2 = 1}} \ {None}
    <3>1. Visits(o) = [i \in 1..(Words \div 2) |-> w[(i - 1) * 2 + 0 + 1]]
      BY <1>1, <1>6 DEF Visits, GCMap, ItemHasMap, IsValueType, ItemSize
    <3>2. \A i \in 1..half : (i - 1) * 2 + 0 + 1 = 2 * i - 1
      OBVIOUS
    <3> QED
      BY <1>1, <1>3, <1>6, <3>1, <3>2 DEF References
  <2>2. \A i \in 1..half : 2 * i - 1 \in 1..Words /\ (2 * i - 1) % 2 = 1
    BY <1>3
  <2>3. \A j \in 1..Words : j % 2 = 1 => \E i \in 1..half : j = 2 * i - 1
    <3> TAKE j \in 1..Words
    <3> HAVE j % 2 = 1
    <3>1. PICK k \in Nat : j = 2 * k + 1
      BY <1>3
    <3> QED
      BY <1>3, <3>1
  <2>4. Len(Visits(o)) = half /\ \A n \in 1..half : Visits(o)[n] = w[2 * n - 1]
    BY <2>1
  <2>5. \A n \in 1..half : w[2 * n - 1] \in References(o) \cup {None}
    BY <2>1, <2>2
  <2>6. \A r \in References(o) : \E n \in 1..half : w[2 * n - 1] = r
    <3> TAKE r \in References(o)
    <3>1. PICK j \in 1..Words : j % 2 = 1 /\ w[j] = r
      BY <2>1
    <3> QED
      BY <2>3, <3>1
  <2>7. References(o) \subseteq Objects
    BY <1>2, <2>1
  <2> QED
    BY <1>4, <2>4, <2>5, <2>6, <2>7
<1>7. CASE kind[o] = "numbers"
  <2>1. Visits(o) = <<>> /\ References(o) = {}
    BY <1>1, <1>7 DEF Visits, References, ItemHasMap, IsValueType
  <2> QED
    BY <1>4, <2>1
<1>8. CASE kind[o] \in {"refs", "leaves", "map"}
  <2>1. Visits(o) = [i \in 1..Words |-> w[i]] /\ References(o) = {w[i] : i \in 1..Words} \ {None}
    <3>1. kind[o] = "map" => Visits(o) = [i \in 1..Words |-> w[i]]
      BY <1>1 DEF Visits
    <3>2. Words \div 1 = Words /\ \A i \in 1..Words : (i - 1) * 1 + 1 = i
      BY DEF GCMarkAssumption
    <3>3. kind[o] # "map" => Visits(o) = [i \in 1..(Words \div 1) |-> w[(i - 1) * 1 + 1]]
      BY <1>1, <1>8 DEF Visits, ItemHasMap, IsValueType, ItemSize
    <3>4. kind[o] # "map" => Visits(o) = [i \in 1..Words |-> w[i]]
      BY <3>2, <3>3
    <3> QED
      BY <1>1, <1>8, <3>1, <3>4 DEF References
  <2> QED
    BY <1>2, <1>3, <1>4, <2>1
<1> QED
  BY <1>2, <1>5, <1>6, <1>7, <1>8 DEF AllKinds

\* Reachability is the least closed set that holds the roots.
LEMMA ReachIsLeast ==
    ASSUME GCMarkAssumption, Types
    PROVE  /\ start \subseteq Reachable /\ Reachable \subseteq Objects
           /\ \A o \in Reachable : RefsOf[o] \subseteq Reachable
           /\ \A S \in SUBSET Objects :
                 (start \subseteq S /\ \A o \in S : RefsOf[o] \subseteq S) => Reachable \subseteq S
<1>1. \A o \in Objects : RefsOf[o] = References(o) /\ RefsOf[o] \subseteq Objects
  BY VisitsReferences DEF RefsOf
<1>2. \A S \in SUBSET Objects : Closed(S) <=> \A o \in S : RefsOf[o] \subseteq S
  BY <1>1 DEF Closed
<1>3. start \subseteq Reachable /\ Reachable \subseteq Objects
  BY DEF Reachable, Reach, Types
<1>4. ASSUME NEW o \in Reachable, NEW r \in RefsOf[o]
      PROVE  r \in Reachable
  <2>1. o \in Objects /\ r \in Objects
    BY <1>1, <1>3
  <2>2. ASSUME NEW S \in SUBSET Objects, start \subseteq S, Closed(S)
        PROVE  r \in S
    <3>1. o \in S
      BY <2>2, <1>4 DEF Reachable, Reach
    <3> QED
      BY <1>2, <1>4, <2>2, <3>1
  <2> QED
    BY <2>1, <2>2 DEF Reachable, Reach
<1>5. \A S \in SUBSET Objects :
         (start \subseteq S /\ \A o \in S : RefsOf[o] \subseteq S) => Reachable \subseteq S
  BY <1>2 DEF Reachable, Reach
<1> QED
  BY <1>3, <1>4, <1>5

\* A call on top of others, and a call that moves on to its next child.
LEMMA PushCall ==
    ASSUME NEW S, NEW s \in Seq(S), NEW e \in S
    PROVE  /\ <<e>> \o s \in Seq(S) /\ Len(<<e>> \o s) = Len(s) + 1
           /\ (<<e>> \o s)[1] = e
           /\ \A i \in 1..Len(s) : (<<e>> \o s)[i + 1] = s[i]
           /\ \A i \in 2..(Len(s) + 1) : (<<e>> \o s)[i] = s[i - 1]
<1>1. <<e>> \in Seq(S) /\ Len(<<e>>) = 1 /\ <<e>>[1] = e /\ Len(s) \in Nat
  BY LenProperties
<1> QED
  BY <1>1, ConcatProperties

LEMMA MarkInit == Init => IInv
<1> SUFFICES ASSUME Init PROVE IInv
  OBVIOUS
<1>1. Types
  BY DEF Init, Types
<1>2. \A i \in 1..Len(calls) : FALSE
  BY DEF Init
<1> QED
  BY <1>1, <1>2 DEF Init, IInv, CallsMark, WalksOnce, MarksLead, RootsMarked

\* gcMark called from a root or from another call, whose own place (callers) is as
\* the invariant says but for the child p itself.
LEMMA GcMarkCalled ==
    ASSUME GCMarkAssumption, IInv, UNCHANGED <<kind, word, start>>,
           NEW p \in Reachable \cup {None}, NEW callers \in Seq(Call), GcMark(p, callers),
           roots' \subseteq roots, \A r \in roots : r \in roots' \/ r = p,
           Len(callers) = Len(calls),
           \A i \in 1..Len(calls) : callers[i].obj = calls[i].obj,
           \A i \in 1..Len(calls) : callers[i].child = calls[i].child
              \/ /\ callers[i].child = calls[i].child + 1
                 /\ calls[i].child \in 1..Len(VisitsOf[calls[i].obj])
                 /\ p = VisitsOf[calls[i].obj][calls[i].child]
    PROVE  IInv'
<1>1. VisitsOf' = VisitsOf /\ RefsOf' = RefsOf /\ Reachable' = Reachable
  <2>1. VisitsOf' = VisitsOf
    BY DEF VisitsOf, Visits, GCMap, ItemHasMap, IsValueType, ItemSize
  <2>2. RefsOf' = RefsOf
    BY DEF RefsOf, References
  <2>3. Reachable' = Reachable
    BY DEF References, Reachable, Reach, Closed
  <2> QED
    BY <2>1, <2>2, <2>3
<1>2. /\ Len(calls) \in Nat /\ \A i \in 1..Len(calls) : calls[i] \in Call /\ callers[i] \in Call
  BY LenProperties, ElementOfSeq DEF IInv, Types
<1>3. p # None => p \in Objects
  BY ReachIsLeast DEF IInv
<1>4. \A i \in 1..Len(calls) :
         /\ callers[i].obj \in marked
         /\ \A n \in 1..(callers[i].child - 1) :
               n \in 1..Len(VisitsOf[callers[i].obj]) =>
                 VisitsOf[callers[i].obj][n] \in marked \cup {None, p}
  <2> TAKE i \in 1..Len(calls)
  <2>1. callers[i].obj = calls[i].obj /\ calls[i].child \in Nat \ {0}
    BY <1>2 DEF Call
  <2>2. \A n \in 1..(callers[i].child - 1) :
           n \in 1..(calls[i].child - 1) \/ (n = calls[i].child /\ VisitsOf[calls[i].obj][n] = p)
    BY <2>1
  <2> QED
    BY <2>1, <2>2 DEF IInv, CallsMark
<1>5. CASE p = None \/ p \in marked
  <2>1. marked' = marked /\ calls' = callers
    BY <1>5 DEF GcMark
  <2>2. Types'
    BY <2>1 DEF IInv, Types
  <2>3. CallsMark'
    BY <1>1, <1>4, <1>5, <2>1 DEF CallsMark
  <2>4. WalksOnce'
    BY <2>1 DEF IInv, WalksOnce
  <2>5. MarksLead'
    BY <1>1, <2>1 DEF IInv, MarksLead
  <2>6. RootsMarked'
    BY <1>5, <2>1, GCMarkAssumption DEF IInv, RootsMarked, Types, GCMarkAssumption
  <2> QED
    BY <1>1, <2>1, <2>2, <2>3, <2>4, <2>5, <2>6 DEF IInv
<1>6. CASE p # None /\ p \notin marked
  <2>1. PICK e : e = [obj |-> p, child |-> 1]
    OBVIOUS
  <2>2. e \in Call /\ e.obj = p /\ e.child = 1
    BY <1>3, <1>6, <2>1 DEF Call
  <2>3. marked' = marked \cup {p} /\ calls' = <<e>> \o callers
    BY <1>6, <2>1 DEF GcMark
  <2>4. /\ calls' \in Seq(Call) /\ Len(calls') = Len(calls) + 1 /\ calls'[1] = e
        /\ \A i \in 1..Len(calls) : calls'[i + 1] = callers[i]
        /\ \A i \in 2..(Len(calls) + 1) : calls'[i] = callers[i - 1] /\ i - 1 \in 1..Len(calls)
    BY <1>2, <2>2, <2>3, PushCall
  <2>5. Types'
    BY <1>3, <1>6, <2>3, <2>4 DEF IInv, Types
  <2>6. \A i \in 1..Len(calls') : i = 1 \/ i \in 2..(Len(calls) + 1)
    BY <1>2, <2>4
  <2>7. CallsMark'
    <3> SUFFICES ASSUME NEW i \in 1..Len(calls')
                 PROVE  /\ calls'[i].obj \in marked'
                        /\ \A n \in 1..(calls'[i].child - 1) :
                              n \in 1..Len(VisitsOf[calls'[i].obj]) =>
                                 VisitsOf[calls'[i].obj][n] \in marked' \cup {None}
      BY <1>1 DEF CallsMark
    <3>1. CASE i = 1
      BY <2>2, <2>3, <2>4, <3>1
    <3>2. CASE i \in 2..(Len(calls) + 1)
      BY <1>4, <2>3, <2>4, <3>2
    <3> QED
      BY <2>6, <3>1, <3>2
  <2>8. WalksOnce'
    <3>1. \A i \in 2..(Len(calls) + 1) : calls'[i].obj = calls[i - 1].obj /\ calls'[i].obj # p
      BY <1>4, <1>6, <2>4
    <3>2. ASSUME NEW i \in 2..(Len(calls) + 1), NEW j \in 2..(Len(calls) + 1),
                 calls'[i].obj = calls'[j].obj
          PROVE  i - 1 = j - 1
      <4>1. i - 1 \in 1..Len(calls) /\ j - 1 \in 1..Len(calls)
        BY <2>4
      <4>2. calls[i - 1].obj = calls[j - 1].obj
        BY <3>1, <3>2
      <4> QED
        BY <4>1, <4>2 DEF IInv, WalksOnce
    <3>3. \A i, j \in 2..(Len(calls) + 1) : calls'[i].obj = calls'[j].obj => i = j
      BY <1>2, <3>2
    <3> QED
      BY <2>2, <2>4, <2>6, <3>1, <3>3 DEF WalksOnce
  <2>9. MarksLead'
    <3> SUFFICES ASSUME NEW o \in marked'
                 PROVE  \/ RefsOf[o] \subseteq marked'
                        \/ \E i \in 1..Len(calls') : calls'[i].obj = o
      BY <1>1 DEF MarksLead
    <3>1. 1 \in 1..Len(calls')
      BY <1>2, <2>4
    <3>2. \A i \in 1..Len(calls) : i + 1 \in 1..Len(calls') /\ calls'[i + 1].obj = calls[i].obj
      BY <1>2, <2>4
    <3>3. CASE o = p
      BY <2>2, <2>4, <3>1, <3>3
    <3>4. ASSUME o \in marked, RefsOf[o] \subseteq marked PROVE RefsOf[o] \subseteq marked'
      BY <2>3, <3>4
    <3>5. ASSUME NEW i \in 1..Len(calls), calls[i].obj = o
          PROVE  \E j \in 1..Len(calls') : calls'[j].obj = o
      BY <3>2, <3>5
    <3> QED
      BY <2>3, <3>3, <3>4, <3>5 DEF IInv, MarksLead
  <2>10. RootsMarked'
    BY <2>3 DEF IInv, RootsMarked
  <2> QED
    BY <1>1, <1>6, <2>3, <2>5, <2>7, <2>8, <2>9, <2>10 DEF IInv
<1> QED
  BY <1>5, <1>6

LEMMA MarkStep == GCMarkAssumption /\ IInv /\ [Next]_vars => IInv'
<1> SUFFICES ASSUME GCMarkAssumption, IInv, [Next]_vars PROVE IInv'
  OBVIOUS
<1>1. ASSUME NEW r \in Objects, MarkRoot(r) PROVE IInv'
  <2>1. r \in Reachable /\ calls = <<>>
    BY <1>1, ReachIsLeast DEF MarkRoot, IInv, Types
  <2>2. /\ UNCHANGED <<kind, word, start>> /\ GcMark(r, <<>>)
        /\ roots' \subseteq roots /\ \A s \in roots : s \in roots' \/ s = r
    BY <1>1 DEF MarkRoot
  <2>3. <<>> \in Seq(Call) /\ Len(<<>>) = Len(calls) /\ \A i \in 1..Len(calls) : FALSE
    BY <2>1
  <2> QED
    BY <2>1, <2>2, <2>3, GcMarkCalled
<1>2. CASE MarkChild
  <2>1. PICK o, n : o = Head(calls).obj /\ n = Head(calls).child
    OBVIOUS
  <2>2. /\ calls # <<>> /\ n <= Len(Visits(o)) /\ UNCHANGED <<kind, word, roots, start>>
        /\ GcMark(Visits(o)[n], <<[obj |-> o, child |-> n + 1]>> \o Tail(calls))
    BY <1>2, <2>1 DEF MarkChild
  <2>3. /\ Head(calls) = calls[1] /\ calls[1] \in Call /\ Tail(calls) \in Seq(Call)
        /\ Len(calls) \in Nat /\ Len(calls) >= 1 /\ Len(Tail(calls)) = Len(calls) - 1
        /\ \A i \in 1..(Len(calls) - 1) : Tail(calls)[i] = calls[i + 1]
    BY <2>2, HeadTailProperties, LenProperties, EmptySeq, ElementOfSeq DEF IInv, Types
  <2>4. o \in Objects /\ n \in Nat \ {0} /\ o \in marked
    BY <2>1, <2>3 DEF Call, IInv, CallsMark
  <2>5. VisitsOf[o] = Visits(o) /\ n \in 1..Len(VisitsOf[o])
    BY <2>2, <2>4, VisitsReferences DEF VisitsOf, IInv
  <2>6. PICK p : p = VisitsOf[o][n]
    OBVIOUS
  <2>7. p \in Reachable \cup {None}
    BY <2>4, <2>5, <2>6, VisitsReferences, ReachIsLeast DEF IInv
  <2>8. PICK e : e = [obj |-> o, child |-> n + 1]
    OBVIOUS
  <2>9. e \in Call /\ e.obj = o /\ e.child = n + 1
    BY <2>4, <2>8 DEF Call
  <2>10. PICK callers : callers = <<e>> \o Tail(calls)
    OBVIOUS
  <2>11. /\ callers \in Seq(Call) /\ Len(callers) = Len(calls) /\ callers[1] = e
         /\ \A i \in 2..Len(calls) : callers[i] = Tail(calls)[i - 1] /\ i - 1 \in 1..(Len(calls) - 1)
    BY <2>3, <2>9, <2>10, PushCall
  <2>12. \A i \in 2..Len(calls) : callers[i] = calls[i]
    BY <2>3, <2>11
  <2>13. \A i \in 1..Len(calls) : i = 1 \/ i \in 2..Len(calls)
    BY <2>3
  <2>14. \A i \in 1..Len(calls) : callers[i].obj = calls[i].obj
    BY <2>1, <2>3, <2>9, <2>11, <2>12, <2>13
  <2>15. \A i \in 1..Len(calls) : callers[i].child = calls[i].child
              \/ /\ callers[i].child = calls[i].child + 1
                 /\ calls[i].child \in 1..Len(VisitsOf[calls[i].obj])
                 /\ p = VisitsOf[calls[i].obj][calls[i].child]
    BY <2>1, <2>3, <2>5, <2>6, <2>9, <2>11, <2>12, <2>13
  <2>16. GcMark(p, callers)
    BY <2>2, <2>5, <2>6, <2>8, <2>10
  <2>17. roots' \subseteq roots /\ (\A r \in roots : r \in roots' \/ r = p) /\ UNCHANGED <<kind, word, start>>
    BY <2>2
  <2> QED
    BY <2>7, <2>11, <2>14, <2>15, <2>16, <2>17, GcMarkCalled
<1>3. CASE Return
  <2>1. PICK o, n : o = Head(calls).obj /\ n = Head(calls).child
    OBVIOUS
  <2>2. /\ calls # <<>> /\ n > Len(Visits(o)) /\ calls' = Tail(calls)
        /\ UNCHANGED <<kind, word, roots, start, marked>>
    BY <1>3, <2>1 DEF Return
  <2>3. /\ Head(calls) = calls[1] /\ calls[1] \in Call /\ calls' \in Seq(Call)
        /\ Len(calls) \in Nat /\ Len(calls) >= 1 /\ Len(calls') = Len(calls) - 1
        /\ \A i \in 1..(Len(calls) - 1) : calls'[i] = calls[i + 1]
    BY <2>2, HeadTailProperties, LenProperties, EmptySeq, ElementOfSeq DEF IInv, Types
  <2>4. VisitsOf' = VisitsOf /\ RefsOf' = RefsOf /\ Reachable' = Reachable
    BY <2>2 DEF VisitsOf, Visits, GCMap, ItemHasMap, IsValueType, ItemSize, RefsOf, References,
                Reachable, Reach, Closed
  <2>5. o \in Objects /\ n \in Nat \ {0} /\ VisitsOf[o] = Visits(o) /\ 1 \in 1..Len(calls)
    BY <2>1, <2>3 DEF Call, VisitsOf
  <2>6. \A k \in 1..Len(VisitsOf[o]) : VisitsOf[o][k] \in marked \cup {None}
    <3>1. Len(VisitsOf[o]) \in Nat
      BY <2>5, VisitsReferences DEF IInv
    <3>2. \A k \in 1..Len(VisitsOf[o]) : k \in 1..(n - 1)
      BY <2>2, <2>5, <3>1
    <3> QED
      BY <2>1, <2>3, <2>5, <3>2 DEF IInv, CallsMark
  <2>7. RefsOf[o] \subseteq marked
    <3>1. RefsOf[o] \subseteq Objects \ {None}
      BY <2>5, VisitsReferences DEF IInv, GCMarkAssumption
    <3> QED
      BY <2>5, <2>6, <3>1, VisitsReferences DEF IInv
  <2>8. \A i \in 1..Len(calls') : i + 1 \in 1..Len(calls) /\ calls'[i] = calls[i + 1]
    BY <2>3
  <2>9. Types'
    BY <2>2, <2>3 DEF IInv, Types
  <2>10. CallsMark'
    BY <2>2, <2>4, <2>8 DEF IInv, CallsMark
  <2>11. WalksOnce'
    <3>1. \A i, j \in 1..Len(calls') : calls'[i].obj = calls'[j].obj => i + 1 = j + 1
      BY <2>8 DEF IInv, WalksOnce
    <3>2. Len(calls') \in Nat
      BY <2>3
    <3>3. \A i, j \in 1..Len(calls') : i + 1 = j + 1 => i = j
      BY <3>2
    <3> QED
      BY <3>1, <3>3 DEF WalksOnce
  <2>12. MarksLead'
    <3> SUFFICES ASSUME NEW q \in marked
                 PROVE  \/ RefsOf[q] \subseteq marked
                        \/ \E i \in 1..Len(calls') : calls'[i].obj = q
      BY <2>2, <2>4 DEF MarksLead
    <3>1. CASE RefsOf[q] \subseteq marked
      BY <3>1
    <3>2. ASSUME NEW i \in 1..Len(calls), calls[i].obj = q PROVE RefsOf[q] \subseteq marked
                        \/ \E j \in 1..Len(calls') : calls'[j].obj = q
      <4>1. CASE i = 1
        BY <2>1, <2>3, <2>7, <3>2, <4>1
      <4>2. CASE i # 1
        <5>1. i - 1 \in 1..Len(calls') /\ (i - 1) + 1 = i
          BY <2>3, <4>2
        <5> QED
          BY <2>8, <3>2, <5>1
      <4> QED
        BY <4>1, <4>2
    <3> QED
      BY <3>1, <3>2 DEF IInv, MarksLead
  <2>13. RootsMarked' /\ (marked \subseteq Reachable)'
    BY <2>2, <2>4 DEF IInv, RootsMarked
  <2> QED
    BY <2>9, <2>10, <2>11, <2>12, <2>13 DEF IInv
<1>4. CASE UNCHANGED vars
  <2>1. VisitsOf' = VisitsOf /\ RefsOf' = RefsOf /\ Reachable' = Reachable
    BY <1>4 DEF vars, VisitsOf, Visits, GCMap, ItemHasMap, IsValueType, ItemSize, RefsOf,
                References, Reachable, Reach, Closed
  <2> QED
    BY <1>4, <2>1 DEF vars, IInv, Types, CallsMark, WalksOnce, MarksLead, RootsMarked
<1> QED
  BY <1>1, <1>2, <1>3, <1>4 DEF Next

\* What the invariant says when gcMark is nowhere.
LEMMA MarksAreRight ==
    GCMarkAssumption /\ IInv => MarksAreClosed /\ WalksOnce /\ MarksWhatIsReachable
<1> SUFFICES ASSUME GCMarkAssumption, IInv
             PROVE  MarksAreClosed /\ MarksWhatIsReachable
  BY DEF IInv
<1>1. ASSUME calls = <<>> PROVE \A o \in marked : RefsOf[o] \subseteq marked
  <2>1. \A i \in 1..Len(calls) : FALSE
    BY <1>1
  <2> QED
    BY <2>1 DEF IInv, MarksLead
<1>2. calls = <<>> => Closed(marked)
  BY <1>1 DEF Closed, RefsOf, IInv, Types
<1>3. ASSUME calls = <<>>, roots = {} PROVE Reachable \subseteq marked
  <2>1. start \subseteq marked
    BY <1>3 DEF IInv, RootsMarked
  <2> QED
    BY <1>1, <1>3, <2>1, ReachIsLeast DEF IInv, Types
<1> QED
  BY <1>2, <1>3 DEF MarksAreClosed, MarksWhatIsReachable, Reachable, IInv
=============================================================================
