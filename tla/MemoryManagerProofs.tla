------------------------- MODULE MemoryManagerProofs -------------------------
(***************************************************************************)
(* Proofs about the collector, for any heap, any program and any number of *)
(* roots and exports: no zombies, nothing freed that is in use or exported *)
(* or still to be destroyed, and a teardown that leaves nothing.           *)
(***************************************************************************)
EXTENDS MemoryManager, FiniteSetTheorems, TLAPS

\* How the phases of a collection, its queue and the heap belong together.
CycleOK ==
    /\ pending # {} => phase \in {"dtors", "dtor"}
    /\ Doomed \subseteq alloc /\ current \notin pending
    /\ phase # "mark" \/ teardown => marked = {}
    /\ phase \in {"run", "alloc"} => ~teardown
    /\ phase = "alloc" => want # None
    /\ phase = "gone" => teardown /\ alloc = {} /\ literals = {}
    /\ ~dtorsOn => /\ teardown /\ phase # "dtor"
                   /\ \A o \in pending : class[o] # "dtor"
                   /\ phase = "dtors" => alloc = pending
    /\ literals # Literals => teardown /\ (~dtorsOn \/ phase = "gone")
    /\ \A l \in Literals : refs[l] = {}

\* Each export has a root of its own.
ExportsOf(o) == {n \in Names : exports[n] = o}
RootsOK ==
    /\ exports \in [Names -> Slots \cup {None}]
    /\ \A o \in Objects : Cardinality(ExportsOf(o)) <= holders[o]

\* What the program can reach is there, and a collection has found it.
Live == (alloc \ Doomed) \cup Literals
ReachOK ==
    ~teardown => /\ Reach(Roots) \subseteq Live
                 /\ phase = "mark" => Reach(Roots) \subseteq marked

IInv == TypeOK /\ CycleOK /\ RootsOK /\ ReachOK

-----------------------------------------------------------------------------
(***************************************************************************)
(* The types and the phases.                                               *)
(***************************************************************************)
LEMMA InitShape == Init => TypeOK /\ CycleOK
<1> SUFFICES ASSUME Init PROVE TypeOK /\ CycleOK
  OBVIOUS
<1> USE MemoryAssumption DEF Init, Objects
<1>1. TypeOK
  BY DEF TypeOK
<1>2. CycleOK
  BY DEF CycleOK, Doomed
<1> QED
  BY <1>1, <1>2

\* A step of the program that moves only references.
LEMMA ReferencesMove ==
    ASSUME TypeOK, CycleOK,
           UNCHANGED <<alloc, class, literals, pressure, cycle, control>>,
           refs' \in [Objects -> SUBSET Objects],
           \A l \in Literals : refs'[l] = {},
           statics' \in [Statics -> Objects \cup {None}],
           locals' \subseteq Objects,
           holders' \in [Objects -> Nat],
           exports' \in [Names -> Objects \cup {None}],
           importing' \in Objects \cup {None}
    PROVE  TypeOK' /\ CycleOK'
<1> USE DEF cycle, control, Objects
<1>1. TypeOK'
  BY DEF TypeOK
<1>2. CycleOK'
  BY DEF CycleOK, Doomed
<1> QED
  BY <1>1, <1>2

LEMMA NewShape ==
    ASSUME TypeOK, CycleOK, NEW c \in Classes, New(c),
           phase \in {"run", "dtor", "alloc"},
           UNCHANGED <<statics, holders, remote, literals, pressure, cycle>>,
           \/ UNCHANGED control
           \/ phase = "alloc" /\ phase' = "run" /\ want' = None
    PROVE  TypeOK' /\ CycleOK'
<1> USE DEF cycle, control, remote, Objects
<1>1. PICK o \in Slots \ alloc :
         /\ alloc' = alloc \cup {o}
         /\ class' = [class EXCEPT ![o] = c]
         /\ refs' = [refs EXCEPT ![o] = {}]
         /\ locals' = locals \cup {o}
  BY DEF New
<1>2. /\ alloc' \subseteq Slots
      /\ class' \in [Slots -> Classes \cup {"plain"}]
      /\ refs' \in [Objects -> SUBSET Objects]
      /\ locals' \subseteq Objects
  BY <1>1 DEF TypeOK
<1>3. TypeOK'
  BY <1>2 DEF TypeOK
<1>4. \A l \in Literals : refs'[l] = {}
  BY <1>1, MemoryAssumption DEF TypeOK, CycleOK
<1>5. Doomed' = Doomed /\ Doomed \subseteq alloc'
  BY <1>1 DEF Doomed, CycleOK
<1>6. CycleOK'
  BY <1>1, <1>4, <1>5 DEF CycleOK, TypeOK
<1> QED
  BY <1>3, <1>6

LEMMA StartShape ==
    ASSUME TypeOK, CycleOK, Runs, StartCollection, want' \in Classes \cup {None}
    PROVE  TypeOK' /\ CycleOK'
<1> USE DEF heap, roots, remote, memory, Objects
<1>1. /\ phase = "run" /\ phase' = "mark" /\ dtorsOn' = TRUE /\ ~teardown
      /\ marked' \subseteq Objects
  BY DEF StartCollection, Runs, TypeOK, CycleOK, Reach
<1>2. UNCHANGED <<heap, roots, remote, literals, memory, pending, current,
                   disableGC, teardown>>
  BY DEF StartCollection
<1>3. TypeOK'
  BY <1>1, <1>2 DEF TypeOK
<1>4. CycleOK'
  BY <1>1, <1>2 DEF CycleOK, Doomed, TypeOK
<1> QED
  BY <1>3, <1>4

LEMMA SweepShape == TypeOK /\ CycleOK /\ Sweep => TypeOK' /\ CycleOK'
<1> SUFFICES ASSUME TypeOK, CycleOK, Sweep PROVE TypeOK' /\ CycleOK'
  OBVIOUS
<1> USE DEF roots, remote, Objects
<1>1. /\ phase = "mark" /\ alloc' = alloc \ (Dead \ Queued)
      /\ pending' = pending \cup Queued
      /\ class' = [o \in Slots |-> IF o \in alloc' THEN class[o] ELSE "plain"]
      /\ refs' = [o \in Objects |-> IF o \in Dead \ Queued THEN {} ELSE refs[o]]
      /\ marked' = {} /\ disableGC' = TRUE /\ phase' = "dtors"
      /\ UNCHANGED <<roots, remote, literals, pressure, current, dtorsOn, teardown, want>>
  BY DEF Sweep
<1>2. pending = {} /\ current = None /\ Queued \subseteq Dead /\ Dead \subseteq alloc
  BY <1>1 DEF CycleOK, TypeOK, Queued, Dead
<1>3. TypeOK'
  <2>1. alloc' \subseteq Slots /\ pending' \subseteq Slots
    BY <1>1, <1>2 DEF TypeOK
  <2>2. class' \in [Slots -> Classes \cup {"plain"}]
    BY <1>1 DEF TypeOK
  <2>3. refs' \in [Objects -> SUBSET Objects]
    BY <1>1 DEF TypeOK
  <2> QED
    BY <1>1, <1>2, <2>1, <2>2, <2>3 DEF TypeOK
<1>4. Doomed' = Queued /\ Queued \subseteq alloc'
  BY <1>1, <1>2 DEF Doomed
<1>5. ASSUME ~dtorsOn
      PROVE  /\ \A o \in pending' : class'[o] # "dtor"
             /\ alloc' = pending'
  <2>1. \A o \in Queued : class[o] = "closure"
    BY <1>5 DEF Queued
  <2>2. \A o \in Queued : class'[o] = class[o]
    BY <1>1, <1>4 DEF TypeOK
  <2>3. Dead = alloc
    BY <1>1, <1>5 DEF CycleOK, Dead
  <2>4. alloc' = pending'
    BY <1>1, <1>2, <2>3
  <2> QED
    BY <1>1, <1>2, <2>1, <2>2, <2>4
<1>6. \A l \in Literals : refs'[l] = {}
  BY <1>1 DEF CycleOK
<1>7. CycleOK'
  BY <1>1, <1>2, <1>4, <1>5, <1>6, MemoryAssumption DEF CycleOK, TypeOK
<1> QED
  BY <1>3, <1>7

LEMMA FreeShape ==
    ASSUME TypeOK, CycleOK, phase' = "dtors", UNCHANGED disableGC, disableGC,
           NEW o \in Slots, o \in Doomed, Free(o), current' = None,
           pending' = pending \ {o},
           phase = "dtors" \/ o = current,
           UNCHANGED <<roots, remote, literals, memory, marked, dtorsOn, teardown, want>>
    PROVE  TypeOK' /\ CycleOK'
<1> USE DEF roots, remote, memory, Objects
<1>1. /\ alloc' = alloc \ {o}
      /\ class' = [class EXCEPT ![o] = "plain"]
      /\ refs' = [refs EXCEPT ![o] = {}]
  BY DEF Free
<1>2. /\ alloc' \subseteq Slots /\ pending' \subseteq Slots
      /\ class' \in [Slots -> Classes \cup {"plain"}]
      /\ refs' \in [Objects -> SUBSET Objects]
  BY <1>1 DEF TypeOK
<1>3. TypeOK'
  BY <1>2 DEF TypeOK
<1>4. Doomed' = pending \ {o} /\ Doomed' \subseteq alloc'
  BY <1>1 DEF Doomed, CycleOK
<1>5. \A l \in Literals : refs'[l] = {}
  BY <1>1, MemoryAssumption DEF CycleOK, TypeOK
<1>6. \A p \in pending' : class'[p] = class[p]
  BY <1>1 DEF TypeOK
<1>7. ~dtorsOn => alloc' = pending'
  BY <1>1 DEF CycleOK, TypeOK
<1>8. phase \in {"dtors", "dtor"}
  BY DEF TypeOK
<1>9. CycleOK'
  BY <1>1, <1>4, <1>5, <1>6, <1>7, <1>8, MemoryAssumption DEF CycleOK, TypeOK
<1> QED
  BY <1>3, <1>9

LEMMA BeginDtorShape ==
    ASSUME TypeOK, CycleOK, NEW o \in Slots, BeginDtor(o)
    PROVE  TypeOK' /\ CycleOK'
<1> USE DEF heap, roots, remote, memory, Objects
<1>1. /\ phase = "dtors" /\ o \in pending /\ class[o] = "dtor"
      /\ pending' = pending \ {o} /\ current' = o /\ phase' = "dtor"
      /\ UNCHANGED <<heap, roots, remote, literals, memory, marked, disableGC,
                     dtorsOn, teardown, want>>
  BY DEF BeginDtor
<1>2. TypeOK'
  BY <1>1, MemoryAssumption DEF TypeOK
<1>3. current = None /\ Doomed' = Doomed
  BY <1>1, MemoryAssumption DEF TypeOK, Doomed
<1>4. CycleOK'
  BY <1>1, <1>3 DEF CycleOK, TypeOK
<1> QED
  BY <1>2, <1>4

LEMMA EndShape ==
    ASSUME TypeOK, CycleOK, EndCollection \/ EndTeardown
    PROVE  TypeOK' /\ CycleOK'
<1> USE DEF heap, roots, remote, memory, Objects
<1>1. CASE EndCollection
  <2>1. TypeOK'
    BY <1>1 DEF EndCollection, TypeOK
  <2>2. CycleOK'
    BY <1>1 DEF EndCollection, CycleOK, Doomed, TypeOK
  <2> QED
    BY <2>1, <2>2
<1>2. CASE EndTeardown
  <2>1. /\ phase = "dtors" /\ pending = {} /\ teardown
        /\ disableGC' = FALSE /\ literals' = {}
        /\ \/ phase' = "mark" /\ dtorsOn' = FALSE
           \/ phase' = "gone" /\ dtorsOn' = dtorsOn /\ ~(alloc # {} /\ dtorsOn)
        /\ UNCHANGED <<heap, roots, remote, memory, marked, pending, current, teardown, want>>
    BY <1>2 DEF EndTeardown
  <2>2. TypeOK'
    BY <2>1 DEF TypeOK
  <2>3. phase' = "gone" => alloc = {}
    BY <2>1 DEF CycleOK
  <2>4. Doomed' = {}
    BY <2>1 DEF Doomed, TypeOK
  <2>5. CycleOK'
    BY <2>1, <2>3, <2>4 DEF CycleOK, TypeOK
  <2> QED
    BY <2>2, <2>5
<1> QED
  BY <1>1, <1>2

LEMMA ExportShape ==
    ASSUME TypeOK, CycleOK, NEW n \in Names, NEW o \in alloc, Export(n, o)
    PROVE  TypeOK' /\ CycleOK'
<1> USE DEF heap, remote, Objects
<1>1. o \in Slots /\ o \in locals /\ o \in Objects
  BY DEF TypeOK, Export
<1>2. /\ UNCHANGED <<heap, statics, locals, importing, literals, memory, cycle, control>>
      /\ exports[n] # None => Rooted(exports[n])
  BY DEF Export
<1>3. (IF exports[n] = None THEN holders ELSE Unrooted(exports[n])) \in [Objects -> Nat]
  BY <1>2 DEF TypeOK, Rooted, Unrooted
<1>4. holders' \in [Objects -> Nat]
  BY <1>1, <1>3 DEF Export
<1>5. exports' \in [Names -> Objects \cup {None}]
  BY <1>1 DEF Export, TypeOK
<1> QED
  BY <1>2, <1>4, <1>5, ReferencesMove DEF memory, TypeOK, CycleOK

LEMMA ShapeStep == TypeOK /\ CycleOK /\ [Next]_vars => TypeOK' /\ CycleOK'
<1> SUFFICES ASSUME TypeOK, CycleOK, [Next]_vars PROVE TypeOK' /\ CycleOK'
  OBVIOUS
<1> USE DEF heap, roots, remote, memory, Objects
<1>1. ASSUME NEW s \in Statics, LoadStatic(s) PROVE TypeOK' /\ CycleOK'
  BY <1>1, ReferencesMove DEF LoadStatic, TypeOK, CycleOK
<1>2. ASSUME NEW s \in Statics, NEW v \in Objects \cup {None}, StoreStatic(s, v)
      PROVE  TypeOK' /\ CycleOK'
  <2>1. statics' \in [Statics -> Objects \cup {None}]
    BY <1>2 DEF StoreStatic, TypeOK
  <2> QED
    BY <1>2, <2>1, ReferencesMove DEF StoreStatic, TypeOK, CycleOK
<1>3. ASSUME NEW o \in Slots, LoadField(o) PROVE TypeOK' /\ CycleOK'
  <2>1. locals' \subseteq Objects
    BY <1>3 DEF LoadField, Held, TypeOK
  <2> QED
    BY <1>3, <2>1, ReferencesMove DEF LoadField, TypeOK, CycleOK
<1>4. ASSUME NEW o \in Slots, StoreField(o) PROVE TypeOK' /\ CycleOK'
  <2>1. refs' \in [Objects -> SUBSET Objects]
    <3>1. PICK r \in SUBSET Objects : refs' = [refs EXCEPT ![o] = r]
      <4>1. CASE \E v \in locals : refs' = [refs EXCEPT ![o] = @ \cup {v}]
        BY <4>1 DEF TypeOK
      <4>2. CASE \E v \in refs[o] : refs' = [refs EXCEPT ![o] = @ \ {v}]
        BY <4>2 DEF TypeOK
      <4> QED
        BY <1>4, <4>1, <4>2 DEF StoreField
    <3> QED
      BY <3>1 DEF TypeOK
  <2>2. \A l \in Literals : refs'[l] = refs[l]
    BY <1>4, MemoryAssumption DEF StoreField, TypeOK
  <2> QED
    BY <1>4, <2>1, <2>2, ReferencesMove DEF StoreField, TypeOK, CycleOK
<1>5. ASSUME NEW o \in Slots, AddGCRoot(o) PROVE TypeOK' /\ CycleOK'
  <2>1. holders' \in [Objects -> Nat]
    BY <1>5 DEF AddGCRoot, TypeOK
  <2> QED
    BY <1>5, <2>1, ReferencesMove DEF AddGCRoot, TypeOK, CycleOK
<1>6. ASSUME NEW o \in Slots, RemoveGCRoot(o) PROVE TypeOK' /\ CycleOK'
  <2>1. IsFiniteSet({n \in Names : exports[n] = o})
    BY FS_Subset, MemoryAssumption
  <2>2. Cardinality({n \in Names : exports[n] = o}) \in Nat
    BY <2>1, FS_CardinalityType
  <2>3. holders[o] \in Nat /\ holders[o] > 0
    BY <1>6, <2>2 DEF RemoveGCRoot, TypeOK
  <2>4. holders' \in [Objects -> Nat]
    BY <1>6, <2>3 DEF RemoveGCRoot, TypeOK
  <2> QED
    BY <1>6, <2>4, ReferencesMove DEF RemoveGCRoot, TypeOK, CycleOK
<1>7. ASSUME NEW l \in Literals, LoadLiteral(l) PROVE TypeOK' /\ CycleOK'
  BY <1>7, ReferencesMove DEF LoadLiteral, TypeOK, CycleOK
<1>8. ASSUME NEW o \in Objects, DropLocal(o) PROVE TypeOK' /\ CycleOK'
  BY <1>8, ReferencesMove DEF DropLocal, TypeOK, CycleOK
<1>9. ASSUME NEW c \in Classes, Allocate(c) PROVE TypeOK' /\ CycleOK'
  <2>1. phase \in {"run", "dtor", "alloc"}
    BY <1>9 DEF Allocate, Runs
  <2> QED
    BY <1>9, <2>1, NewShape DEF Allocate
<1>10. ASSUME NEW c \in Classes, AllocateCollects(c) PROVE TypeOK' /\ CycleOK'
  BY <1>10, StartShape DEF AllocateCollects
<1>11. CASE Collect
  BY <1>11, StartShape DEF Collect
<1>12. CASE AddMemoryPressure(1) \/ RemoveMemoryPressure(1)
  <2>1. pressure' \in Nat
    BY <1>12 DEF AddMemoryPressure, RemoveMemoryPressure, TypeOK
  <2>2. UNCHANGED <<heap, roots, remote, literals, allocd, cycle, control>>
    BY <1>12 DEF AddMemoryPressure, RemoveMemoryPressure
  <2>3. TypeOK'
    BY <2>1, <2>2 DEF TypeOK, cycle, control
  <2>4. CycleOK'
    BY <2>2 DEF CycleOK, Doomed, cycle, control
  <2> QED
    BY <2>3, <2>4
<1>13. ASSUME NEW n \in Names, Unexport(n) PROVE TypeOK' /\ CycleOK'
  <2>1. holders' \in [Objects -> Nat]
    BY <1>13 DEF Unexport, Rooted, Unrooted, TypeOK
  <2>2. exports' \in [Names -> Objects \cup {None}]
    BY <1>13 DEF Unexport, TypeOK
  <2> QED
    BY <1>13, <2>1, <2>2, ReferencesMove DEF Unexport, TypeOK, CycleOK
<1>14. ASSUME NEW n \in Names, Serve(n) PROVE TypeOK' /\ CycleOK'
  BY <1>14, ReferencesMove DEF Serve, TypeOK, CycleOK
<1>15. ASSUME NEW n \in Names, NEW o \in alloc \ {exports[n]}, Export(n, o)
       PROVE  TypeOK' /\ CycleOK'
  BY <1>15, ExportShape
<1>16. CASE Sweep
  BY <1>16, SweepShape
<1>17. ASSUME NEW o \in Slots, BeginDtor(o) PROVE TypeOK' /\ CycleOK'
  BY <1>17, BeginDtorShape
<1>18. ASSUME NEW o \in Slots, FreeClosure(o) PROVE TypeOK' /\ CycleOK'
  <2>1. phase = "dtors" /\ o \in Doomed /\ disableGC /\ current = None
    BY <1>18 DEF FreeClosure, Doomed, TypeOK
  <2>2. phase' = "dtors" /\ current' = None /\ UNCHANGED disableGC
    BY <1>18, <2>1 DEF FreeClosure, control
  <2> QED
    BY <1>18, <2>1, <2>2, FreeShape DEF FreeClosure, control
<1>19. CASE EndDtor
  <2>1. phase = "dtor" /\ current \in Slots /\ current \in Doomed /\ disableGC
    BY <1>19 DEF EndDtor, Doomed, TypeOK
  <2>2. pending' = pending \ {current}
    BY <1>19 DEF EndDtor, CycleOK
  <2> QED
    BY <1>19, <2>1, <2>2, FreeShape DEF EndDtor
<1>20. CASE EndCollection \/ EndTeardown
  BY <1>20, EndShape
<1>21. CASE AllocateGoesOn
  <2>1. want \in Classes
    BY <1>21 DEF AllocateGoesOn, TypeOK, CycleOK
  <2> QED
    BY <1>21, <2>1, NewShape DEF AllocateGoesOn
<1>22. CASE AllocateAborts
  <2>1. TypeOK'
    BY <1>22 DEF AllocateAborts, TypeOK, cycle
  <2>2. CycleOK'
    BY <1>22 DEF AllocateAborts, CycleOK, Doomed, cycle
  <2> QED
    BY <2>1, <2>2
<1>23. ASSUME NEW n \in Names, ImportFinds(n) PROVE TypeOK' /\ CycleOK'
  BY <1>23, ReferencesMove DEF ImportFinds, TypeOK, CycleOK
<1>24. CASE ImportReadsClass
  BY <1>24, ReferencesMove DEF ImportReadsClass, TypeOK, CycleOK
<1>25. CASE Teardown
  <2>1. TypeOK'
    BY <1>25 DEF Teardown, TypeOK
  <2>2. CycleOK'
    BY <1>25 DEF Teardown, CycleOK, Doomed, TypeOK
  <2> QED
    BY <2>1, <2>2
<1>26. CASE UNCHANGED vars
  BY <1>26, ReferencesMove DEF vars, TypeOK, CycleOK
<1> QED
  BY <1>1, <1>2, <1>3, <1>4, <1>5, <1>6, <1>7, <1>8, <1>9, <1>10, <1>11, <1>12,
     <1>13, <1>14, <1>15, <1>16, <1>17, <1>18, <1>19, <1>20, <1>21, <1>22, <1>23,
     <1>24, <1>25, <1>26
     DEF Next, Program, Collector, Importer

-----------------------------------------------------------------------------
(***************************************************************************)
(* The roots of the exports.                                               *)
(***************************************************************************)
LEMMA ExportsFinite ==
    ASSUME NEW o
    PROVE  IsFiniteSet(ExportsOf(o)) /\ Cardinality(ExportsOf(o)) \in Nat
<1>1. IsFiniteSet(ExportsOf(o))
  BY FS_Subset, MemoryAssumption DEF ExportsOf
<1> QED
  BY <1>1, FS_CardinalityType

\* What has a name has a root.
LEMMA ExportsRooted ==
    ASSUME TypeOK, RootsOK, NEW n \in Names, exports[n] # None
    PROVE  exports[n] \in Slots /\ exports[n] \in Roots
<1> DEFINE o == exports[n]
<1>1. o \in Slots /\ o \in Objects
  BY DEF RootsOK, Objects
<1>2. n \in ExportsOf(o)
  BY DEF ExportsOf
<1>3. Cardinality(ExportsOf(o)) > 0
  <2>1. ExportsOf(o) # {}
    BY <1>2
  <2> QED
    BY <2>1, ExportsFinite, FS_EmptySet
<1>4. holders[o] > 0
  BY <1>1, <1>3, ExportsFinite DEF RootsOK, TypeOK
<1> QED
  BY <1>1, <1>4, MemoryAssumption DEF Roots

LEMMA ExportRoots ==
    ASSUME TypeOK, RootsOK, NEW n \in Names, NEW o \in alloc \ {exports[n]}, Export(n, o)
    PROVE  RootsOK'
<1> DEFINE prev == exports[n]
           rest == IF prev = None THEN holders ELSE Unrooted(prev)
<1>1. /\ o \in Slots /\ o \in Objects /\ o # prev
      /\ holders' = [rest EXCEPT ![o] = @ + 1]
      /\ exports' = [exports EXCEPT ![n] = o]
      /\ prev # None => prev \in Objects /\ holders[prev] > 0
  BY DEF Export, TypeOK, Objects, Rooted
<1>2. exports' \in [Names -> Slots \cup {None}]
  BY <1>1 DEF RootsOK
<1>3. ASSUME NEW x \in Objects PROVE Cardinality(ExportsOf(x)') <= holders'[x]
  <2>1. Cardinality(ExportsOf(x)) <= holders[x] /\ holders[x] \in Nat
    BY DEF RootsOK, TypeOK
  <2>2. CASE x = o
    <3>1. ExportsOf(x)' = ExportsOf(x) \cup {n} /\ n \notin ExportsOf(x)
      BY <1>1, <2>2 DEF ExportsOf, RootsOK
    <3>2. Cardinality(ExportsOf(x)') = Cardinality(ExportsOf(x)) + 1
      BY <3>1, ExportsFinite, FS_AddElement
    <3>3. holders'[x] = holders[x] + 1
      BY <1>1, <2>2 DEF Unrooted, TypeOK
    <3> QED
      BY <2>1, <3>2, <3>3, ExportsFinite
  <2>3. CASE x = prev
    <3>1. ExportsOf(x)' = ExportsOf(x) \ {n} /\ n \in ExportsOf(x)
      BY <1>1, <2>3 DEF ExportsOf, RootsOK
    <3>2. Cardinality(ExportsOf(x)') = Cardinality(ExportsOf(x)) - 1
      BY <3>1, ExportsFinite, FS_RemoveElement
    <3>3. prev # None
      BY <2>3, MemoryAssumption DEF Objects
    <3>4. holders'[x] = holders[x] - 1
      BY <1>1, <2>3, <3>3 DEF Unrooted, TypeOK
    <3> QED
      BY <2>1, <3>2, <3>4, ExportsFinite
  <2>4. CASE x # o /\ x # prev
    <3>1. ExportsOf(x)' = ExportsOf(x)
      BY <1>1, <2>4 DEF ExportsOf, RootsOK
    <3>2. holders'[x] = holders[x]
      BY <1>1, <2>4 DEF Unrooted, TypeOK
    <3> QED
      BY <2>1, <3>1, <3>2
  <2> QED
    BY <2>2, <2>3, <2>4
<1> QED
  BY <1>2, <1>3 DEF RootsOK

LEMMA UnexportRoots ==
    ASSUME TypeOK, RootsOK, NEW n \in Names, Unexport(n)
    PROVE  RootsOK'
<1> DEFINE prev == exports[n]
<1>1. /\ prev # None /\ prev \in Objects /\ holders[prev] > 0
      /\ holders' = [holders EXCEPT ![prev] = @ - 1]
      /\ exports' = [exports EXCEPT ![n] = None]
  BY DEF Unexport, TypeOK, Rooted, Unrooted
<1>2. exports' \in [Names -> Slots \cup {None}]
  BY <1>1 DEF RootsOK
<1>3. ASSUME NEW x \in Objects PROVE Cardinality(ExportsOf(x)') <= holders'[x]
  <2>1. Cardinality(ExportsOf(x)) <= holders[x] /\ holders[x] \in Nat
    BY DEF RootsOK, TypeOK
  <2>2. x # None
    BY MemoryAssumption DEF Objects
  <2>3. CASE x = prev
    <3>1. ExportsOf(x)' = ExportsOf(x) \ {n} /\ n \in ExportsOf(x)
      BY <1>1, <2>2, <2>3 DEF ExportsOf, RootsOK
    <3>2. Cardinality(ExportsOf(x)') = Cardinality(ExportsOf(x)) - 1
      BY <3>1, ExportsFinite, FS_RemoveElement
    <3>3. holders'[x] = holders[x] - 1
      BY <1>1, <2>3 DEF TypeOK
    <3> QED
      BY <2>1, <3>2, <3>3, ExportsFinite
  <2>4. CASE x # prev
    <3>1. ExportsOf(x)' = ExportsOf(x)
      BY <1>1, <2>2, <2>4 DEF ExportsOf, RootsOK
    <3>2. holders'[x] = holders[x]
      BY <1>1, <2>4 DEF TypeOK
    <3> QED
      BY <2>1, <3>1, <3>2
  <2> QED
    BY <2>3, <2>4
<1> QED
  BY <1>2, <1>3 DEF RootsOK

\* The program adds roots, and takes back its own.
LEMMA OwnRoots ==
    ASSUME TypeOK, RootsOK, NEW o \in Slots, AddGCRoot(o) \/ RemoveGCRoot(o)
    PROVE  RootsOK'
<1>1. exports' = exports /\ o \in Objects
  BY DEF AddGCRoot, RemoveGCRoot, remote, Objects
<1>2. ASSUME NEW x \in Objects PROVE Cardinality(ExportsOf(x)') <= holders'[x]
  <2>1. ExportsOf(x)' = ExportsOf(x) /\ Cardinality(ExportsOf(x)) \in Nat
    BY <1>1, ExportsFinite DEF ExportsOf
  <2>2. Cardinality(ExportsOf(x)) <= holders[x] /\ holders[x] \in Nat
    BY DEF RootsOK, TypeOK
  <2>3. CASE AddGCRoot(o)
    <3>1. holders'[x] \in {holders[x], holders[x] + 1}
      BY <1>1, <2>3 DEF AddGCRoot, TypeOK
    <3> QED
      BY <2>1, <2>2, <3>1
  <2>4. CASE RemoveGCRoot(o)
    <3>1. x = o => holders[x] > Cardinality(ExportsOf(x)) /\ holders'[x] = holders[x] - 1
      BY <1>1, <2>4 DEF RemoveGCRoot, TypeOK, ExportsOf
    <3>2. x # o => holders'[x] = holders[x]
      BY <1>1, <2>4 DEF RemoveGCRoot, TypeOK
    <3> QED
      BY <2>1, <2>2, <3>1, <3>2
  <2> QED
    BY <2>3, <2>4
<1> QED
  BY <1>1, <1>2 DEF RootsOK

LEMMA RootsStep == TypeOK /\ RootsOK /\ [Next]_vars => RootsOK'
<1> SUFFICES ASSUME TypeOK, RootsOK, [Next]_vars PROVE RootsOK'
  OBVIOUS
<1>1. CASE UNCHANGED <<holders, exports>>
  BY <1>1 DEF RootsOK, ExportsOf
<1>2. ASSUME NEW n \in Names, NEW o \in alloc \ {exports[n]}, Export(n, o) PROVE RootsOK'
  BY <1>2, ExportRoots
<1>3. ASSUME NEW n \in Names, Unexport(n) PROVE RootsOK'
  BY <1>3, UnexportRoots
<1>4. ASSUME NEW o \in Slots, AddGCRoot(o) \/ RemoveGCRoot(o) PROVE RootsOK'
  BY <1>4, OwnRoots
<1>5. CASE Collector \/ Importer \/ Teardown \/ UNCHANGED vars
  <2>1. UNCHANGED <<holders, exports>>
    BY <1>5 DEF Collector, Importer, Teardown, Sweep, BeginDtor, FreeClosure, EndDtor,
       EndCollection, EndTeardown, AllocateGoesOn, AllocateAborts, ImportFinds,
       ImportReadsClass, vars, roots, remote
  <2> QED
    BY <1>1, <2>1
<1>6. CASE Program
  <2>1. ASSUME NEW s \in Statics,
               LoadStatic(s) \/ \E v \in Objects \cup {None} : StoreStatic(s, v)
        PROVE  UNCHANGED <<holders, exports>>
    BY <2>1 DEF LoadStatic, StoreStatic, remote
  <2>2. ASSUME NEW o \in Slots, LoadField(o) \/ StoreField(o) PROVE UNCHANGED <<holders, exports>>
    BY <2>2 DEF LoadField, StoreField, roots, remote
  <2>3. ASSUME NEW l \in Literals, LoadLiteral(l) PROVE UNCHANGED <<holders, exports>>
    BY <2>3 DEF LoadLiteral, remote
  <2>4. ASSUME NEW o \in Objects, DropLocal(o) PROVE UNCHANGED <<holders, exports>>
    BY <2>4 DEF DropLocal, remote
  <2>5. ASSUME NEW c \in Classes, Allocate(c) \/ AllocateCollects(c)
        PROVE  UNCHANGED <<holders, exports>>
    BY <2>5 DEF Allocate, AllocateCollects, StartCollection, roots, remote
  <2>6. CASE AddMemoryPressure(1) \/ RemoveMemoryPressure(1) \/ Collect
    <3>1. UNCHANGED <<holders, exports>>
      BY <2>6 DEF AddMemoryPressure, RemoveMemoryPressure, Collect, StartCollection,
         roots, remote
    <3> QED
      BY <1>1, <3>1
  <2>7. ASSUME NEW n \in Names, Serve(n) PROVE UNCHANGED <<holders, exports>>
    BY <2>7 DEF Serve, remote
  <2> QED
    BY <1>1, <1>2, <1>3, <1>4, <1>6, <2>1, <2>2, <2>3, <2>4, <2>5, <2>6, <2>7 DEF Program
<1> QED
  BY <1>5, <1>6 DEF Next

-----------------------------------------------------------------------------
(***************************************************************************)
(* What the program can reach.                                             *)
(***************************************************************************)
LEMMA ReachFacts ==
    ASSUME TypeOK, NEW R \in SUBSET Objects
    PROVE  R \subseteq Reach(R) /\ Reach(R) \subseteq Objects /\ Closed(Reach(R))
<1>1. R \subseteq Reach(R) /\ Reach(R) \subseteq Objects
  BY DEF Reach
<1>2. ASSUME NEW o \in Reach(R), NEW p \in refs[o] PROVE p \in Reach(R)
  <2>1. p \in Objects
    BY DEF Reach, TypeOK
  <2>2. ASSUME NEW S \in SUBSET Objects, R \subseteq S, Closed(S) PROVE p \in S
    <3>1. o \in S
      BY <2>2 DEF Reach
    <3> QED
      BY <2>2, <3>1 DEF Closed
  <2> QED
    BY <2>1, <2>2 DEF Reach
<1> QED
  BY <1>1, <1>2 DEF Closed

\* It is the least set with the roots that the references do not leave.
LEMMA ReachLeast ==
    ASSUME NEW R, NEW S \in SUBSET Objects, R \subseteq S, Closed(S)
    PROVE  Reach(R) \subseteq S
BY DEF Reach

LEMMA ReachLater ==
    ASSUME NEW S \in SUBSET Objects, Roots' \subseteq S, \A o \in S : refs'[o] \subseteq S
    PROVE  Reach(Roots)' \subseteq S
BY DEF Reach, Closed, Objects

LEMMA RootsType == TypeOK => Roots \in SUBSET Objects
BY DEF TypeOK, Roots

\* A step of the program whose roots and references stay among what it can
\* reach, an object X (new, or a literal) apart.
LEMMA ReachMoves ==
    ASSUME TypeOK, ReachOK, ~teardown, ~teardown', phase' # "mark",
           NEW X \in SUBSET Objects, X \subseteq Live', Live \subseteq Live',
           Roots' \subseteq Reach(Roots) \cup X,
           \A o \in Reach(Roots) \cup X : refs'[o] \subseteq Reach(Roots) \cup X
    PROVE  ReachOK'
<1>1. Reach(Roots) \cup X \in SUBSET Objects
  BY ReachFacts, RootsType
<1>2. Reach(Roots)' \subseteq Reach(Roots) \cup X
  BY <1>1, ReachLater
<1>3. Reach(Roots) \subseteq Live
  BY DEF ReachOK
<1> QED
  BY <1>2, <1>3 DEF ReachOK

\* A step that only moves references the program can reach.
LEMMA ReachShrinks ==
    ASSUME TypeOK, ReachOK, Runs,
           UNCHANGED <<alloc, pending, current, teardown, phase>>,
           Roots' \subseteq Reach(Roots),
           \A o \in Reach(Roots) : refs'[o] \subseteq Reach(Roots)
    PROVE  ReachOK'
<1>1. phase' # "mark" /\ Live' = Live
  BY DEF Runs, Live, Doomed
<1>2. CASE teardown
  BY <1>2 DEF ReachOK
<1>3. CASE ~teardown
  <2>1. {} \in SUBSET Objects /\ {} \subseteq Live' /\ Reach(Roots) \cup {} = Reach(Roots)
    OBVIOUS
  <2> QED
    BY <1>1, <1>3, <2>1, ReachMoves
<1> QED
  BY <1>2, <1>3

LEMMA ReachSame ==
    ASSUME ReachOK, UNCHANGED <<alloc, refs, statics, locals, holders, pending, current>>,
           teardown' = teardown, ~teardown /\ phase' = "mark" => phase = "mark" /\ marked' = marked
    PROVE  ReachOK'
<1>1. Reach(Roots)' = Reach(Roots)
  BY DEF Reach, Closed, Roots, Objects
<1> QED
  BY <1>1 DEF ReachOK, Live, Doomed

LEMMA NewReach ==
    ASSUME TypeOK, CycleOK, ReachOK, NEW c \in Classes, New(c), phase' # "mark",
           UNCHANGED <<statics, holders, pending, current, teardown>>
    PROVE  ReachOK'
<1>1. PICK o \in Slots \ alloc :
         /\ alloc' = alloc \cup {o}
         /\ refs' = [refs EXCEPT ![o] = {}]
         /\ locals' = locals \cup {o}
  BY DEF New
<1>2. CASE teardown
  BY <1>2 DEF ReachOK
<1>3. CASE ~teardown
  <2>1. Live' = Live \cup {o}
    BY <1>1 DEF Live, Doomed, CycleOK
  <2>2. {o} \in SUBSET Objects
    BY DEF Objects
  <2>3. Roots \subseteq Reach(Roots) /\ Closed(Reach(Roots)) /\ Reach(Roots) \subseteq Objects
    BY ReachFacts, RootsType
  <2>4. Roots' \subseteq Roots \cup {o}
    BY <1>1 DEF Roots, Objects
  <2>5. \A p \in Reach(Roots) \cup {o} : refs'[p] \subseteq Reach(Roots) \cup {o}
    BY <1>1, <2>2, <2>3 DEF TypeOK, Closed
  <2> QED
    BY <1>3, <2>1, <2>2, <2>3, <2>4, <2>5, ReachMoves
<1> QED
  BY <1>2, <1>3

LEMMA StartReach ==
    ASSUME TypeOK, ReachOK, StartCollection
    PROVE  ReachOK'
<1> USE DEF heap, roots
<1>1. /\ UNCHANGED <<heap, roots, pending, current, teardown>>
      /\ \E words \in SUBSET alloc : marked' = Reach(Roots \cup words)
  BY DEF StartCollection
<1>2. Reach(Roots)' = Reach(Roots) /\ Live' = Live
  BY <1>1 DEF Reach, Closed, Roots, Objects, Live, Doomed
<1>3. Reach(Roots) \subseteq marked'
  <2>1. PICK words \in SUBSET alloc : marked' = Reach(Roots \cup words)
    BY <1>1
  <2>2. Roots \cup words \in SUBSET Objects
    BY RootsType DEF TypeOK, Objects
  <2>3. Roots \subseteq marked' /\ marked' \in SUBSET Objects /\ Closed(marked')
    BY <2>1, <2>2, ReachFacts
  <2> QED
    BY <2>3, ReachLeast
<1> QED
  BY <1>1, <1>2, <1>3 DEF ReachOK

LEMMA SweepReach ==
    ASSUME TypeOK, CycleOK, ReachOK, Sweep
    PROVE  ReachOK'
<1>1. /\ phase = "mark" /\ phase' = "dtors" /\ teardown' = teardown
      /\ alloc' = alloc \ (Dead \ Queued)
      /\ pending' = pending \cup Queued /\ current' = current
      /\ refs' = [o \in Objects |-> IF o \in Dead \ Queued THEN {} ELSE refs[o]]
      /\ UNCHANGED <<statics, locals, holders>>
  BY DEF Sweep, roots
<1>2. CASE teardown
  BY <1>1, <1>2 DEF ReachOK
<1>3. CASE ~teardown
  <2>1. pending = {} /\ current = None
    BY <1>1 DEF CycleOK, TypeOK
  <2>2. Live' = (alloc \cap marked) \cup Literals
    BY <1>1, <2>1 DEF Live, Doomed, Queued, Dead, TypeOK
  <2>3. Roots \subseteq Reach(Roots) /\ Closed(Reach(Roots)) /\ Reach(Roots) \subseteq Objects
    BY ReachFacts, RootsType
  <2>4. Reach(Roots) \subseteq marked /\ Reach(Roots) \subseteq alloc \cup Literals
    BY <1>1, <1>3 DEF ReachOK, Live
  <2>5. Roots' = Roots
    BY <1>1 DEF Roots, Objects
  <2>6. \A o \in Reach(Roots) : refs'[o] = refs[o]
    BY <1>1, <2>3, <2>4 DEF Dead
  <2>7. Reach(Roots)' \subseteq Reach(Roots)
    BY <2>3, <2>5, <2>6, ReachLater DEF Closed
  <2> QED
    BY <1>1, <2>2, <2>4, <2>7 DEF ReachOK
<1> QED
  BY <1>2, <1>3

LEMMA FreeReach ==
    ASSUME TypeOK, CycleOK, ReachOK, NEW o \in Doomed, Free(o), phase' # "mark",
           Doomed' = Doomed \ {o}, UNCHANGED <<statics, locals, holders, teardown>>
    PROVE  ReachOK'
<1>1. /\ alloc' = alloc \ {o}
      /\ refs' = [refs EXCEPT ![o] = {}]
  BY DEF Free
<1>2. CASE teardown
  BY <1>2 DEF ReachOK
<1>3. CASE ~teardown
  <2>1. Live' = Live
    BY <1>1 DEF Live
  <2>2. Roots \subseteq Reach(Roots) /\ Closed(Reach(Roots)) /\ Reach(Roots) \subseteq Objects
    BY ReachFacts, RootsType
  <2>3. Reach(Roots) \subseteq Live
    BY <1>3 DEF ReachOK
  <2>4. o \notin Reach(Roots)
    BY <2>3, MemoryAssumption DEF Live, CycleOK, TypeOK
  <2>5. Roots' = Roots
    BY DEF Roots, Objects
  <2>6. \A p \in Reach(Roots) : refs'[p] = refs[p]
    BY <1>1, <2>4, <2>2 DEF TypeOK
  <2>7. Reach(Roots)' \subseteq Reach(Roots)
    BY <2>2, <2>5, <2>6, ReachLater DEF Closed
  <2> QED
    BY <2>1, <2>3, <2>7 DEF ReachOK
<1> QED
  BY <1>2, <1>3

LEMMA ReachProgram ==
    ASSUME TypeOK, CycleOK, RootsOK, ReachOK, Program
    PROVE  ReachOK'
<1> USE DEF heap, cycle, control, remote
<1> DEFINE S == Reach(Roots)
<1>1. Roots \subseteq S /\ S \subseteq Objects /\ \A o \in S : refs[o] \subseteq S
  BY ReachFacts, RootsType DEF Closed
<1>2. locals \ {None} \subseteq S /\ locals \subseteq Objects /\ None \notin Objects
  BY <1>1, MemoryAssumption DEF Roots, TypeOK, Objects
<1>3. ASSUME NEW s \in Statics, LoadStatic(s) PROVE ReachOK'
  <2>1. Roots' \subseteq S
    BY <1>1, <1>3 DEF LoadStatic, Roots, Objects
  <2> QED
    BY <1>1, <1>3, <2>1, ReachShrinks DEF LoadStatic
<1>4. ASSUME NEW s \in Statics, NEW v \in Objects \cup {None}, StoreStatic(s, v) PROVE ReachOK'
  <2>1. \A t \in Statics : statics'[t] \in {statics[t], v}
    BY <1>4 DEF StoreStatic, TypeOK
  <2>2. Roots' \subseteq S
    BY <1>1, <1>4, <2>1 DEF StoreStatic, Roots, Objects
  <2> QED
    BY <1>1, <1>4, <2>2, ReachShrinks DEF StoreStatic
<1>5. ASSUME NEW o \in Slots, LoadField(o) PROVE ReachOK'
  <2>1. PICK v \in refs[o] : locals' = locals \cup {v}
    BY <1>5 DEF LoadField
  <2>2. v \in S
    BY <1>1, <1>2, <1>5, <2>1 DEF LoadField, Held
  <2>3. Roots' \subseteq S
    BY <1>1, <1>5, <2>1, <2>2 DEF LoadField, Roots, Objects
  <2> QED
    BY <1>1, <1>5, <2>3, ReachShrinks DEF LoadField
<1>6. ASSUME NEW o \in Slots, StoreField(o) PROVE ReachOK'
  <2>1. \A p \in S : refs'[p] \subseteq S
    <3>1. CASE \E v \in locals : refs' = [refs EXCEPT ![o] = @ \cup {v}]
      BY <1>1, <1>2, <3>1 DEF TypeOK
    <3>2. CASE \E v \in refs[o] : refs' = [refs EXCEPT ![o] = @ \ {v}]
      BY <1>1, <3>2 DEF TypeOK
    <3> QED
      BY <1>6, <3>1, <3>2 DEF StoreField
  <2>2. Roots' = Roots
    BY <1>6 DEF StoreField, Roots, Objects, roots
  <2> QED
    BY <1>1, <1>6, <2>1, <2>2, ReachShrinks DEF StoreField
<1>7. ASSUME NEW o \in Slots, AddGCRoot(o) \/ RemoveGCRoot(o) PROVE ReachOK'
  <2>1. o \in locals /\ o \in Objects
    BY <1>7 DEF AddGCRoot, RemoveGCRoot, Held, Objects
  <2>2. \A p \in Objects : p # o => holders'[p] = holders[p]
    BY <1>7 DEF AddGCRoot, RemoveGCRoot, TypeOK
  <2>3. Runs /\ UNCHANGED <<heap, statics, locals, cycle, control>>
    BY <1>7 DEF AddGCRoot, RemoveGCRoot
  <2>4. Roots' \subseteq S
    BY <1>1, <1>2, <2>1, <2>2, <2>3 DEF Roots, Objects
  <2> QED
    BY <1>1, <2>3, <2>4, ReachShrinks
<1>8. ASSUME NEW l \in Literals, LoadLiteral(l) PROVE ReachOK'
  <2>1. /\ Runs /\ locals' = locals \cup {l}
        /\ UNCHANGED <<heap, statics, holders, cycle, control>>
    BY <1>8 DEF LoadLiteral
  <2>2. phase' # "mark" /\ Live' = Live /\ {l} \in SUBSET Objects /\ {l} \subseteq Live'
    BY <2>1 DEF Runs, Live, Doomed, Objects
  <2>3. Roots' \subseteq S \cup {l}
    BY <1>1, <2>1 DEF Roots, Objects
  <2>4. \A o \in S \cup {l} : refs'[o] \subseteq S \cup {l}
    BY <1>1, <2>1 DEF CycleOK
  <2>5. CASE teardown
    BY <2>1, <2>5 DEF ReachOK
  <2>6. CASE ~teardown
    BY <2>1, <2>2, <2>3, <2>4, <2>6, ReachMoves
  <2> QED
    BY <2>5, <2>6
<1>9. ASSUME NEW o \in Objects, DropLocal(o) PROVE ReachOK'
  <2>1. Roots' \subseteq S
    BY <1>1, <1>9 DEF DropLocal, Roots, Objects
  <2> QED
    BY <1>1, <1>9, <2>1, ReachShrinks DEF DropLocal
<1>10. ASSUME NEW c \in Classes, Allocate(c) PROVE ReachOK'
  BY <1>10, NewReach DEF Allocate, Runs
<1>11. ASSUME NEW c \in Classes, AllocateCollects(c) PROVE ReachOK'
  BY <1>11, StartReach DEF AllocateCollects
<1>12. CASE Collect
  BY <1>12, StartReach DEF Collect
<1>13. CASE AddMemoryPressure(1) \/ RemoveMemoryPressure(1)
  BY <1>13, ReachSame DEF AddMemoryPressure, RemoveMemoryPressure, roots
<1>14. ASSUME NEW n \in Names, Unexport(n) PROVE ReachOK'
  <2>1. /\ Runs /\ UNCHANGED <<heap, statics, locals, cycle, control>>
        /\ \A p \in Objects : holders'[p] > 0 => holders[p] > 0
    BY <1>14 DEF Unexport, Unrooted, TypeOK
  <2>2. Roots' \subseteq S
    BY <1>1, <2>1 DEF Roots, Objects
  <2> QED
    BY <1>1, <2>1, <2>2, ReachShrinks
<1>15. ASSUME NEW n \in Names, Serve(n) PROVE ReachOK'
  <2>1. exports[n] \in Roots
    BY <1>15, ExportsRooted DEF Serve
  <2>2. Runs
    BY <1>15 DEF Serve, Runs
  <2>3. Roots' \subseteq S
    BY <1>1, <1>15, <2>1 DEF Serve, Roots, Objects
  <2> QED
    BY <1>1, <1>15, <2>2, <2>3, ReachShrinks DEF Serve
<1>16. ASSUME NEW n \in Names, NEW o \in alloc \ {exports[n]}, Export(n, o) PROVE ReachOK'
  <2>1. /\ Runs /\ o \in locals /\ UNCHANGED <<heap, statics, locals, cycle, control>>
    BY <1>16 DEF Export
  <2>2. \A p \in Objects : p # o /\ holders'[p] > 0 => holders[p] > 0
    BY <1>16 DEF Export, Unrooted, TypeOK
  <2>3. Roots' \subseteq S
    BY <1>1, <1>2, <2>1, <2>2 DEF Roots, Objects
  <2> QED
    BY <1>1, <2>1, <2>3, ReachShrinks
<1> QED
  BY <1>3, <1>4, <1>5, <1>6, <1>7, <1>8, <1>9, <1>10, <1>11, <1>12, <1>13, <1>14,
     <1>15, <1>16 DEF Program

LEMMA ReachStep == TypeOK /\ CycleOK /\ RootsOK /\ ReachOK /\ [Next]_vars => ReachOK'
<1> SUFFICES ASSUME TypeOK, CycleOK, RootsOK, ReachOK, [Next]_vars PROVE ReachOK'
  OBVIOUS
<1> USE DEF heap, roots
<1>1. CASE Program
  BY <1>1, ReachProgram
<1>2. CASE Sweep
  BY <1>2, SweepReach
<1>3. ASSUME NEW o \in Slots, BeginDtor(o) PROVE ReachOK'
  <2>1. /\ phase = "dtors" /\ o \in pending /\ phase' = "dtor" /\ teardown' = teardown
        /\ pending' = pending \ {o} /\ current' = o /\ UNCHANGED <<heap, roots>>
    BY <1>3 DEF BeginDtor
  <2>2. current = None
    BY <2>1 DEF TypeOK
  <2>3. Doomed' = Doomed
    BY <2>1, <2>2, MemoryAssumption DEF Doomed
  <2>4. Live' = Live
    BY <2>1, <2>3 DEF Live
  <2>5. Reach(Roots)' = Reach(Roots)
    BY <2>1 DEF Reach, Closed, Roots, Objects
  <2> QED
    BY <2>1, <2>4, <2>5 DEF ReachOK
<1>4. ASSUME NEW o \in Slots, FreeClosure(o) PROVE ReachOK'
  <2>1. /\ phase = "dtors" /\ phase' = "dtors" /\ o \in Doomed /\ current = None
        /\ current' = None /\ pending' = pending \ {o}
    BY <1>4 DEF FreeClosure, Doomed, TypeOK, control
  <2>2. Doomed' = Doomed \ {o}
    BY <2>1 DEF Doomed
  <2> QED
    BY <1>4, <2>1, <2>2, FreeReach DEF FreeClosure
<1>5. CASE EndDtor
  <2>1. /\ phase' = "dtors" /\ current \in Doomed /\ current' = None
        /\ pending' = pending /\ current \notin pending
    BY <1>5 DEF EndDtor, Doomed, TypeOK, CycleOK
  <2>2. Doomed' = Doomed \ {current}
    BY <2>1 DEF Doomed
  <2> QED
    BY <1>5, <2>1, <2>2, FreeReach DEF EndDtor
<1>6. CASE EndCollection
  BY <1>6, ReachSame DEF EndCollection
<1>7. CASE EndTeardown
  BY <1>7 DEF EndTeardown, ReachOK
<1>8. CASE AllocateGoesOn
  BY <1>8, NewReach DEF AllocateGoesOn, TypeOK, CycleOK, cycle
<1>9. CASE AllocateAborts
  BY <1>9, ReachSame DEF AllocateAborts, cycle
<1>10. CASE Importer
  BY <1>10, ReachSame DEF Importer, ImportFinds, ImportReadsClass, cycle, control
<1>11. CASE Teardown
  BY <1>11 DEF Teardown, ReachOK
<1>12. CASE UNCHANGED vars
  BY <1>12, ReachSame DEF vars, cycle, control
<1> QED
  BY <1>1, <1>2, <1>3, <1>4, <1>5, <1>6, <1>7, <1>8, <1>9, <1>10, <1>11, <1>12
     DEF Next, Collector

-----------------------------------------------------------------------------
LEMMA InitHolds == Init => IInv
<1> SUFFICES ASSUME Init PROVE IInv
  OBVIOUS
<1>1. TypeOK /\ CycleOK
  BY InitShape
<1>2. RootsOK
  <2>1. \A o \in Objects : ExportsOf(o) = {}
    BY MemoryAssumption DEF Init, ExportsOf, Objects
  <2> QED
    BY <2>1, FS_EmptySet DEF Init, RootsOK
<1>3. ReachOK
  <2>1. Roots = {} /\ Closed({}) /\ {} \in SUBSET Objects
    BY DEF Init, Roots, Closed
  <2>2. Reach(Roots) \subseteq {}
    BY <2>1, ReachLeast
  <2> QED
    BY <2>2 DEF ReachOK
<1> QED
  BY <1>1, <1>2, <1>3 DEF IInv

LEMMA StepHolds == IInv /\ [Next]_vars => IInv'
BY ShapeStep, RootsStep, ReachStep DEF IInv

\* The invariant is inductive: shape, export roots and reachability together.
THEOREM Invariance == Spec => []IInv
BY InitHolds, StepHolds, PTL DEF Spec

\* The types, and what the phases of the collector have to do with m_disableGC
\* and the object whose destructor runs.
THEOREM TypeCorrect == Spec => []TypeOK
<1>1. IInv => TypeOK
  BY DEF IInv
<1> QED
  BY <1>1, Invariance, PTL

\* Nothing the program can reach is ever freed, destroyed or queued for its
\* destructor, for any heap, whatever its destructors do (without using their
\* own object) and wherever collections start.
THEOREM NothingLiveIsFreed == Spec => []NoZombies
<1>1. IInv => NoZombies
  <2> SUFFICES ASSUME IInv, ~teardown PROVE Reach(Roots) \subseteq (alloc \ Doomed) \cup literals
    BY DEF NoZombies
  <2>1. literals = Literals
    BY DEF IInv, CycleOK
  <2> QED
    BY <2>1 DEF IInv, ReachOK, Live
<1> QED
  BY <1>1, Invariance, PTL

\* An object stays while it is exported, whatever roots the program adds and takes
\* back, however often names change hands.
THEOREM ExportsStay == Spec => []ExportedSurvives
<1>1. IInv => ExportedSurvives
  <2> SUFFICES ASSUME IInv, ~teardown, NEW n \in Names, exports[n] # None
               PROVE  exports[n] \in alloc \ Doomed
    BY DEF ExportedSurvives
  <2>1. exports[n] \in Slots /\ exports[n] \in Roots
    BY ExportsRooted DEF IInv
  <2>2. exports[n] \in Reach(Roots)
    BY <2>1, ReachFacts, RootsType DEF IInv
  <2>3. exports[n] \in Live
    BY <2>2 DEF IInv, ReachOK
  <2> QED
    BY <2>1, <2>3, MemoryAssumption DEF Live
<1> QED
  BY <1>1, Invariance, PTL

\* What waits for its destructor is in the heap, and nothing is freed twice.
THEOREM DoomedStay == Spec => []DoomedAllocated
<1>1. IInv => DoomedAllocated
  BY DEF IInv, CycleOK, DoomedAllocated
<1> QED
  BY <1>1, Invariance, PTL

\* No destructor runs after the string literals are gone, and judgement day
\* leaves nothing behind.
THEOREM TeardownOrder == Spec => [](LiteralsOutliveDtors /\ TeardownFreesAll)
<1>1. IInv => LiteralsOutliveDtors /\ TeardownFreesAll
  BY DEF IInv, CycleOK, LiteralsOutliveDtors, TeardownFreesAll
<1> QED
  BY <1>1, Invariance, PTL

\* An object with a destructor leaves the heap only after it, but for the second
\* pass of judgement day.
THEOREM DestructorsRunFirst == Spec => DestroyedBeforeFreed
<1> DEFINE Ordered == \A o \in alloc \ alloc' :
                         class[o] = "dtor" => o = current \/ (teardown /\ ~dtorsOn)
<1>1. ASSUME IInv, [Next]_vars PROVE Ordered
  <2> SUFFICES ASSUME NEW o \in alloc \ alloc', class[o] = "dtor"
               PROVE  o = current \/ (teardown /\ ~dtorsOn)
    OBVIOUS
  <2>1. ASSUME Program PROVE alloc \subseteq alloc'
    BY <2>1 DEF Program, LoadStatic, StoreStatic, LoadField, StoreField, AddGCRoot,
       RemoveGCRoot, LoadLiteral, DropLocal, Allocate, AllocateCollects, Collect,
       AddMemoryPressure, RemoveMemoryPressure, Unexport, Serve, Export, New,
       StartCollection, heap
  <2>2. CASE Sweep
    <3>1. o \in Dead \ Queued
      BY <2>2 DEF Sweep
    <3>2. ~dtorsOn
      BY <3>1 DEF Queued
    <3> QED
      BY <1>1, <3>2 DEF IInv, CycleOK
  <2>3. CASE EndDtor
    BY <2>3 DEF EndDtor, Free
  <2>4. ASSUME NEW p \in Slots, FreeClosure(p) PROVE FALSE
    BY <2>4 DEF FreeClosure, Free
  <2>5. ASSUME \/ (\E p \in Slots : BeginDtor(p)) \/ EndCollection \/ EndTeardown
               \/ AllocateGoesOn \/ AllocateAborts \/ Importer \/ Teardown \/ UNCHANGED vars
        PROVE  alloc \subseteq alloc'
    BY <2>5 DEF BeginDtor, EndCollection, EndTeardown, AllocateGoesOn, AllocateAborts,
       Importer, ImportFinds, ImportReadsClass, Teardown, vars, heap, New
  <2> QED
    BY <1>1, <2>1, <2>2, <2>3, <2>4, <2>5 DEF Next, Collector
<1>2. IInv /\ [Next]_vars => [Ordered]_vars
  BY <1>1
<1> QED
  BY <1>2, Invariance, PTL DEF Spec, DestroyedBeforeFreed

-----------------------------------------------------------------------------
(***************************************************************************)
(* The memory counted.  The units of a set of objects are written for any  *)
(* assignment of classes, so that both states of a step can be compared.   *)
(***************************************************************************)
UnitsAs(cl, S) == UNION {{o} \X (1..Size[cl[o]]) : o \in S}

\* m_allocdMemory is exact, and every object of the finite heap has a class.
MemoryOK ==
    /\ IsFiniteSet(alloc)
    /\ \A o \in alloc : class[o] \in Classes
    /\ MemoryCounted

LEMMA SizesBounded == \E m \in Nat : \A c \in Classes : Size[c] \in 1..m
<1>1. \A c \in Classes : Size[c] \in Nat /\ Size[c] >= 1
  BY MemoryAssumption
<1>2. PICK a \in Nat : "plain" \in Classes => Size["plain"] <= a
  BY <1>1
<1>3. PICK b \in Nat : "dtor" \in Classes => Size["dtor"] <= b
  BY <1>1
<1>4. PICK d \in Nat : "closure" \in Classes => Size["closure"] <= d
  BY <1>1
<1>5. PICK m \in Nat : m >= a /\ m >= b /\ m >= d
  <2>1. a + b + d \in Nat /\ a + b + d >= a /\ a + b + d >= b /\ a + b + d >= d
    BY <1>2, <1>3, <1>4
  <2> QED
    BY <2>1
<1>6. \A c \in Classes : Size[c] <= m
  <2> SUFFICES ASSUME NEW c \in Classes PROVE Size[c] <= m
    OBVIOUS
  <2>1. Size[c] \in Nat
    BY <1>1
  <2>2. c \in {"plain", "dtor", "closure"}
    BY MemoryAssumption
  <2> QED
    BY <1>2, <1>3, <1>4, <1>5, <2>1, <2>2
<1> QED
  BY <1>1, <1>5, <1>6

LEMMA UnitsFinite ==
    ASSUME NEW cl, NEW S, IsFiniteSet(S), \A o \in S : cl[o] \in Classes
    PROVE  IsFiniteSet(UnitsAs(cl, S)) /\ Cardinality(UnitsAs(cl, S)) \in Nat
<1>1. PICK m \in Nat : \A c \in Classes : Size[c] \in 1..m
  BY SizesBounded
<1>2. IsFiniteSet(1..m)
  BY FS_Interval
<1>3. IsFiniteSet(S \X (1..m))
  BY <1>2, FS_Product
<1>4. UnitsAs(cl, S) \subseteq S \X (1..m)
  <2> SUFFICES ASSUME NEW p \in UnitsAs(cl, S) PROVE p \in S \X (1..m)
    OBVIOUS
  <2>1. PICK o \in S : p \in {o} \X (1..Size[cl[o]])
    BY DEF UnitsAs
  <2>2. Size[cl[o]] \in 1..m
    BY <1>1
  <2>3. 1..Size[cl[o]] \subseteq 1..m
    BY <2>2
  <2> QED
    BY <2>1, <2>3
<1>5. IsFiniteSet(UnitsAs(cl, S))
  BY <1>3, <1>4, FS_Subset
<1> QED
  BY <1>5, FS_CardinalityType

\* Sets that share no object share no unit.
LEMMA UnitsAdd ==
    ASSUME NEW cl, NEW S, IsFiniteSet(S), NEW T, IsFiniteSet(T), S \cap T = {},
           \A o \in S \cup T : cl[o] \in Classes
    PROVE  Cardinality(UnitsAs(cl, S \cup T))
             = Cardinality(UnitsAs(cl, S)) + Cardinality(UnitsAs(cl, T))
<1>1. UnitsAs(cl, S \cup T) = UnitsAs(cl, S) \cup UnitsAs(cl, T)
  BY DEF UnitsAs
<1>2. UnitsAs(cl, S) \cap UnitsAs(cl, T) = {}
  <2> SUFFICES ASSUME NEW p, p \in UnitsAs(cl, S), p \in UnitsAs(cl, T) PROVE FALSE
    OBVIOUS
  <2>1. PICK o \in S : p \in {o} \X (1..Size[cl[o]])
    BY DEF UnitsAs
  <2>2. PICK q \in T : p \in {q} \X (1..Size[cl[q]])
    BY DEF UnitsAs
  <2>3. p[1] = o /\ p[1] = q
    BY <2>1, <2>2
  <2> QED
    BY <2>3
<1>3. /\ IsFiniteSet(UnitsAs(cl, S)) /\ Cardinality(UnitsAs(cl, S)) \in Nat
      /\ IsFiniteSet(UnitsAs(cl, T)) /\ Cardinality(UnitsAs(cl, T)) \in Nat
  BY UnitsFinite
<1>4. Cardinality(UnitsAs(cl, S) \cup UnitsAs(cl, T))
        = Cardinality(UnitsAs(cl, S)) + Cardinality(UnitsAs(cl, T))
            - Cardinality(UnitsAs(cl, S) \cap UnitsAs(cl, T))
  BY <1>3, FS_Union
<1>5. Cardinality(UnitsAs(cl, S) \cap UnitsAs(cl, T)) = 0
  BY <1>2, FS_EmptySet
<1>6. Cardinality(UnitsAs(cl, S)) + Cardinality(UnitsAs(cl, T)) - 0
        = Cardinality(UnitsAs(cl, S)) + Cardinality(UnitsAs(cl, T))
  BY ONLY <1>3
<1> QED
  BY ONLY <1>1, <1>4, <1>5, <1>6

LEMMA UnitsOfOne ==
    ASSUME NEW cl, NEW o, cl[o] \in Classes
    PROVE  Cardinality(UnitsAs(cl, {o})) = Size[cl[o]]
<1>1. PICK k : k = Size[cl[o]]
  OBVIOUS
<1>2. k \in Nat /\ k >= 1
  <2>1. Size \in [Classes -> Nat \ {0}]
    BY MemoryAssumption
  <2>2. k \in Nat \ {0}
    BY ONLY <1>1, <2>1, cl[o] \in Classes
  <2> QED
    BY ONLY <2>2
<1>3. UnitsAs(cl, {o}) = {o} \X (1..k)
  BY <1>1 DEF UnitsAs
<1>4. IsFiniteSet(1..k) /\ Cardinality(1..k) = k
  BY <1>2, FS_Interval
<1>5. IsFiniteSet({o}) /\ Cardinality({o}) = 1
  BY FS_Singleton
<1>6. Cardinality({o} \X (1..k)) = Cardinality({o}) * Cardinality(1..k)
  BY ONLY <1>4, <1>5, FS_Product
<1>7. 1 * k = k
  BY ONLY <1>2
<1> QED
  BY ONLY <1>1, <1>3, <1>4, <1>5, <1>6, <1>7

\* Only the classes of the objects in a set matter for its units.
LEMMA UnitsAlike ==
    ASSUME NEW c1, NEW c2, NEW S, \A o \in S : c1[o] = c2[o]
    PROVE  UnitsAs(c1, S) = UnitsAs(c2, S)
BY DEF UnitsAs

LEMMA CountedAs ==
    /\ MemoryCounted <=> allocd = Cardinality(UnitsAs(class, alloc \ Doomed))
    /\ MemoryCounted' <=> allocd' = Cardinality(UnitsAs(class', alloc' \ Doomed'))
BY DEF MemoryCounted, MemoryOf, Units, UnitsAs

\* A step that leaves the counter and the counted objects alone.
LEMMA CountKept ==
    ASSUME MemoryOK, allocd' = allocd, alloc' \subseteq alloc,
           alloc' \ Doomed' = alloc \ Doomed,
           \A o \in alloc' : class'[o] = class[o]
    PROVE  MemoryOK'
<1>1. IsFiniteSet(alloc')
  BY FS_Subset DEF MemoryOK
<1>2. \A o \in alloc' : class'[o] \in Classes
  BY DEF MemoryOK
<1>3. UnitsAs(class', alloc' \ Doomed') = UnitsAs(class, alloc' \ Doomed')
  BY UnitsAlike
<1>4. allocd = Cardinality(UnitsAs(class, alloc \ Doomed))
  BY CountedAs DEF MemoryOK
<1>5. MemoryCounted'
  BY <1>3, <1>4, CountedAs
<1> QED
  BY <1>1, <1>2, <1>5 DEF MemoryOK

\* A new object is counted once.
LEMMA NewCounted ==
    ASSUME TypeOK, CycleOK, MemoryOK, NEW c \in Classes, New(c), UNCHANGED cycle
    PROVE  MemoryOK'
<1>1. PICK o \in Slots \ alloc :
         /\ alloc' = alloc \cup {o}
         /\ class' = [class EXCEPT ![o] = c]
         /\ allocd' = allocd + Size[c]
  BY DEF New
<1>2. Doomed' = Doomed /\ Doomed \subseteq alloc
  BY DEF cycle, Doomed, CycleOK
<1>3. IsFiniteSet(alloc')
  BY <1>1, FS_AddElement DEF MemoryOK
<1>4. class'[o] = c /\ \A p \in alloc : class'[p] = class[p]
  BY <1>1 DEF TypeOK
<1>5. \A p \in alloc' : class'[p] \in Classes
  BY <1>1, <1>4 DEF MemoryOK
<1>6. alloc' \ Doomed' = (alloc \ Doomed) \cup {o}
  BY <1>1, <1>2
<1>7. IsFiniteSet(alloc \ Doomed) /\ IsFiniteSet({o})
  BY FS_Difference, FS_Singleton DEF MemoryOK
<1>8. Cardinality(UnitsAs(class', alloc' \ Doomed'))
        = Cardinality(UnitsAs(class', alloc \ Doomed)) + Cardinality(UnitsAs(class', {o}))
  <2>1. (alloc \ Doomed) \cap {o} = {}
    BY <1>1
  <2>2. \A p \in (alloc \ Doomed) \cup {o} : class'[p] \in Classes
    BY <1>1, <1>5
  <2>3. \A cl : (\A p \in (alloc \ Doomed) \cup {o} : cl[p] \in Classes)
                   => Cardinality(UnitsAs(cl, (alloc \ Doomed) \cup {o}))
                        = Cardinality(UnitsAs(cl, alloc \ Doomed)) + Cardinality(UnitsAs(cl, {o}))
    BY <1>7, <2>1, UnitsAdd
  <2> QED
    BY <1>6, <2>2, <2>3
<1>9. UnitsAs(class', alloc \ Doomed) = UnitsAs(class, alloc \ Doomed)
  BY <1>4, UnitsAlike
<1>10. Cardinality(UnitsAs(class', {o})) = Size[c]
  BY <1>4, UnitsOfOne
<1>11. MemoryCounted'
  BY <1>1, <1>8, <1>9, <1>10, CountedAs DEF MemoryOK
<1> QED
  BY <1>3, <1>5, <1>11 DEF MemoryOK

\* The sweep takes off what it frees and what it queues.
LEMMA SweepCounted ==
    ASSUME TypeOK, CycleOK, MemoryOK, Sweep
    PROVE  MemoryOK'
<1>1. /\ phase = "mark" /\ alloc' = alloc \ (Dead \ Queued)
      /\ pending' = pending \cup Queued
      /\ class' = [o \in Slots |-> IF o \in alloc' THEN class[o] ELSE "plain"]
      /\ allocd' = allocd - MemoryOf(Dead)
      /\ current' = current
  BY DEF Sweep
<1>2. pending = {} /\ current = None /\ Queued \subseteq Dead /\ Dead \subseteq alloc
  BY <1>1 DEF CycleOK, TypeOK, Queued, Dead
<1>3. Doomed = {} /\ Doomed' = Queued
  BY <1>1, <1>2 DEF Doomed
<1>4. alloc \ Doomed = (alloc \ Dead) \cup Dead /\ alloc' \ Doomed' = alloc \ Dead
  BY <1>1, <1>2, <1>3
<1>5. IsFiniteSet(alloc') /\ IsFiniteSet(alloc \ Dead) /\ IsFiniteSet(Dead)
  BY <1>1, <1>2, FS_Subset DEF MemoryOK
<1>6. \A o \in alloc' : class'[o] = class[o]
  BY <1>1 DEF TypeOK
<1>7. Cardinality(UnitsAs(class, (alloc \ Dead) \cup Dead))
        = Cardinality(UnitsAs(class, alloc \ Dead)) + Cardinality(UnitsAs(class, Dead))
  <2>1. \A o \in (alloc \ Dead) \cup Dead : class[o] \in Classes
    BY <1>2 DEF MemoryOK
  <2> QED
    BY <1>5, <2>1, UnitsAdd
<1>8. MemoryOf(Dead) = Cardinality(UnitsAs(class, Dead))
  BY DEF MemoryOf, Units, UnitsAs
<1>9. /\ Cardinality(UnitsAs(class, alloc \ Dead)) \in Nat
      /\ Cardinality(UnitsAs(class, Dead)) \in Nat
  BY <1>2, <1>5, UnitsFinite DEF MemoryOK
<1>10. allocd = Cardinality(UnitsAs(class, alloc \ Dead)) + Cardinality(UnitsAs(class, Dead))
  BY <1>4, <1>7, CountedAs DEF MemoryOK
<1>11. allocd' = Cardinality(UnitsAs(class, alloc \ Dead))
  BY <1>1, <1>8, <1>9, <1>10
<1>12. UnitsAs(class', alloc \ Dead) = UnitsAs(class, alloc \ Dead)
  BY <1>1, <1>6, UnitsAlike
<1>13. MemoryCounted'
  BY <1>4, <1>11, <1>12, CountedAs
<1> QED
  BY <1>1, <1>5, <1>6, <1>13 DEF MemoryOK

\* An object that was doomed is freed: it counts no more since the sweep.
LEMMA FreeCounted ==
    ASSUME TypeOK, MemoryOK, NEW o \in Doomed, Free(o), Doomed' = Doomed \ {o},
           UNCHANGED allocd
    PROVE  MemoryOK'
<1>1. alloc' = alloc \ {o} /\ class' = [class EXCEPT ![o] = "plain"]
  BY DEF Free
<1>2. alloc' \ Doomed' = alloc \ Doomed /\ alloc' \subseteq alloc
  BY <1>1
<1>3. \A p \in alloc' : class'[p] = class[p]
  BY <1>1 DEF TypeOK
<1> QED
  BY <1>2, <1>3, CountKept

LEMMA MemoryStep == TypeOK /\ CycleOK /\ MemoryOK /\ [Next]_vars => MemoryOK'
<1> SUFFICES ASSUME TypeOK, CycleOK, MemoryOK, [Next]_vars PROVE MemoryOK'
  OBVIOUS
<1> DEFINE Still == UNCHANGED <<alloc, class, allocd, pending, current>>
<1>1. ASSUME Still PROVE MemoryOK'
  BY <1>1, CountKept DEF Doomed
<1>2. ASSUME NEW c \in Classes, Allocate(c) PROVE MemoryOK'
  BY <1>2, NewCounted DEF Allocate
<1>3. CASE Program
  <2>1. ASSUME NEW s \in Statics, LoadStatic(s) \/ \E v \in Objects \cup {None} : StoreStatic(s, v)
        PROVE  Still
    BY <2>1 DEF LoadStatic, StoreStatic, heap, memory, cycle
  <2>2. ASSUME NEW o \in Slots, LoadField(o) \/ StoreField(o) \/ AddGCRoot(o) \/ RemoveGCRoot(o)
        PROVE  Still
    BY <2>2 DEF LoadField, StoreField, AddGCRoot, RemoveGCRoot, heap, memory, cycle
  <2>3. ASSUME NEW l \in Literals, LoadLiteral(l) PROVE Still
    BY <2>3 DEF LoadLiteral, heap, memory, cycle
  <2>4. ASSUME NEW o \in Objects, DropLocal(o) PROVE Still
    BY <2>4 DEF DropLocal, heap, memory, cycle
  <2>5. ASSUME NEW c \in Classes, AllocateCollects(c) PROVE Still
    BY <2>5 DEF AllocateCollects, StartCollection, heap, memory
  <2>6. CASE Collect
    BY <2>6, <1>1 DEF Collect, StartCollection, heap, memory
  <2>7. CASE AddMemoryPressure(1) \/ RemoveMemoryPressure(1)
    BY <2>7, <1>1 DEF AddMemoryPressure, RemoveMemoryPressure, heap, cycle
  <2>8. ASSUME NEW n \in Names, Unexport(n) \/ Serve(n) PROVE Still
    BY <2>8 DEF Unexport, Serve, heap, memory, cycle
  <2>9. ASSUME NEW n \in Names, NEW o \in alloc, Export(n, o) PROVE Still
    BY <2>9 DEF Export, heap, memory, cycle
  <2> QED
    BY <1>1, <1>2, <1>3, <2>1, <2>2, <2>3, <2>4, <2>5, <2>6, <2>7, <2>8, <2>9 DEF Program
<1>4. CASE Sweep
  BY <1>4, SweepCounted
<1>5. ASSUME NEW o \in Slots, BeginDtor(o) PROVE MemoryOK'
  <2>1. o \in pending /\ pending' = pending \ {o} /\ current' = o /\ current = None
    BY <1>5 DEF BeginDtor, TypeOK
  <2>2. Doomed' = Doomed
    BY <2>1, MemoryAssumption DEF Doomed
  <2> QED
    BY <1>5, <2>2, CountKept DEF BeginDtor, heap, memory
<1>6. ASSUME NEW o \in Slots, FreeClosure(o) PROVE MemoryOK'
  <2>1. /\ o \in pending /\ pending' = pending \ {o} /\ current' = current
        /\ current = None /\ Free(o) /\ allocd' = allocd
    BY <1>6 DEF FreeClosure, TypeOK, memory
  <2>2. o \in Doomed /\ Doomed' = Doomed \ {o}
    BY <2>1 DEF Doomed
  <2> QED
    BY <2>1, <2>2, FreeCounted
<1>7. CASE EndDtor
  <2>1. current # None /\ Free(current) /\ current' = None /\ pending' = pending /\ allocd' = allocd
    BY <1>7 DEF EndDtor, TypeOK, memory
  <2>2. current \in Doomed /\ Doomed' = Doomed \ {current}
    BY <2>1 DEF Doomed, CycleOK
  <2> QED
    BY <2>1, <2>2, FreeCounted
<1>8. CASE EndCollection \/ EndTeardown
  BY <1>1, <1>8 DEF EndCollection, EndTeardown, heap, memory
<1>9. CASE AllocateGoesOn
  <2>1. want \in Classes
    BY <1>9 DEF AllocateGoesOn, TypeOK, CycleOK
  <2> QED
    BY <1>9, <2>1, NewCounted DEF AllocateGoesOn
<1>10. CASE AllocateAborts
  BY <1>1, <1>10 DEF AllocateAborts, heap, memory, cycle
<1>11. CASE Importer
  BY <1>1, <1>11 DEF Importer, ImportFinds, ImportReadsClass, heap, memory, cycle
<1>12. CASE Teardown \/ UNCHANGED vars
  BY <1>1, <1>12 DEF Teardown, vars, heap, memory, cycle
<1> QED
  BY <1>3, <1>4, <1>5, <1>6, <1>7, <1>8, <1>9, <1>10, <1>11, <1>12 DEF Next, Collector

LEMMA MemoryInit == Init => MemoryOK
<1> SUFFICES ASSUME Init PROVE MemoryOK
  OBVIOUS
<1>1. IsFiniteSet(alloc) /\ alloc = {}
  BY FS_EmptySet DEF Init
<1>2. UnitsAs(class, alloc \ Doomed) = {}
  BY <1>1 DEF UnitsAs
<1>3. MemoryCounted
  BY <1>2, FS_EmptySet, CountedAs DEF Init
<1> QED
  BY <1>1, <1>3 DEF MemoryOK

\* m_allocdMemory is exact at every moment: through allocations inside of
\* destructors, sweeps that free some objects and queue others, and both passes
\* of judgement day, for any heap and any sizes.
THEOREM MemoryIsCounted == Spec => []MemoryCounted
<1>1. Init => MemoryOK
  BY MemoryInit
<1>2. IInv /\ MemoryOK /\ [Next]_vars => MemoryOK'
  BY MemoryStep DEF IInv
<1>3. MemoryOK => MemoryCounted
  BY DEF MemoryOK
<1> QED
  BY <1>1, <1>2, <1>3, Invariance, PTL DEF Spec
=============================================================================
