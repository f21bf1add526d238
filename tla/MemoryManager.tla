---------------------------- MODULE MemoryManager ----------------------------
(***************************************************************************)
(* The garbage collector of a domain (src/src/MemoryManager.cpp), the      *)
(* objects its program exports (src/src/Remoting.cpp) and the thread of    *)
(* another domain that looks an exported object up.                        *)
(*                                                                         *)
(* A collection marks what the roots and the words of the native stack     *)
(* reach, frees the rest, and then calls the destructors of the dead       *)
(* objects that have one.  Those run Skizo code, which may allocate, read  *)
(* statics, add roots or ask for a collection.  When the domain goes, the  *)
(* "judgement day" collection sweeps everything.                           *)
(*                                                                         *)
(* The order in which gcMark visits objects is left to module GCMark, the  *)
(* memory under the objects to module PoolAllocator.                       *)
(***************************************************************************)
EXTENDS Integers, FiniteSets

CONSTANTS Slots,        \* the memory an object of the heap can occupy
          Literals,     \* the string literals of the program
          Statics,      \* the static fields of the program
          Names,        \* the names it exports objects under
          None,         \* null
          Classes,      \* among "plain", "dtor" and "closure"
          Size,         \* Size[c]: what an object of class c counts
          MaxMemory,    \* m_maxGCMemory
          MaxFields,    \* bound: references in one object
          MaxRoots,     \* bound: custom roots of one object
          MaxPressure   \* bound: custom memory pressure

ASSUME MemoryAssumption ==
    /\ Slots \cap Literals = {}
    /\ None \notin Slots \cup Literals
    /\ IsFiniteSet(Names)
    /\ Classes \subseteq {"plain", "dtor", "closure"}
    /\ Size \in [Classes -> Nat \ {0}]
    /\ MaxMemory \in Nat
    /\ MaxFields \in Nat /\ MaxRoots \in Nat /\ MaxPressure \in Nat

VARIABLES
    alloc,      \* the slots that hold an object
    class,      \* the class of the object in a slot
    refs,       \* the references in its fields
    statics,    \* the value of each static field
    locals,     \* the references the running Skizo code holds
    holders,    \* how many m_gcRootHolders an object has
    exports,    \* ExportedObjs
    importing,  \* the object another domain has looked up and goes to read
    literals,   \* the string literals that still exist
    allocd,     \* m_allocdMemory
    pressure,   \* m_customMemoryPressure
    marked,     \* the objects whose vtable has its last bit set
    pending,    \* m_destructables
    current,    \* the object whose destructor runs
    disableGC,  \* m_disableGC
    dtorsOn,    \* m_dtorsEnabled
    teardown,   \* the collection is the one of ~CDomain
    want,       \* the class Allocate goes on with after a collection
    phase       \* "run", "mark", "dtors", "dtor", "alloc" or "gone"

heap    == <<alloc, class, refs>>
roots   == <<statics, locals, holders>>
remote  == <<exports, importing>>
memory  == <<allocd, pressure>>
cycle   == <<marked, pending, current, disableGC, dtorsOn, teardown>>
control == <<want, phase>>
vars    == <<heap, roots, remote, literals, memory, cycle, control>>

Objects == Slots \cup Literals
Doomed  == pending \cup ({current} \ {None})
Used    == allocd + pressure

\* What the objects of a set count together: gc_size of each.
Units(S)    == UNION {{o} \X (1..Size[class[o]]) : o \in S}
MemoryOf(S) == Cardinality(Units(S))

\* What the collector starts from: the values of the static fields and of the
\* root holders, and the references on the stack.
Roots == (locals \cup {statics[s] : s \in Statics} \cup {o \in Objects : holders[o] > 0})
            \ {None}

\* The objects a set of objects leads to.
Closed(S) == \A o \in S : refs[o] \subseteq S
Reach(R)  == {o \in Objects : \A S \in SUBSET Objects :
                                  R \subseteq S /\ Closed(S) => o \in S}

Init == /\ alloc = {}
        /\ class = [o \in Slots |-> "plain"]
        /\ refs = [o \in Objects |-> {}]
        /\ statics = [s \in Statics |-> None]
        /\ locals = {}
        /\ holders = [o \in Objects |-> 0]
        /\ exports = [n \in Names |-> None]
        /\ importing = None
        /\ literals = Literals
        /\ allocd = 0 /\ pressure = 0
        /\ marked = {} /\ pending = {} /\ current = None
        /\ disableGC = FALSE /\ dtorsOn = TRUE /\ teardown = FALSE
        /\ want = None /\ phase = "run"

-----------------------------------------------------------------------------
(***************************************************************************)
(* The Skizo code, in a method or in a destructor.                         *)
(***************************************************************************)
Runs == phase \in {"run", "dtor"}
\* What the code can touch: an object it holds, if it is still there.
Held == locals \cap alloc

\* Judgement day leaves the statics as they are: most of them lead nowhere.
LoadStatic(s) ==
    /\ Runs /\ statics[s] # None
    /\ locals' = locals \cup {statics[s]}
    /\ UNCHANGED <<heap, statics, holders, remote, literals, memory, cycle, control>>

LoadField(o) ==
    /\ Runs /\ o \in Held
    /\ \E v \in refs[o] : locals' = locals \cup {v}
    /\ UNCHANGED <<heap, statics, holders, remote, literals, memory, cycle, control>>

LoadLiteral(l) ==
    /\ Runs /\ l \in literals
    /\ locals' = locals \cup {l}
    /\ UNCHANGED <<heap, statics, holders, remote, literals, memory, cycle, control>>

StoreStatic(s, v) ==
    /\ Runs /\ v \in locals \cup {None}
    /\ statics' = [statics EXCEPT ![s] = v]
    /\ UNCHANGED <<heap, locals, holders, remote, literals, memory, cycle, control>>

StoreField(o) ==
    /\ Runs /\ o \in Held
    /\ \/ \E v \in locals : /\ Cardinality(refs[o]) < MaxFields
                            /\ refs' = [refs EXCEPT ![o] = @ \cup {v}]
       \/ \E v \in refs[o] : refs' = [refs EXCEPT ![o] = @ \ {v}]
    /\ UNCHANGED <<alloc, class, roots, remote, literals, memory, cycle, control>>

DropLocal(o) ==
    /\ Runs /\ o \in locals
    /\ locals' = locals \ {o}
    /\ UNCHANGED <<heap, statics, holders, remote, literals, memory, cycle, control>>

\* A new object, zeroed.
New(c) ==
    \E o \in Slots \ alloc :
       /\ alloc' = alloc \cup {o}
       /\ class' = [class EXCEPT ![o] = c]
       /\ refs' = [refs EXCEPT ![o] = {}]
       /\ locals' = locals \cup {o}
       /\ allocd' = allocd + Size[c]

\* Mutant of StartCollection: the static fields are not roots.
StartCollectionWithoutStatics ==
    /\ ~disableGC
    /\ \E words \in SUBSET alloc :
          marked' = Reach((Roots \ {statics[s] : s \in Statics}) \cup words)
    /\ dtorsOn' = TRUE
    /\ phase' = "mark"
    /\ UNCHANGED <<heap, roots, remote, literals, memory, pending, current,
                   disableGC, teardown>>

\* Mutant of StartCollection: a collection starts inside a destructor.
StartCollectionAnywhere ==
    /\ \E words \in SUBSET alloc : marked' = Reach(Roots \cup words)
    /\ dtorsOn' = TRUE
    /\ phase' = "mark"
    /\ UNCHANGED <<heap, roots, remote, literals, memory, pending, current,
                   disableGC, teardown>>

\* The mark phase.  The stack is scanned conservatively: any word on it that
\* looks like an allocated object keeps that object.
StartCollection ==
    /\ ~disableGC
    /\ \E words \in SUBSET alloc : marked' = Reach(Roots \cup words)
    /\ dtorsOn' = TRUE
    /\ phase' = "mark"
    /\ UNCHANGED <<heap, roots, remote, literals, memory, pending, current,
                   disableGC, teardown>>

\* GC::collect, and nothing inside of a destructor.
Collect == Runs /\ want' = None /\ StartCollection

\* Allocate, over the limit: it collects first.  A destructor cannot collect: the
\* allocation aborts, and with it the destructor.
AllocateCollects(c) ==
    /\ Runs /\ Used > MaxMemory
    /\ want' = c
    /\ StartCollection

Allocate(c) ==
    /\ Runs /\ Used <= MaxMemory
    /\ New(c)
    /\ UNCHANGED <<statics, holders, remote, literals, pressure, cycle, control>>

\* After the collection.
AllocateGoesOn ==
    /\ phase = "alloc"
    /\ Used + Size[want] < MaxMemory
    /\ New(want)
    /\ phase' = "run" /\ want' = None
    /\ UNCHANGED <<statics, holders, remote, literals, pressure, cycle>>
AllocateAborts ==
    /\ phase = "alloc"
    /\ Used + Size[want] >= MaxMemory
    /\ phase' = "run" /\ want' = None
    /\ UNCHANGED <<heap, roots, remote, literals, memory, cycle>>

AddMemoryPressure(i) ==
    /\ Runs /\ pressure + i <= MaxPressure
    /\ pressure' = pressure + i
    /\ UNCHANGED <<heap, roots, remote, literals, allocd, cycle, control>>
RemoveMemoryPressure(i) ==
    /\ Runs
    /\ pressure' = IF pressure < i THEN 0 ELSE pressure - i
    /\ UNCHANGED <<heap, roots, remote, literals, allocd, cycle, control>>

-----------------------------------------------------------------------------
(***************************************************************************)
(* Roots and exports.                                                      *)
(***************************************************************************)
\* AddGCRoot aborts for what is not an object of the heap, a literal too.
AddGCRoot(o) ==
    /\ Runs /\ o \in Held /\ holders[o] < MaxRoots
    /\ holders' = [holders EXCEPT ![o] = @ + 1]
    /\ UNCHANGED <<heap, statics, locals, remote, literals, memory, cycle, control>>

\* The program takes back the roots it has added, and leaves those of the
\* exports alone.
RemoveGCRoot(o) ==
    /\ Runs /\ o \in Held
    /\ holders[o] > Cardinality({n \in Names : exports[n] = o})
    /\ holders' = [holders EXCEPT ![o] = @ - 1]
    /\ UNCHANGED <<heap, statics, locals, remote, literals, memory, cycle, control>>

\* RemoveGCRoot(o) does not abort, and what it leaves.
Rooted(o)   == o \in alloc /\ holders[o] > 0
Unrooted(o) == [holders EXCEPT ![o] = @ - 1]

\* Mutant of Export: the object is not rooted.
ExportUnrooted(n, o) ==
    /\ Runs /\ importing = None /\ o \in locals
    /\ exports[n] = None /\ o \in alloc
    /\ exports' = [exports EXCEPT ![n] = o]
    /\ UNCHANGED <<holders, heap, statics, locals, importing, literals, memory, cycle, control>>

\* ExportObject, under ExportedObjsMutex: the root of what had the name goes
\* first; then the new object is rooted and set, unless it is the old one.  An
\* object that cannot be rooted (a literal) aborts in between.
Export(n, o) ==
    LET prev == exports[n]
        rest == IF prev = None THEN holders ELSE Unrooted(prev)
        new  == o \in alloc /\ o # prev
    IN /\ Runs /\ importing = None /\ o \in locals
       /\ prev # None => Rooted(prev)
       /\ rest[o] < MaxRoots
       /\ holders' = IF new THEN [rest EXCEPT ![o] = @ + 1] ELSE rest
       /\ exports' = IF new THEN [exports EXCEPT ![n] = o] ELSE exports
       /\ UNCHANGED <<heap, statics, locals, importing, literals, memory, cycle, control>>

Unexport(n) ==
    /\ Runs /\ importing = None
    /\ exports[n] # None /\ Rooted(exports[n])
    /\ holders' = Unrooted(exports[n])
    /\ exports' = [exports EXCEPT ![n] = None]
    /\ UNCHANGED <<heap, statics, locals, importing, literals, memory, cycle, control>>

\* listen() finds the target of a message.
Serve(n) ==
    /\ phase = "run" /\ importing = None /\ exports[n] # None
    /\ locals' = locals \cup {exports[n]}
    /\ UNCHANGED <<heap, statics, holders, remote, literals, memory, cycle, control>>

\* ImportObject of another domain, on its own thread: it takes the mutex and
\* finds the object, and then reads its class through its vtable.
ImportFinds(n) ==
    /\ ~teardown /\ importing = None /\ exports[n] # None
    /\ importing' = exports[n]
    /\ UNCHANGED <<heap, roots, exports, literals, memory, cycle, control>>
ImportReadsClass ==
    /\ importing # None
    /\ importing' = None
    /\ UNCHANGED <<heap, roots, exports, literals, memory, cycle, control>>

-----------------------------------------------------------------------------
(***************************************************************************)
(* The collector after the mark phase.                                     *)
(***************************************************************************)
\* What a collection frees, and what it keeps for the destructors.
Dead   == alloc \ marked
Queued == {o \in Dead : (dtorsOn /\ class[o] = "dtor") \/ class[o] = "closure"}

\* Mutants of Sweep: the objects with destructors stay counted, or are freed at once.
SweepCountsFreed ==
    /\ phase = "mark"
    /\ alloc' = alloc \ (Dead \ Queued)
    /\ allocd' = allocd - MemoryOf(Dead \ Queued)
    /\ pending' = pending \cup Queued
    /\ class' = [o \in Slots |-> IF o \in alloc' THEN class[o] ELSE "plain"]
    /\ refs' = [o \in Objects |-> IF o \in Dead \ Queued THEN {} ELSE refs[o]]
    /\ marked' = {}
    /\ disableGC' = TRUE
    /\ phase' = "dtors"
    /\ UNCHANGED <<roots, remote, literals, pressure, current, dtorsOn, teardown, want>>
SweepFreesAll ==
    /\ phase = "mark"
    /\ alloc' = alloc \ Dead
    /\ allocd' = allocd - MemoryOf(Dead)
    /\ pending' = pending \cup Queued
    /\ UNCHANGED <<class, refs>>
    /\ marked' = {}
    /\ disableGC' = TRUE
    /\ phase' = "dtors"
    /\ UNCHANGED <<roots, remote, literals, pressure, current, dtorsOn, teardown, want>>

\* The dead objects are freed, those with a destructor queued; the marks of the
\* others and of the literals are taken back.
Sweep ==
    /\ phase = "mark"
    /\ alloc' = alloc \ (Dead \ Queued)
    /\ allocd' = allocd - MemoryOf(Dead)
    /\ pending' = pending \cup Queued
    /\ class' = [o \in Slots |-> IF o \in alloc' THEN class[o] ELSE "plain"]
    /\ refs' = [o \in Objects |-> IF o \in Dead \ Queued THEN {} ELSE refs[o]]
    /\ marked' = {}
    /\ disableGC' = TRUE
    /\ phase' = "dtors"
    /\ UNCHANGED <<roots, remote, literals, pressure, current, dtorsOn, teardown, want>>

\* Free(o): the slot is empty again.
Free(o) ==
    /\ alloc' = alloc \ {o}
    /\ class' = [class EXCEPT ![o] = "plain"]
    /\ refs' = [refs EXCEPT ![o] = {}]

BeginDtor(o) ==
    /\ phase = "dtors" /\ o \in pending /\ class[o] = "dtor"
    /\ pending' = pending \ {o}
    /\ current' = o
    /\ phase' = "dtor"
    /\ UNCHANGED <<heap, roots, remote, literals, memory, marked, disableGC,
                   dtorsOn, teardown, want>>

\* It returns, or aborts.
EndDtor ==
    /\ phase = "dtor"
    /\ Free(current)
    /\ current' = None
    /\ phase' = "dtors"
    /\ UNCHANGED <<roots, remote, literals, memory, marked, pending, disableGC,
                   dtorsOn, teardown, want>>

\* The built-in destructor of a closure frees its thunk.
FreeClosure(o) ==
    /\ phase = "dtors" /\ o \in pending /\ class[o] = "closure"
    /\ pending' = pending \ {o}
    /\ Free(o)
    /\ UNCHANGED <<roots, remote, literals, memory, marked, current, disableGC,
                   dtorsOn, teardown, control>>

\* Mutants of EndTeardown: one pass only, and destructors in every pass.
EndTeardownAtOnce ==
    /\ phase = "dtors" /\ pending = {} /\ teardown
    /\ disableGC' = FALSE
    /\ literals' = {}
    /\ phase' = "gone"
    /\ UNCHANGED <<heap, roots, remote, memory, marked, pending, current, dtorsOn,
                   teardown, want>>
EndTeardownWithDtors ==
    /\ phase = "dtors" /\ pending = {} /\ teardown
    /\ disableGC' = FALSE
    /\ literals' = {}
    /\ phase' = IF alloc # {} THEN "mark" ELSE "gone"
    /\ UNCHANGED <<heap, roots, remote, memory, marked, pending, current, dtorsOn,
                   teardown, want>>

\* The destructors are through.
EndCollection ==
    /\ phase = "dtors" /\ pending = {} /\ ~teardown
    /\ disableGC' = FALSE
    /\ phase' = IF want = None THEN "run" ELSE "alloc"
    /\ UNCHANGED <<heap, roots, remote, literals, memory, marked, pending, current,
                   dtorsOn, teardown, want>>

\* On judgement day the literals go too; what the destructors have made is
\* swept once more, without destructors.
EndTeardown ==
    /\ phase = "dtors" /\ pending = {} /\ teardown
    /\ disableGC' = FALSE
    /\ literals' = {}
    /\ IF alloc # {} /\ dtorsOn THEN phase' = "mark" /\ dtorsOn' = FALSE
                                ELSE phase' = "gone" /\ UNCHANGED dtorsOn
    /\ UNCHANGED <<heap, roots, remote, memory, marked, pending, current, teardown, want>>

\* ~CDomain: nobody runs in the domain any more.  There is no mark phase.
Teardown ==
    /\ phase = "run" /\ importing = None
    /\ locals' = {}
    /\ teardown' = TRUE
    /\ dtorsOn' = TRUE
    /\ phase' = "mark"
    /\ UNCHANGED <<heap, statics, holders, remote, literals, memory, marked,
                   pending, current, disableGC, want>>

-----------------------------------------------------------------------------
\* A careful program: its destructors do not use their object, and it exports
\* objects of the heap, none twice under one name.
Program ==
    \/ \E s \in Statics : LoadStatic(s) \/ \E v \in Objects \cup {None} : StoreStatic(s, v)
    \/ \E o \in Slots : LoadField(o) \/ StoreField(o) \/ AddGCRoot(o) \/ RemoveGCRoot(o)
    \/ \E l \in Literals : LoadLiteral(l)
    \/ \E o \in Objects : DropLocal(o)
    \/ \E c \in Classes : Allocate(c) \/ AllocateCollects(c)
    \/ AddMemoryPressure(1) \/ RemoveMemoryPressure(1)
    \/ Collect
    \/ \E n \in Names : \/ Unexport(n) \/ Serve(n)
                        \/ \E o \in alloc \ {exports[n]} : Export(n, o)

Collector ==
    \/ Sweep \/ (\E o \in Slots : BeginDtor(o) \/ FreeClosure(o)) \/ EndDtor
    \/ EndCollection \/ EndTeardown \/ AllocateGoesOn \/ AllocateAborts

Importer == (\E n \in Names : ImportFinds(n)) \/ ImportReadsClass

Next == Program \/ Collector \/ Importer \/ Teardown

Spec == Init /\ [][Next]_vars

\* The collector goes on, and the destructors of a Skizo program return.
FairSpec == Spec /\ WF_vars(Collector)

-----------------------------------------------------------------------------
TypeOK ==
    /\ alloc \subseteq Slots
    /\ class \in [Slots -> Classes \cup {"plain"}]
    /\ refs \in [Objects -> SUBSET Objects]
    /\ statics \in [Statics -> Objects \cup {None}]
    /\ locals \subseteq Objects
    /\ holders \in [Objects -> Nat]
    /\ exports \in [Names -> Objects \cup {None}]
    /\ importing \in Objects \cup {None}
    /\ literals \subseteq Literals
    /\ pressure \in Nat
    /\ marked \subseteq Objects
    /\ pending \subseteq Slots
    /\ current \in Slots \cup {None}
    /\ disableGC \in BOOLEAN /\ dtorsOn \in BOOLEAN /\ teardown \in BOOLEAN
    /\ want \in Classes \cup {None}
    /\ phase \in {"run", "mark", "dtors", "dtor", "alloc", "gone"}
    /\ disableGC <=> phase \in {"dtors", "dtor"}
    /\ phase = "dtor" <=> current # None

\* Transformer.cpp: nothing becomes "a zombie after a garbage collection": what
\* the program can reach is in the heap, and no destructor has run on it or
\* waits to (judgement day apart).
NoZombies == ~teardown => Reach(Roots) \subseteq (alloc \ Doomed) \cup literals

\* An exported object is there for the next message or import.
ExportedSurvives ==
    ~teardown => \A n \in Names : exports[n] # None => exports[n] \in alloc \ Doomed

\* What waits for its destructor is still in the heap, and so is the object whose
\* destructor runs: nothing is freed twice.
DoomedAllocated == Doomed \subseteq alloc /\ current \notin pending

\* m_allocdMemory counts the objects in the heap, but for those that only wait
\* for their destructors.
MemoryCounted == allocd = MemoryOf(alloc \ Doomed)

\* No destructor of the program runs after the string literals are gone.
LiteralsOutliveDtors == phase = "dtor" => literals = Literals

\* Judgement day leaves nothing, although destructors make new objects.
TeardownFreesAll == phase = "gone" => alloc = {} /\ literals = {}

\* Remoting.cpp, of ImportObject: "we're safe here accessing foreign pointers
\* directly": the vtable another domain reads is the object's.
ImportReadsVtable == importing # None => importing \in alloc \ marked

\* An object leaves the heap only when its destructor has run, but for what
\* destructors make on judgement day.
DestroyedBeforeFreed ==
    [][\A o \in alloc \ alloc' :
          class[o] = "dtor" => o = current \/ (teardown /\ ~dtorsOn)]_vars

\* Judgement day ends, even if every destructor makes an object with one.
TeardownEnds == teardown ~> phase = "gone"
=============================================================================
