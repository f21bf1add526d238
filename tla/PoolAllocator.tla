----------------------------- MODULE PoolAllocator -----------------------------
(***************************************************************************)
(* The memory of a heap (src/src/PoolAllocator.cpp).  Each element size    *)
(* has a pool with a free list; pools get their elements from arenas,      *)
(* which are never given back.  Objects too large for an arena come from   *)
(* malloc and are kept in a set.                                           *)
(*                                                                         *)
(* Memory is counted in granules (GRANULARITY), of which the header of an  *)
(* element takes one.  A pointer is <<arena, granule>>, or the name of a   *)
(* block of malloc.                                                        *)
(***************************************************************************)
EXTENDS Integers, FiniteSets, Sequences, SequencesExt

CONSTANTS Blocks,       \* the blocks malloc has for large objects
          ObjectSizes,  \* the sizes that are asked for
          Target,       \* TARGET_ARENA_SIZE
          MinCount,     \* MIN_OBJECT_COUNT_PER_ARENA
          MaxArenas,    \* bound: arenas
          None

\* What malloc returns is in no arena.
PoolAssumption ==
    /\ ObjectSizes \subseteq Nat \ {0}
    /\ Target \in Nat /\ MinCount \in Nat \ {0} /\ MaxArenas \in Nat
    /\ Blocks \cap (Nat \X Nat) = {} /\ None \notin Blocks \cup (Nat \X Nat)

VARIABLES
    arenas,         \* m_arenas: the element size of each one
    pooled,         \* the elements whose Pool is set: the allocated ones
    freeList,       \* m_freeList of the pool of each element size
    large,          \* m_largeObjectSet
    objectsToFree,  \* m_objectsToFree, without those that have been freed from it
    objectCount,    \* m_objectCount
    cursor,         \* the element EnumerateObjects is at, past the last arena when it
                    \* is at the large objects, or None
    largeLeft,      \* the large objects it has still to visit
    last            \* the pointer that was returned or visited last
vars == <<arenas, pooled, freeList, large, objectsToFree, objectCount, cursor, largeLeft, last>>

GetElementSize(objectSize) == 1 + objectSize
isLargeObject(sz) == sz > Target \/ Target \div sz < MinCount

PoolSizes == {sz \in {GetElementSize(s) : s \in ObjectSizes} : ~isLargeObject(sz)}
ElementCount(sz) == Target \div sz

\* The elements of an arena, as the granules they begin at.
Elements(a) == {<<a, i * arenas[a]>> : i \in 0..(ElementCount(arenas[a]) - 1)}
AllElements == UNION {Elements(a) : a \in DOMAIN arenas}

GetObjectStart(e)   == <<e[1], e[2] + 1>>
GetElementHeader(p) == <<p[1], p[2] - 1>>

Pointers == ((1..MaxArenas) \X (0..(Target + 1))) \cup Blocks

m_isEnumerating == cursor # None
\* No enumeration is going on, and the last one has freed what was put aside.
Idle == ~m_isEnumerating /\ objectsToFree = <<>>

Init == /\ arenas = <<>> /\ pooled = {} /\ large = {}
        /\ freeList = [sz \in PoolSizes |-> <<>>]
        /\ objectsToFree = <<>> /\ objectCount = 0
        /\ cursor = None /\ largeLeft = {} /\ last = None

-----------------------------------------------------------------------------
\* CPool::Allocate from a free list: the element is taken off it and marked.
Take(sz, list) ==
    /\ freeList' = [freeList EXCEPT ![sz] = Tail(list)]
    /\ pooled' = pooled \cup {Head(list)}
    /\ last' = GetObjectStart(Head(list))
    /\ objectCount' = objectCount + 1

\* An empty pool first gets an arena: its elements go to the list one by one, so
\* that the last one is the first to be taken.
NewArena(sz) ==
    LET a == Len(arenas) + 1
        n == ElementCount(sz)
    IN /\ freeList[sz] = <<>> /\ a <= MaxArenas
       /\ arenas' = Append(arenas, sz)
       /\ Take(sz, [i \in 1..n |-> <<a, (n - i) * sz>>])

\* Mutant of Reuse: the element stays on the free list.
ReuseAndKeep(sz) ==
    /\ freeList[sz] # <<>>
    /\ pooled' = pooled \cup {Head(freeList[sz])}
    /\ last' = GetObjectStart(Head(freeList[sz]))
    /\ objectCount' = objectCount + 1
    /\ UNCHANGED <<arenas, freeList>>

Reuse(sz) ==
    /\ freeList[sz] # <<>>
    /\ Take(sz, freeList[sz])
    /\ UNCHANGED arenas

AllocateLarge(b) ==
    /\ b \in Blocks \ large
    /\ large' = large \cup {b}
    /\ last' = b
    /\ objectCount' = objectCount + 1
    /\ UNCHANGED <<arenas, pooled, freeList>>

\* SPoolAllocator::Allocate; the collector does not allocate during a sweep.
Allocate(objectSize) ==
    LET sz == GetElementSize(objectSize)
    IN /\ Idle
       /\ IF isLargeObject(sz)
            THEN \E b \in Blocks : AllocateLarge(b)
            ELSE (NewArena(sz) \/ Reuse(sz)) /\ UNCHANGED large
       /\ UNCHANGED <<objectsToFree, cursor, largeLeft>>

\* Mutant of Release: the count is kept by the pools, so that the return of a
\* large block is not counted.
ReleaseUncounted(p) ==
    LET e == GetElementHeader(p)
    IN \/ /\ p \in large /\ large' = large \ {p}
          /\ UNCHANGED <<pooled, freeList, objectCount>>
       \/ /\ p \notin large /\ pooled' = pooled \ {e}
          /\ freeList' = [freeList EXCEPT ![arenas[e[1]]] = <<e>> \o @]
          /\ objectCount' = objectCount - 1
          /\ UNCHANGED large

\* Free, when there is no enumeration: the element goes back to the pool of its size.
Release(p) ==
    LET e == GetElementHeader(p)
    IN /\ \/ /\ p \in large /\ large' = large \ {p}
             /\ UNCHANGED <<pooled, freeList>>
          \/ /\ p \notin large /\ pooled' = pooled \ {e}
             /\ freeList' = [freeList EXCEPT ![arenas[e[1]]] = <<e>> \o @]
             /\ UNCHANGED large
       /\ objectCount' = objectCount - 1

IsValidPointer(p) ==
    IF p \in Blocks THEN p \in large
    ELSE LET e == GetElementHeader(p)
         IN /\ p[1] \in DOMAIN arenas
            /\ e[2] >= 0 /\ e[2] < ElementCount(arenas[p[1]]) * arenas[p[1]]
            /\ e[2] % arenas[p[1]] = 0
            /\ e \in pooled
Objects == {p \in Pointers : IsValidPointer(p)}

Free(p) ==
    /\ Idle /\ p \in Objects
    /\ Release(p)
    /\ last' = None
    /\ UNCHANGED <<arenas, objectsToFree, cursor, largeLeft>>

-----------------------------------------------------------------------------
\* EnumerateObjects: through the elements of each arena, and then through the
\* set of large objects.
FirstOf(a)     == <<a, 0>>
AtLargeObjects == m_isEnumerating /\ cursor[1] > Len(arenas)
After(e) == IF e[2] + arenas[e[1]] < ElementCount(arenas[e[1]]) * arenas[e[1]]
              THEN <<e[1], e[2] + arenas[e[1]]>>
              ELSE FirstOf(e[1] + 1)

StartEnumeration ==
    /\ Idle
    /\ cursor' = FirstOf(1)
    /\ largeLeft' = large
    /\ last' = None
    /\ UNCHANGED <<arenas, pooled, freeList, large, objectsToFree, objectCount>>

\* Mutant of EnumProc: Free does not wait for the end of the enumeration.
EnumProcFrees(p) ==
    /\ last' = p
    /\ \/ UNCHANGED <<pooled, freeList, large, objectsToFree, objectCount>>
       \/ Release(p) /\ UNCHANGED objectsToFree

\* The sweep keeps the object, or frees it: the pointer is put aside.
EnumProc(p) ==
    /\ last' = p
    /\ objectsToFree' \in {objectsToFree, Append(objectsToFree, p)}
    /\ UNCHANGED <<pooled, freeList, large, objectCount>>

VisitElement ==
    /\ m_isEnumerating /\ ~AtLargeObjects
    /\ cursor' = After(cursor)
    /\ IF cursor \in pooled THEN EnumProc(GetObjectStart(cursor))
       ELSE UNCHANGED <<pooled, freeList, large, objectsToFree, objectCount, last>>
    /\ UNCHANGED <<arenas, largeLeft>>

VisitLarge(b) ==
    /\ AtLargeObjects /\ b \in largeLeft
    /\ largeLeft' = largeLeft \ {b}
    /\ EnumProc(b)
    /\ UNCHANGED <<arenas, cursor>>

\* At the end, or when the callback has thrown.
EndEnumeration ==
    /\ m_isEnumerating
    /\ (AtLargeObjects /\ largeLeft = {}) \/ last # None
    /\ cursor' = None /\ largeLeft' = {}
    /\ last' = None
    /\ UNCHANGED <<arenas, pooled, freeList, large, objectsToFree, objectCount>>

\* freePendingObjects, one round of its loop: Free does no longer put aside.
FreePending ==
    /\ ~m_isEnumerating /\ objectsToFree # <<>>
    /\ Release(Head(objectsToFree))
    /\ objectsToFree' = Tail(objectsToFree)
    /\ UNCHANGED <<arenas, cursor, largeLeft, last>>

Next == \/ \E s \in ObjectSizes : Allocate(s)
        \/ \E p \in Pointers : Free(p)
        \/ StartEnumeration \/ VisitElement \/ EndEnumeration \/ FreePending
        \/ \E b \in Blocks : VisitLarge(b)

Spec == Init /\ [][Next]_vars

-----------------------------------------------------------------------------
\* Each element is either in use or exactly once on the free list of its size,
\* through all frees, enumerations and arenas: no memory is lost, and none is
\* handed out twice.
EachElementOnce ==
    /\ \A sz \in PoolSizes : IsInjective(freeList[sz])
    /\ \A e \in AllElements :
         /\ e \in pooled <=> e \notin ToSet(freeList[arenas[e[1]]])
         /\ \A sz \in PoolSizes \ {arenas[e[1]]} : e \notin ToSet(freeList[sz])

\* m_objectCount, by which the collector sees whether judgement day is over,
\* counts the objects.
CountsObjects == objectCount = Cardinality(Objects)

\* The pools are a heap: fresh pointers, a test that is right for any word, and
\* an enumeration that visits each object once and frees what it is told to.
Ahead == IF ~m_isEnumerating THEN {}
         ELSE {e \in pooled : e[1] > cursor[1] \/ (e[1] = cursor[1] /\ e[2] >= cursor[2])}
H == INSTANCE Heap WITH
        objects <- Objects,
        givenUp <- ToSet(objectsToFree),
        toVisit <- {GetObjectStart(e) : e \in Ahead} \cup largeLeft,
        walking <- m_isEnumerating
IsHeap == H!Spec
=============================================================================
