-------------------------------- MODULE Lists --------------------------------
(***************************************************************************)
(* The lists: CArrayList (src/src/ArrayList.h), CStack (Stack.h) and       *)
(* CLinkedList (LinkedList.h). Each holds a reference to every item as     *)
(* often as it has it. An array grows when it is three quarters full; what *)
(* lies behind its count is whatever was there.                            *)
(***************************************************************************)
EXTENDS Naturals, Sequences, FiniteSets

S == INSTANCE SequencesExt

CONSTANTS Items,       \* numbers, which Sort compares
          Nodes,       \* the nodes of a linked list that can be allocated
          Null, Junk,
          MaxItems     \* bound: items in a list

VARIABLES kind,            \* "array", "stack" or "linked"
          m_items, m_count,  \* an array of Len(m_items) places
          spilled,           \* history: something was written behind the array
          m_first, m_last, next, prev, value,  \* the nodes
          refs,              \* how many references to an item the container holds
          promised           \* history: the sequence the operations promise
array == <<m_items, m_count, spilled>>
linked == <<m_first, m_last, next, prev, value>>
vars == <<kind, array, linked, refs, promised>>

Init == /\ kind \in {"array", "stack", "linked"}
        /\ m_items = <<Junk, Junk>> /\ m_count = 0 /\ spilled = FALSE
        /\ m_first = Null /\ m_last = Null
        /\ next = [n \in Nodes |-> Null] /\ prev = next
        /\ value = [n \in Nodes |-> Junk]      \* Junk: not allocated
        /\ refs = [x \in Items |-> 0] /\ promised = <<>>

Ref(x) == refs' = [refs EXCEPT ![x] = @ + 1]
Unref(x) == refs' = [refs EXCEPT ![x] = @ - 1]
Room == Len(promised) < MaxItems
Positions == 1..Len(promised)

(***************************************************************************)
(* Arrays and stacks.                                                      *)
(***************************************************************************)
\* ReallocArray copies the items that count.
Grown(capacity) == [i \in 1..capacity |-> IF i <= m_count THEN m_items[i] ELSE Junk]
\* The array an item is added to.
WithRoom == IF 4 * m_count >= 3 * Len(m_items) THEN Grown(2 * Len(m_items)) ELSE m_items

Add(x) == /\ kind \in {"array", "stack"} /\ Room
          /\ m_items' = [WithRoom EXCEPT ![m_count + 1] = x]
          /\ m_count' = m_count + 1
          /\ Ref(x) /\ promised' = Append(promised, x)
          /\ UNCHANGED <<kind, spilled, linked>>

\* Mutant of Moved: the items behind the place stay.
NotMoved(a, i) == a
\* memmove of m_count items, whatever the place.
Moved(a, i) == [j \in DOMAIN a |-> IF j > i /\ j <= i + m_count THEN a[j - 1] ELSE a[j]]

Insert(i, x) == /\ kind = "array" /\ Room
                /\ i \in 1..m_count + 1
                /\ m_items' = [Moved(WithRoom, i) EXCEPT ![i] = x]
                /\ m_count' = m_count + 1
                /\ spilled' = (spilled \/ i + m_count > Len(WithRoom))
                /\ Ref(x) /\ promised' = S!InsertAt(promised, i, x)
                /\ UNCHANGED <<kind, linked>>

\* AddUnsafeRange, of the items of another list.
AddRange(xs) == /\ kind = "array" /\ Len(promised) + Len(xs) <= MaxItems /\ xs # <<>>
                /\ LET count == m_count + Len(xs)
                       a == IF 4 * count >= 3 * Len(m_items)
                            THEN Grown(2 * Len(m_items) + Len(xs)) ELSE m_items
                   IN /\ m_items' = [j \in DOMAIN a |->
                              IF j > m_count /\ j <= count THEN xs[j - m_count] ELSE a[j]]
                      /\ m_count' = count
                /\ refs' = [x \in Items |->
                                refs[x] + Cardinality({i \in DOMAIN xs : xs[i] = x})]
                /\ promised' = promised \o xs
                /\ UNCHANGED <<kind, spilled, linked>>

Set(i, x) == /\ kind = "array" /\ i \in 1..m_count
             /\ m_items' = [m_items EXCEPT ![i] = x]
             /\ refs' = [[refs EXCEPT ![x] = @ + 1] EXCEPT ![m_items[i]] = @ - 1]
             /\ promised' = [promised EXCEPT ![i] = x]
             /\ UNCHANGED <<kind, m_count, spilled, linked>>

RemoveAt(i) == /\ kind = "array" /\ i \in 1..m_count
               /\ m_items' = [j \in DOMAIN m_items |->
                                  IF j >= i /\ j < m_count THEN m_items[j + 1] ELSE m_items[j]]
               /\ m_count' = m_count - 1
               /\ Unref(m_items[i]) /\ promised' = S!RemoveAt(promised, i)
               /\ UNCHANGED <<kind, spilled, linked>>

\* Pop: the reference of the stack becomes that of the caller.
Pop == /\ kind = "stack" /\ m_count > 0
       /\ m_count' = m_count - 1
       /\ Unref(m_items[m_count]) /\ promised' = S!Front(promised)
       /\ UNCHANGED <<kind, m_items, spilled, linked>>

\* qsort: the state of one partition, i and j running towards each other.
Swap(a, i, j) == [a EXCEPT ![i] = a[j], ![j] = a[i]]
RECURSIVE Partition(_, _, _, _)
Partition(a, pivot, i, j) ==
    IF i > j THEN <<a, i, j>>
    ELSE IF a[i] < pivot THEN Partition(a, pivot, i + 1, j)
    ELSE IF a[j] > pivot THEN Partition(a, pivot, i, j - 1)
    ELSE Partition(Swap(a, i, j), pivot, i + 1, j - 1)
RECURSIVE qsort(_, _, _)
qsort(a, left, right) ==
    LET p == Partition(a, a[(left + right) \div 2], left, right)
        lower == IF left < p[3] THEN qsort(p[1], left, p[3]) ELSE p[1]
    IN IF p[2] < right THEN qsort(lower, p[2], right) ELSE lower

Sort == /\ kind = "array"
        /\ m_items' = IF m_count > 1 THEN qsort(m_items, 1, m_count) ELSE m_items
        /\ LET order == S!SetToSortSeq(Positions, LAMBDA i, j :
                       promised[i] < promised[j] \/ (promised[i] = promised[j] /\ i < j))
           IN promised' = [i \in Positions |-> promised[order[i]]]
        /\ UNCHANGED <<kind, m_count, spilled, linked, refs>>

ClearArray == /\ kind \in {"array", "stack"}
              /\ m_count' = 0
              /\ refs' = [x \in Items |->
                      refs[x] - Cardinality({i \in 1..m_count : m_items[i] = x})]
              /\ promised' = <<>>
              /\ UNCHANGED <<kind, m_items, spilled, linked>>

(***************************************************************************)
(* Linked lists. The position of a node is that of its item.               *)
(***************************************************************************)
RECURSIVE Walk(_, _, _)
Walk(n, along, left) == IF n = Null \/ left = 0 THEN <<>>
                        ELSE <<n>> \o Walk(along[n], along, left - 1)
Chain == Walk(m_first, next, Cardinality(Nodes))
Allocate(n, x) == value[n] = Junk /\ value' = [value EXCEPT ![n] = x] /\ Ref(x)

AddNode(n, x) ==
    /\ kind = "linked" /\ Room /\ Allocate(n, x)
    /\ IF m_first = Null
       THEN m_first' = n /\ UNCHANGED <<next, prev>>
       ELSE /\ next' = [next EXCEPT ![m_last] = n] /\ prev' = [prev EXCEPT ![n] = m_last]
            /\ UNCHANGED m_first
    /\ m_last' = n /\ promised' = Append(promised, x)
    /\ UNCHANGED <<kind, array>>

InsertAfter(at, n, x) ==
    LET node == Chain[at] IN
    /\ kind = "linked" /\ Room /\ Allocate(n, x)
    /\ prev' = [m \in Nodes |-> IF m = n THEN node ELSE IF m = next[node] THEN n ELSE prev[m]]
    /\ next' = [next EXCEPT ![n] = next[node], ![node] = n]
    /\ m_last' = IF node = m_last THEN n ELSE m_last
    /\ promised' = S!InsertAt(promised, at + 1, x)
    /\ UNCHANGED <<kind, array, m_first>>

InsertBefore(at, n, x) ==
    LET node == Chain[at] IN
    /\ kind = "linked" /\ Room /\ Allocate(n, x)
    /\ next' = [m \in Nodes |-> IF m = n THEN node ELSE IF m = prev[node] THEN n ELSE next[m]]
    /\ prev' = [prev EXCEPT ![n] = prev[node], ![node] = n]
    /\ m_first' = IF node = m_first THEN n ELSE m_first
    /\ promised' = S!InsertAt(promised, at, x)
    /\ UNCHANGED <<kind, array, m_last>>

\* Remove of a node, or of the first node with an item.
RemoveNode(at) ==
    LET node == Chain[at] IN
    /\ kind = "linked"
    /\ next' = [m \in Nodes |-> IF m = node THEN Null
                                ELSE IF m = prev[node] THEN next[node] ELSE next[m]]
    /\ prev' = [m \in Nodes |-> IF m = node THEN Null
                                ELSE IF m = next[node] THEN prev[node] ELSE prev[m]]
    /\ m_first' = IF prev[node] = Null THEN next[node] ELSE m_first
    /\ m_last' = IF next[node] = Null THEN prev[node] ELSE m_last
    /\ value' = [value EXCEPT ![node] = Junk]
    /\ Unref(value[node]) /\ promised' = S!RemoveAt(promised, at)
    /\ UNCHANGED <<kind, array>>

ClearNodes ==
    /\ kind = "linked"
    /\ m_first' = Null /\ m_last' = Null
    /\ next' = [n \in Nodes |-> Null] /\ prev' = next' /\ value' = [n \in Nodes |-> Junk]
    /\ refs' = [x \in Items |-> refs[x] - Cardinality({n \in S!ToSet(Chain) : value[n] = x})]
    /\ promised' = <<>>
    /\ UNCHANGED <<kind, array>>

Next == \/ \E x \in Items : \/ Add(x)
                            \/ \E i \in 1..MaxItems : Insert(i, x) \/ Set(i, x)
                            \/ \E n \in Nodes : \/ AddNode(n, x)
                                                \/ \E at \in Positions :
                                                      InsertAfter(at, n, x) \/ InsertBefore(at, n, x)
        \/ \E i \in Positions : RemoveAt(i) \/ RemoveNode(i)
        \/ \E x, y \in Items : AddRange(<<x, y>>)
        \/ Pop \/ Sort \/ ClearArray \/ ClearNodes
Spec == Init /\ [][Next]_vars

-----------------------------------------------------------------------------
Contents == IF kind = "linked" THEN [i \in DOMAIN Chain |-> value[Chain[i]]]
            ELSE SubSeq(m_items, 1, m_count)
Backwards == Walk(m_last, prev, Cardinality(Nodes))

\* A list has the items that were put in, in their order, forwards and, for a linked
\* list, backwards; an array has room for them; and the list holds one reference for
\* each time it has an item.
KeepsItems == /\ Contents = promised
              /\ kind = "linked" => Backwards = S!Reverse(Chain)
              /\ \A x \in Items : refs[x] = Cardinality({i \in Positions : promised[i] = x})

\* No operation writes behind the array: refuted for Insert (ArrayList.h:229) in the
\* middle of a list that is nearly full.
StaysWithin == ~spilled
\* "Post-condition" of Insert (ArrayList.h:239), FindItem(item) = index: refuted when
\* the list has an equal item before it.
InsertIsFound == [][\A x \in Items, i \in 1..MaxItems :
                       Insert(i, x) => S!SelectInSeq(Contents', LAMBDA y : y = x) = i]_vars
=============================================================================
