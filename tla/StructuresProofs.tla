--------------------------- MODULE StructuresProofs ---------------------------
(***************************************************************************)
(* The structures of MCStructures, whatever their sizes: the ring buffer   *)
(* is a FIFO queue, gcMark marks what is reachable, the pools are a heap,  *)
(* and a message arrives as it was sent.                                   *)
(***************************************************************************)
EXTENDS MCStructures, SequenceTheorems, FiniteSetTheorems, NaturalsInduction,
        WellFoundedInduction, TLAPS

-----------------------------------------------------------------------------
(***************************************************************************)
(* The ring buffer.                                                        *)
(***************************************************************************)
Numbers == /\ length \in Nat \ {0}
           /\ size \in 0..length
           /\ front \in 0..(length - 1)
           /\ back \in -1..(length - 1)
Written == /\ array \in [0..(length - 1) -> Values \cup {Junk}]
           /\ \A i \in 0..(size - 1) : array[At(i)] \in Values
IInv == Numbers /\ Written /\ out \in Seq(Values) /\ Contiguous

\* Where the ring leads: inside of the array, and to each element once.
LEMMA AtInArray ==
    ASSUME Numbers, NEW i \in 0..(length - 1)
    PROVE  At(i) \in 0..(length - 1)
BY DEF Numbers, At

LEMMA AtOnce ==
    ASSUME Numbers, NEW i \in 0..(length - 1), NEW j \in 0..(length - 1), i # j
    PROVE  At(i) # At(j)
BY DEF Numbers, At

\* What is in the queue is a sequence of values.
LEMMA ContentsType ==
    ASSUME Numbers, Written
    PROVE  Contents \in Seq(Values)
<1>1. size \in Nat
  BY DEF Numbers
<1>2. \A i \in 1..size : array[At(i - 1)] \in Values
  <2>1. \A i \in 1..size : i - 1 \in 0..(size - 1)
    BY <1>1
  <2> QED
    BY <2>1 DEF Written
<1>3. Contents \in [1..size -> Values]
  BY <1>2 DEF Contents
<1> QED
  BY <1>1, <1>3, SMTT(30)

LEMMA AppendAsFunction ==
    ASSUME NEW S, NEW s \in Seq(S), NEW v \in S
    PROVE  Append(s, v) = [i \in 1..(Len(s) + 1) |-> IF i = Len(s) + 1 THEN v ELSE s[i]]
<1> DEFINE t == [i \in 1..(Len(s) + 1) |-> IF i = Len(s) + 1 THEN v ELSE s[i]]
<1>1. t \in Seq(S) /\ Len(t) = Len(s) + 1
  OBVIOUS
<1>2. \A i \in 1..Len(t) : t[i] = Append(s, v)[i]
  BY <1>1, AppendProperties
<1>3. Append(s, v) \in Seq(S) /\ Len(Append(s, v)) = Len(t)
  BY <1>1, AppendProperties
<1>4. Append(s, v) = t
  <2> HIDE DEF t
  <2> QED
    BY <1>1, <1>2, <1>3, SeqEqual
<1> QED
  BY <1>4

LEMMA TailAsFunction ==
    ASSUME NEW S, NEW s \in Seq(S), s # <<>>
    PROVE  Tail(s) = [i \in 1..(Len(s) - 1) |-> s[i + 1]]
<1> DEFINE t == [i \in 1..(Len(s) - 1) |-> s[i + 1]]
<1>1. t \in Seq(S) /\ Len(t) = Len(s) - 1
  OBVIOUS
<1>2. \A i \in 1..Len(t) : t[i] = Tail(s)[i]
  BY <1>1, HeadTailProperties
<1> QED
  BY <1>1, <1>2, HeadTailProperties, SeqEqual

LEMMA InitHolds == Init => IInv
<1> SUFFICES ASSUME Init PROVE IInv
  OBVIOUS
<1> USE QueueAssumption
<1>1. Numbers
  BY DEF Init, Numbers
<1>2. Written
  BY DEF Init, Written
<1>3. Contiguous
  BY DEF Init, Contiguous, Increment, At
<1>4. out \in Seq(Values)
  BY DEF Init
<1> QED
  BY <1>1, <1>2, <1>3, <1>4 DEF IInv

-----------------------------------------------------------------------------
\* What each operation does to the invariant and to the values in the queue.
LEMMA GrowStep ==
    ASSUME IInv, NEW v \in Values, Grow(v), size' = size + 1
    PROVE  /\ Numbers' /\ Written' /\ Contiguous'
           /\ Contents' = Append(Contents, v)
<1>1. /\ length' = 2 * length /\ length \in Nat /\ length > 0 /\ size = length
      /\ front' = 0 /\ back' = size /\ front \in 0..(length - 1)
  BY DEF Grow, IInv, Numbers
<1>2. Numbers'
  BY <1>1 DEF Numbers
<1>3. \A i \in 0..(length' - 1) : At(i)' = i
  BY <1>1 DEF At
<1>4. Contiguous'
  BY <1>1, <1>3 DEF Contiguous, Increment, At
<1>5. array' = [i \in 0..(2 * length - 1) |->
                  IF i < size THEN array[At(i)] ELSE IF i = size THEN v ELSE Junk]
  BY DEF Grow
<1>6. \A i \in 0..(size - 1) : array[At(i)] \in Values
  BY DEF IInv, Written
<1>7. \A i \in 0..(2 * length - 1) : array'[i] \in Values \cup {Junk}
  BY <1>1, <1>5, <1>6
<1>8. \A i \in 0..size : array'[i] \in Values
  BY <1>1, <1>5, <1>6
<1>9. Written'
  <2>1. array' \in [0..(length' - 1) -> Values \cup {Junk}]
    BY <1>1, <1>5, <1>7
  <2>2. \A i \in 0..(size' - 1) : array'[At(i)'] \in Values
    BY <1>1, <1>3, <1>8
  <2> QED
    BY <2>1, <2>2 DEF Written
<1>10. Contents' = Append(Contents, v)
  <2>1. Contents' = [i \in 1..(size + 1) |-> array'[i - 1]]
    BY <1>1, <1>3 DEF Contents
  <2>2. Contents \in Seq(Values) /\ Len(Contents) = size
    BY <1>1, ContentsType DEF IInv, Contents
  <2>3. Append(Contents, v) = [i \in 1..(size + 1) |-> IF i = size + 1 THEN v ELSE Contents[i]]
    BY <2>2, <1>1, AppendAsFunction
  <2>4. \A i \in 1..size : array'[i - 1] = Contents[i]
    BY <1>1, <1>5 DEF Contents
  <2>5. array'[size] = v
    BY <1>1, <1>5
  <2>6. \A i \in 1..(size + 1) : array'[i - 1] = IF i = size + 1 THEN v ELSE Contents[i]
    BY <2>4, <2>5, <1>1
  <2> QED
    BY <2>1, <2>3, <2>6
<1> QED
  BY <1>2, <1>4, <1>9, <1>10

LEMMA WriteStep ==
    ASSUME IInv, NEW v \in Values, Write(v), size' = size + 1
    PROVE  /\ Numbers' /\ Written' /\ Contiguous'
           /\ Contents' = Append(Contents, v)
<1>1. /\ length \in Nat /\ length > 0 /\ size \in 0..(length - 1) /\ front \in 0..(length - 1)
      /\ length' = length /\ front' = front
  BY DEF IInv, Numbers, Write
<1>2. back' = At(size) /\ back' \in 0..(length - 1)
  BY <1>1, AtInArray DEF IInv, Write, Contiguous
<1>3. \A i \in 0..(length - 1) : At(i)' = At(i)
  BY <1>1 DEF At
<1>4. Numbers'
  BY <1>1, <1>2 DEF Numbers
<1>5. Contiguous'
  BY <1>1, <1>2 DEF Contiguous, Increment, At
<1>6. array' = [array EXCEPT ![back'] = v] /\ array \in [0..(length - 1) -> Values \cup {Junk}]
  BY DEF Write, IInv, Written
<1>7. \A i \in 0..(size - 1) : array'[At(i)] = array[At(i)]
  <2> SUFFICES ASSUME NEW i \in 0..(size - 1) PROVE array'[At(i)] = array[At(i)]
    OBVIOUS
  <2>1. At(i) \in 0..(length - 1) /\ At(i) # At(size)
    BY <1>1, AtInArray, AtOnce DEF IInv
  <2> QED
    BY <2>1, <1>2, <1>6
<1>8. array'[At(size)] = v
  BY <1>2, <1>6
<1>9. Written'
  <2>1. array' \in [0..(length' - 1) -> Values \cup {Junk}]
    BY <1>1, <1>2, <1>6
  <2>2. \A i \in 0..(size' - 1) : array'[At(i)'] \in Values
    BY <1>1, <1>3, <1>7, <1>8 DEF IInv, Written
  <2> QED
    BY <2>1, <2>2 DEF Written
<1>10. Contents' = Append(Contents, v)
  <2>1. Contents' = [i \in 1..(size + 1) |-> array'[At(i - 1)]]
    <3>1. \A i \in 1..(size + 1) : At(i - 1)' = At(i - 1)
      BY <1>1, <1>3
    <3> QED
      BY <3>1 DEF Contents
  <2>2. Contents \in Seq(Values) /\ Len(Contents) = size
    BY <1>1, ContentsType DEF IInv, Contents
  <2>3. Append(Contents, v) = [i \in 1..(size + 1) |-> IF i = size + 1 THEN v ELSE Contents[i]]
    BY <2>2, <1>1, AppendAsFunction
  <2>4. \A i \in 1..size : array'[At(i - 1)] = Contents[i]
    BY <1>1, <1>7 DEF Contents
  <2>5. \A i \in 1..(size + 1) : array'[At(i - 1)] = IF i = size + 1 THEN v ELSE Contents[i]
    BY <2>4, <1>8, <1>1
  <2> QED
    BY <2>1, <2>3, <2>5
<1> QED
  BY <1>4, <1>5, <1>9, <1>10

LEMMA DequeueStep ==
    ASSUME IInv, Dequeue
    PROVE  /\ Numbers' /\ Written' /\ Contiguous' /\ out' \in Seq(Values)
           /\ Contents # <<>> /\ Contents' = Tail(Contents) /\ out' = <<Head(Contents)>>
<1>1. /\ length \in Nat /\ length > 0 /\ size \in 1..length /\ front \in 0..(length - 1)
      /\ back \in -1..(length - 1)
      /\ length' = length /\ size' = size - 1 /\ back' = back /\ array' = array
      /\ front' = Increment(front) /\ out' = <<array[front]>>
  BY DEF IInv, Numbers, Dequeue
<1>2. \A i \in 0..(length - 1) : i + 1 \in 0..(length - 1) => At(i)' = At(i + 1)
  BY <1>1 DEF At, Increment
<1>3. Numbers'
  BY <1>1 DEF Numbers, Increment
<1>4. Contiguous'
  <2>1. Increment(back) = At(size)
    BY DEF IInv, Contiguous
  <2>2. At(size)' = At(size)
    BY <1>1 DEF At, Increment
  <2> QED
    BY <1>1, <2>1, <2>2 DEF Contiguous, Increment
<1>5. \A i \in 0..(size - 2) : At(i)' = At(i + 1) /\ i + 1 \in 0..(size - 1)
  BY <1>1, <1>2
<1>6. Written'
  <2>1. \A i \in 0..(size' - 1) : array'[At(i)'] \in Values
    BY <1>1, <1>5 DEF IInv, Written
  <2> QED
    BY <1>1, <2>1 DEF IInv, Written
<1>7. At(0) = front /\ 0 \in 0..(size - 1)
  BY <1>1 DEF At
<1>8. Contents \in Seq(Values) /\ Len(Contents) = size
  BY <1>1, ContentsType DEF IInv, Contents
<1>9. Head(Contents) = array[front] /\ array[front] \in Values
  BY <1>1, <1>7, <1>8 DEF Contents, IInv, Written
<1>10. Contents' = Tail(Contents)
  <2>1. Contents' = [i \in 1..(size - 1) |-> array[At(i)]]
    <3>1. \A i \in 1..(size - 1) : At(i - 1)' = At(i)
      BY <1>1, <1>5
    <3> QED
      BY <1>1, <3>1 DEF Contents
  <2>2. Tail(Contents) = [i \in 1..(size - 1) |-> Contents[i + 1]]
    BY <1>1, <1>8, TailAsFunction
  <2>3. \A i \in 1..(size - 1) : Contents[i + 1] = array[At(i)]
    BY <1>1 DEF Contents
  <2> QED
    BY <2>1, <2>2, <2>3
<1>11. out' \in Seq(Values)
  BY <1>1, <1>9
<1> QED
  BY <1>1, <1>3, <1>4, <1>6, <1>8, <1>9, <1>10, <1>11

LEMMA ClearStep ==
    ASSUME IInv, Clear
    PROVE  /\ Numbers' /\ Written' /\ Contiguous' /\ out' \in Seq(Values)
           /\ Contents' = <<>> /\ out' = Contents
<1>1. /\ length \in Nat /\ length > 0
      /\ length' = length /\ size' = 0 /\ front' = 0 /\ back' = -1 /\ array' = array
      /\ out' = Contents
  BY DEF IInv, Numbers, Clear
<1>2. Numbers'
  BY <1>1 DEF Numbers
<1>3. Written'
  BY <1>1 DEF IInv, Written
<1>4. Contiguous'
  BY <1>1 DEF Contiguous, Increment, At
<1>5. Contents' = <<>>
  BY <1>1 DEF Contents
<1> QED
  BY <1>1, <1>2, <1>3, <1>4, <1>5, ContentsType DEF IInv

LEMMA EnqueueStep ==
    ASSUME IInv, NEW v \in Values, Enqueue(v)
    PROVE  /\ Numbers' /\ Written' /\ Contiguous' /\ out' = <<>>
           /\ Contents' = Append(Contents, v)
<1>1. size' = size + 1 /\ out' = <<>> /\ (Grow(v) \/ Write(v))
  BY DEF Enqueue
<1>2. CASE Grow(v)
  BY <1>1, <1>2, GrowStep
<1>3. CASE Write(v)
  BY <1>1, <1>3, WriteStep
<1> QED
  BY <1>1, <1>2, <1>3

LEMMA StepHolds == IInv /\ [Next]_vars => IInv'
<1> SUFFICES ASSUME IInv, [Next]_vars PROVE IInv'
  OBVIOUS
<1>1. ASSUME NEW v \in Values, Enqueue(v) PROVE IInv'
  <2>1. <<>> \in Seq(Values)
    OBVIOUS
  <2> QED
    BY <1>1, <2>1, EnqueueStep DEF IInv
<1>2. CASE Dequeue
  BY <1>2, DequeueStep DEF IInv
<1>3. CASE Clear
  BY <1>3, ClearStep DEF IInv
<1>4. CASE UNCHANGED vars
  BY <1>4 DEF vars, IInv, Numbers, Written, Contiguous, Increment, At
<1> QED
  BY <1>1, <1>2, <1>3, <1>4 DEF Next

-----------------------------------------------------------------------------
\* The types, and that the next value always goes behind the last one.
THEOREM QueueInvariant == Spec => [](TypeOK /\ Contiguous)
<1>1. IInv => TypeOK /\ Contiguous
  BY DEF IInv, Numbers, Written, TypeOK
<1> QED
  BY <1>1, InitHolds, StepHolds, PTL DEF Spec

\* CQueue hands out its values in the order they were put in, for every capacity
\* and however often it grows.
THEOREM QueueIsFifo == Spec => IsFifo
<1>1. Init => F!Init
  BY QueueAssumption DEF Init, F!Init, Contents
<1>2. IInv /\ [Next]_vars => [F!Next]_F!vars
  <2> SUFFICES ASSUME IInv, [Next]_vars PROVE F!Next \/ UNCHANGED F!vars
    OBVIOUS
  <2>1. ASSUME NEW v \in Values, Enqueue(v) PROVE F!Put(v)
    BY <2>1, EnqueueStep DEF F!Put
  <2>2. CASE Dequeue
    BY <2>2, DequeueStep DEF F!Next, F!Take
  <2>3. CASE Clear
    BY <2>3, ClearStep DEF F!Next, F!Empty
  <2>4. CASE UNCHANGED vars
    BY <2>4 DEF vars, F!vars, Contents, At
  <2> QED
    BY <2>1, <2>2, <2>3, <2>4 DEF Next, F!Next
<1> QED
  BY <1>1, <1>2, InitHolds, StepHolds, PTL DEF Spec, IsFifo, F!Spec

-----------------------------------------------------------------------------
(***************************************************************************)
(* The mark phase: MCStructures has it for some shapes of heaps, and       *)
(* GCMark for any.                                                         *)
(***************************************************************************)

\* For any graph of any number of objects of the kinds gcMark distinguishes: when the
\* roots are through, exactly what they lead to is marked; between roots, a marked
\* object has been walked; no object is walked twice.
THEOREM MarkingIsReachability == MCSpec => []MarksWhatIsReachable
<1> DEFINE Inv == /\ which = "deep" => Deep!IInv
                  /\ which = "wide" => Wide!IInv
                  /\ which = "maps" => Maps!IInv
<1>1. MCInit => Inv
  BY Deep!MarkInit, Wide!MarkInit, Maps!MarkInit DEF MCInit
<1>2. Inv /\ [MCNext]_allVars => Inv'
  <2> SUFFICES ASSUME Inv, [MCNext]_allVars PROVE Inv'
    OBVIOUS
  <2>1. which' = which
    BY DEF MCNext, allVars
  <2>2. which = "deep" => [Deep!Next]_(Deep!vars)
    BY DEF MCNext, allVars, markVars, Deep!vars
  <2>3. which = "wide" => [Wide!Next]_(Wide!vars)
    BY DEF MCNext, allVars, markVars, Wide!vars
  <2>4. which = "maps" => [Maps!Next]_(Maps!vars)
    BY DEF MCNext, allVars, markVars, Maps!vars
  <2> QED
    BY <2>1, <2>2, <2>3, <2>4, GraphsAreSmall, Deep!MarkStep, Wide!MarkStep, Maps!MarkStep
<1>3. Inv => MarksWhatIsReachable
  BY GraphsAreSmall, Deep!MarksAreRight, Wide!MarksAreRight, Maps!MarksAreRight
  DEF MarksWhatIsReachable
<1> QED
  BY <1>1, <1>2, <1>3, PTL DEF MCSpec

-----------------------------------------------------------------------------
(***************************************************************************)
(* The pool allocator.                                                     *)
(***************************************************************************)
\* Places in an arena: one after the other, and aligned.
LEMMA TimesOrder ==
    ASSUME NEW i \in Nat, NEW j \in Nat, NEW sz \in Nat, i < j
    PROVE  i * sz + sz <= j * sz
<1>1. PICK k \in Nat : j = i + 1 + k
  <2>1. j - (i + 1) \in Nat
    OBVIOUS
  <2> QED
    BY <2>1
<1>2. (i + 1 + k) * sz = i * sz + sz + k * sz
  OBVIOUS
<1>3. k * sz >= 0
  OBVIOUS
<1>4. i * sz \in Nat /\ k * sz \in Nat
  OBVIOUS
<1> QED
  BY <1>1, <1>2, <1>3, <1>4

LEMMA TimesMod ==
    ASSUME NEW i \in Nat, NEW sz \in Nat \ {0}
    PROVE  (i * sz) % sz = 0
OBVIOUS

LEMMA SizesFit ==
    ASSUME Pool!PoolAssumption, NEW sz \in Pool!PoolSizes
    PROVE  /\ sz \in Nat \ {0}
           /\ Pool!ElementCount(sz) \in Nat \ {0}
           /\ Pool!ElementCount(sz) * sz <= Target
<1>1. /\ sz \in Nat \ {0} /\ sz <= Target
      /\ Target \div sz >= MinCount
  BY DEF Pool!PoolAssumption, Pool!PoolSizes, Pool!isLargeObject, Pool!GetElementSize
<1>2. Target \div sz \in Nat /\ (Target \div sz) * sz <= Target
  BY <1>1 DEF Pool!PoolAssumption
<1> QED
  BY <1>1, <1>2 DEF Pool!PoolAssumption, Pool!ElementCount

-----------------------------------------------------------------------------
Arenas == arenas \in Seq(Pool!PoolSizes) /\ Len(arenas) <= MaxArenas

\* Where the elements of the arenas are.
LEMMA ElementFacts ==
    Arenas /\ Pool!PoolAssumption =>
      \A e \in Pool!AllElements :
        /\ e[1] \in 1..Len(arenas) /\ arenas[e[1]] \in Pool!PoolSizes
        /\ \E i \in 0..(Pool!ElementCount(arenas[e[1]]) - 1) : e = <<e[1], i * arenas[e[1]]>>
        /\ e \in Nat \X Nat
        /\ Pool!GetObjectStart(e) \in Pool!Pointers /\ Pool!GetObjectStart(e) \notin Blocks
        /\ Pool!GetElementHeader(Pool!GetObjectStart(e)) = e
<1> SUFFICES ASSUME Arenas, Pool!PoolAssumption, NEW e \in Pool!AllElements
             PROVE  /\ e[1] \in 1..Len(arenas) /\ arenas[e[1]] \in Pool!PoolSizes
                    /\ \E i \in 0..(Pool!ElementCount(arenas[e[1]]) - 1) : e = <<e[1], i * arenas[e[1]]>>
                    /\ e \in Nat \X Nat
                    /\ Pool!GetObjectStart(e) \in Pool!Pointers /\ Pool!GetObjectStart(e) \notin Blocks
                    /\ Pool!GetElementHeader(Pool!GetObjectStart(e)) = e
  OBVIOUS
<1>1. PICK a \in 1..Len(arenas) : e \in Pool!Elements(a)
  BY DEF Pool!AllElements, Arenas
<1>2. PICK sz \in Pool!PoolSizes : arenas[a] = sz
  BY DEF Arenas
<1>3. PICK n \in Nat : Pool!ElementCount(sz) = n /\ n * sz <= Target /\ sz \in Nat \ {0} /\ n > 0
  BY SizesFit
<1>4. PICK i \in 0..(n - 1) : e = <<a, i * sz>>
  BY <1>1, <1>2, <1>3 DEF Pool!Elements
<1>5. i * sz \in Nat /\ i * sz + sz <= n * sz /\ n * sz \in Nat
  BY <1>3, TimesOrder
<1>6. a \in Nat /\ a \in 1..MaxArenas /\ Target \in Nat
  BY DEF Arenas, Pool!PoolAssumption
<1>7. i * sz + 1 \in 0..(Target + 1)
  BY <1>3, <1>5, <1>6
<1>8. Pool!GetObjectStart(e) = <<a, i * sz + 1>>
  BY <1>4 DEF Pool!GetObjectStart
<1>9. Pool!GetObjectStart(e) \in (1..MaxArenas) \X (0..(Target + 1))
  BY <1>6, <1>7, <1>8
<1>10. Pool!GetObjectStart(e) \in Nat \X Nat
  BY <1>6, <1>5, <1>8
<1>11. Pool!GetElementHeader(Pool!GetObjectStart(e)) = e
  BY <1>4, <1>5, <1>8 DEF Pool!GetElementHeader
<1> QED
  BY <1>2, <1>3, <1>4, <1>5, <1>6, <1>9, <1>10, <1>11 DEF Pool!Pointers, Pool!PoolAssumption

LEMMA ElementFactsNext ==
    (Arenas /\ Pool!PoolAssumption)' =>
      \A e \in Pool!AllElements' :
         /\ Pool!GetElementHeader(Pool!GetObjectStart(e)) = e
         /\ Pool!GetObjectStart(e) \in Pool!Pointers /\ Pool!GetObjectStart(e) \notin Blocks
<1>1. Arenas /\ Pool!PoolAssumption =>
        \A e \in Pool!AllElements :
           /\ Pool!GetElementHeader(Pool!GetObjectStart(e)) = e
           /\ Pool!GetObjectStart(e) \in Pool!Pointers /\ Pool!GetObjectStart(e) \notin Blocks
  BY ElementFacts
<1>2. (Arenas /\ Pool!PoolAssumption)' =>
        (\A e \in Pool!AllElements :
           /\ Pool!GetElementHeader(Pool!GetObjectStart(e)) = e
           /\ Pool!GetObjectStart(e) \in Pool!Pointers /\ Pool!GetObjectStart(e) \notin Blocks)'
  BY <1>1, PTL
<1> QED
  BY <1>2 DEF Pool!GetElementHeader, Pool!GetObjectStart, Pool!Pointers

\* What IsValidPointer finds: the allocated elements and the large objects.
LEMMA ObjectsAre ==
    Arenas /\ Pool!PoolAssumption /\ pooled \subseteq Pool!AllElements /\ large \subseteq Blocks =>
      Pool!Objects = large \cup {Pool!GetObjectStart(e) : e \in pooled}
<1> SUFFICES ASSUME Arenas, Pool!PoolAssumption, pooled \subseteq Pool!AllElements, large \subseteq Blocks
             PROVE  Pool!Objects = large \cup {Pool!GetObjectStart(e) : e \in pooled}
  OBVIOUS
<1>1. ASSUME NEW p \in Pool!Objects PROVE p \in large \cup {Pool!GetObjectStart(e) : e \in pooled}
  <2>1. CASE p \in Blocks
    BY <1>1, <2>1 DEF Pool!Objects, Pool!IsValidPointer
  <2>2. CASE p \notin Blocks
    <3>1. Pool!GetElementHeader(p) \in pooled /\ p \in (1..MaxArenas) \X (0..(Target + 1))
      BY <1>1, <2>2 DEF Pool!Objects, Pool!IsValidPointer, Pool!Pointers
    <3>2. PICK a \in 1..MaxArenas, x \in 0..(Target + 1) : p = <<a, x>>
      BY <3>1
    <3>3. Pool!GetObjectStart(Pool!GetElementHeader(p)) = p
      BY <3>2 DEF Pool!GetObjectStart, Pool!GetElementHeader, Pool!PoolAssumption
    <3> QED
      BY <3>1, <3>3
  <2> QED
    BY <2>1, <2>2
<1>2. ASSUME NEW p \in large PROVE p \in Pool!Objects
  BY <1>2 DEF Pool!Objects, Pool!IsValidPointer, Pool!Pointers
<1>3. ASSUME NEW e \in pooled PROVE Pool!GetObjectStart(e) \in Pool!Objects
  <2>1. /\ e[1] \in 1..Len(arenas) /\ arenas[e[1]] \in Pool!PoolSizes
        /\ Pool!GetObjectStart(e) \in Pool!Pointers /\ Pool!GetObjectStart(e) \notin Blocks
        /\ Pool!GetElementHeader(Pool!GetObjectStart(e)) = e
    BY <1>3, ElementFacts
  <2>2. PICK sz \in Pool!PoolSizes : arenas[e[1]] = sz
    BY <2>1
  <2>3. PICK n \in Nat : Pool!ElementCount(sz) = n /\ n * sz <= Target /\ sz \in Nat \ {0} /\ n > 0
    BY SizesFit
  <2>4. PICK i \in 0..(n - 1) : e = <<e[1], i * sz>>
    BY <1>3, <2>2, <2>3, ElementFacts
  <2>5. i \in Nat /\ sz \in Nat \ {0} /\ i < n
    BY <2>3
  <2>5a. i * sz + sz <= n * sz
    BY <2>5, TimesOrder
  <2>5b. (i * sz) % sz = 0
    BY <2>5, TimesMod
  <2>5c. i * sz \in Nat /\ n * sz \in Nat
    BY <2>5
  <2>6. e[2] >= 0 /\ e[2] < n * sz /\ e[2] % sz = 0
    BY <2>3, <2>4, <2>5a, <2>5b, <2>5c
  <2>7. Pool!GetObjectStart(e)[1] = e[1]
    BY DEF Pool!GetObjectStart
  <2>8. e[1] \in DOMAIN arenas
    BY <2>1 DEF Arenas
  <2> QED
    BY <1>3, <2>1, <2>2, <2>3, <2>6, <2>7, <2>8 DEF Pool!Objects, Pool!IsValidPointer
<1> QED
  BY <1>1, <1>2, <1>3

LEMMA ObjectsAreNext ==
    (Arenas /\ Pool!PoolAssumption /\ pooled \subseteq Pool!AllElements /\ large \subseteq Blocks)' =>
      Pool!Objects' = large' \cup {Pool!GetObjectStart(e) : e \in pooled'}
<1>1. (Pool!Objects = large \cup {Pool!GetObjectStart(e) : e \in pooled})' <=>
      Pool!Objects' = large' \cup {Pool!GetObjectStart(e) : e \in pooled'}
  BY DEF Pool!GetObjectStart
<1>2. (Arenas /\ Pool!PoolAssumption /\ pooled \subseteq Pool!AllElements /\ large \subseteq Blocks)' =>
      (Pool!Objects = large \cup {Pool!GetObjectStart(e) : e \in pooled})'
  BY ObjectsAre, PTL
<1> QED
  BY <1>1, <1>2

-----------------------------------------------------------------------------
\* A free list of different elements, and what taking one off or putting one on
\* makes of it.
LEMMA TailOnce ==
    ASSUME NEW S, NEW s \in Seq(S), s # <<>>, Pool!IsInjective(s)
    PROVE  /\ Head(s) \in S /\ Head(s) \in Pool!ToSet(s)
           /\ Tail(s) \in Seq(S) /\ Pool!IsInjective(Tail(s))
           /\ Pool!ToSet(Tail(s)) = Pool!ToSet(s) \ {Head(s)}
<1>1. PICK n \in Nat : Len(s) = n + 1
  BY EmptySeq
<1>2. PICK t : t = Tail(s)
  OBVIOUS
<1>3. /\ Head(s) = s[1] /\ Head(s) \in S
      /\ t \in Seq(S) /\ Len(t) = n
      /\ \A i \in 1..n : t[i] = s[i + 1]
  BY <1>1, <1>2, HeadTailProperties
<1>4. DOMAIN s = 1..(n + 1) /\ DOMAIN t = 1..n
  BY <1>1, <1>3
<1>5. \A i, j \in 1..(n + 1) : s[i] = s[j] => i = j
  BY <1>4 DEF Pool!IsInjective
<1>6. ASSUME NEW i \in 1..n, NEW j \in 1..n, t[i] = t[j] PROVE i = j
  <2>1. i + 1 \in 1..(n + 1) /\ j + 1 \in 1..(n + 1)
    BY <1>1
  <2> QED
    BY <1>3, <1>5, <1>6, <2>1
<1>7. Pool!IsInjective(t)
  BY <1>4, <1>6 DEF Pool!IsInjective
<1>8. ASSUME NEW x \in Pool!ToSet(t) PROVE x \in Pool!ToSet(s) \ {s[1]}
  <2>1. PICK i \in 1..n : x = t[i]
    BY <1>4, <1>8 DEF Pool!ToSet
  <2>2. i + 1 \in 1..(n + 1) /\ 1 \in 1..(n + 1) /\ i + 1 # 1
    BY <1>1
  <2> QED
    BY <1>3, <1>4, <1>5, <2>1, <2>2 DEF Pool!ToSet
<1>9. ASSUME NEW x \in Pool!ToSet(s), x # s[1] PROVE x \in Pool!ToSet(t)
  <2>1. PICK i \in 1..(n + 1) : x = s[i]
    BY <1>4, <1>9 DEF Pool!ToSet
  <2>2. i - 1 \in 1..n /\ (i - 1) + 1 = i
    BY <1>9, <2>1
  <2>3. t[i - 1] = s[i]
    BY <1>3, <2>2
  <2> QED
    BY <1>4, <2>1, <2>2, <2>3 DEF Pool!ToSet
<1>10. s[1] \in Pool!ToSet(s)
  <2>1. 1 \in DOMAIN s
    BY <1>1, <1>4
  <2> QED
    BY <2>1 DEF Pool!ToSet
<1> QED
  BY <1>2, <1>3, <1>7, <1>8, <1>9, <1>10

LEMMA PushOnce ==
    ASSUME NEW S, NEW s \in Seq(S), NEW e \in S, Pool!IsInjective(s), e \notin Pool!ToSet(s)
    PROVE  /\ <<e>> \o s \in Seq(S) /\ Pool!IsInjective(<<e>> \o s)
           /\ Pool!ToSet(<<e>> \o s) = Pool!ToSet(s) \cup {e}
<1>1. PICK n \in Nat : Len(s) = n
  OBVIOUS
<1>2. PICK t : t = <<e>> \o s
  OBVIOUS
<1>3. <<e>> \in Seq(S) /\ Len(<<e>>) = 1 /\ <<e>>[1] = e
  OBVIOUS
<1>4. t \in Seq(S) /\ Len(t) = 1 + n
  BY <1>1, <1>2, <1>3, ConcatProperties
<1>5. \A i \in 1..(1 + n) : t[i] = IF i <= 1 THEN <<e>>[i] ELSE s[i - 1]
  BY <1>1, <1>2, <1>3, ConcatProperties
<1>6. t[1] = e
  <2>1. 1 \in 1..(1 + n) /\ 1 <= 1
    OBVIOUS
  <2> QED
    BY <1>3, <1>5, <2>1
<1>7. \A i \in 2..(1 + n) : t[i] = s[i - 1] /\ i - 1 \in 1..n
  BY <1>5
<1>8. DOMAIN s = 1..n /\ DOMAIN t = 1..(1 + n)
  BY <1>1, <1>4
<1>9. \A i, j \in 1..n : s[i] = s[j] => i = j
  BY <1>8 DEF Pool!IsInjective
<1>10. \A i \in 1..n : s[i] # e
  BY <1>8 DEF Pool!ToSet
<1>11. ASSUME NEW i \in 1..(1 + n), NEW j \in 1..(1 + n), t[i] = t[j] PROVE i = j
  <2>1. CASE i = 1
    <3>1. j = 1 \/ j \in 2..(1 + n)
      OBVIOUS
    <3> QED
      BY <1>6, <1>7, <1>10, <1>11, <2>1, <3>1
  <2>2. CASE j = 1
    <3>1. i = 1 \/ i \in 2..(1 + n)
      OBVIOUS
    <3> QED
      BY <1>6, <1>7, <1>10, <1>11, <2>2, <3>1
  <2>3. CASE i # 1 /\ j # 1
    <3>1. i \in 2..(1 + n) /\ j \in 2..(1 + n)
      BY <2>3
    <3>2. i - 1 = j - 1
      BY <1>7, <1>9, <1>11, <3>1
    <3> QED
      BY <3>2
  <2> QED
    BY <2>1, <2>2, <2>3
<1>12. Pool!IsInjective(t)
  BY <1>8, <1>11 DEF Pool!IsInjective
<1>13. ASSUME NEW x \in Pool!ToSet(t) PROVE x \in Pool!ToSet(s) \cup {e}
  <2>1. PICK i \in 1..(1 + n) : x = t[i]
    BY <1>8, <1>13 DEF Pool!ToSet
  <2>2. i = 1 \/ i \in 2..(1 + n)
    OBVIOUS
  <2> QED
    BY <1>6, <1>7, <1>8, <2>1, <2>2 DEF Pool!ToSet
<1>14. ASSUME NEW x \in Pool!ToSet(s) PROVE x \in Pool!ToSet(t)
  <2>1. PICK i \in 1..n : x = s[i]
    BY <1>8, <1>14 DEF Pool!ToSet
  <2>2. i + 1 \in 2..(1 + n) /\ i + 1 \in 1..(1 + n) /\ (i + 1) - 1 = i
    OBVIOUS
  <2>3. t[i + 1] = s[i]
    BY <1>7, <2>2
  <2> QED
    BY <1>8, <2>1, <2>2, <2>3 DEF Pool!ToSet
<1>15. e \in Pool!ToSet(t)
  <2>1. 1 \in 1..(1 + n)
    OBVIOUS
  <2> QED
    BY <1>6, <1>8, <2>1 DEF Pool!ToSet
<1> QED
  BY <1>2, <1>4, <1>12, <1>13, <1>14, <1>15

LEMMA AppendOnce ==
    ASSUME NEW S, NEW s \in Seq(S), NEW e \in S, Pool!IsInjective(s), e \notin Pool!ToSet(s)
    PROVE  /\ Append(s, e) \in Seq(S) /\ Pool!IsInjective(Append(s, e))
           /\ Pool!ToSet(Append(s, e)) = Pool!ToSet(s) \cup {e}
<1>1. PICK n \in Nat : Len(s) = n
  OBVIOUS
<1>2. PICK t : t = Append(s, e)
  OBVIOUS
<1>3. /\ t \in Seq(S) /\ Len(t) = n + 1 /\ t[n + 1] = e
      /\ \A i \in 1..n : t[i] = s[i]
  BY <1>1, <1>2, AppendProperties
<1>4. DOMAIN s = 1..n /\ DOMAIN t = 1..(n + 1)
  BY <1>1, <1>3
<1>5. \A i, j \in 1..n : s[i] = s[j] => i = j
  BY <1>4 DEF Pool!IsInjective
<1>6. \A i \in 1..n : s[i] # e
  BY <1>4 DEF Pool!ToSet
<1>7. 1..(n + 1) = (1..n) \cup {n + 1}
  OBVIOUS
<1>8. Pool!IsInjective(t)
  <2>1. \A i, j \in (1..n) \cup {n + 1} : t[i] = t[j] => i = j
    BY <1>3, <1>5, <1>6
  <2> QED
    BY <1>4, <1>7, <2>1 DEF Pool!IsInjective
<1>9. Pool!ToSet(t) = {t[i] : i \in (1..n) \cup {n + 1}}
  BY <1>4, <1>7 DEF Pool!ToSet
<1>10. Pool!ToSet(s) = {s[i] : i \in 1..n}
  BY <1>4 DEF Pool!ToSet
<1>11. Pool!ToSet(t) = Pool!ToSet(s) \cup {e}
  BY <1>3, <1>9, <1>10
<1> QED
  BY <1>2, <1>3, <1>8, <1>11

\* The elements of a new arena, as they are put on the list.
LEMMA ArenaList ==
    ASSUME NEW a \in Nat, NEW n \in Nat \ {0}, NEW sz \in Nat \ {0},
           NEW s \in [1..n -> Nat \X Nat], \A i \in 1..n : s[i] = <<a, (n - i) * sz>>
    PROVE  /\ s \in Seq(Nat \X Nat) /\ s # <<>> /\ Pool!IsInjective(s)
           /\ Pool!ToSet(s) = {<<a, i * sz>> : i \in 0..(n - 1)}
<1>1. \A i \in 1..n : n - i \in 0..(n - 1) /\ n - i \in Nat
  OBVIOUS
<1>2. \A k \in Nat : k * sz \in Nat
  OBVIOUS
<1>5. s \in Seq(Nat \X Nat) /\ Len(s) = n /\ DOMAIN s = 1..n
  OBVIOUS
<1>6. s # <<>>
  BY <1>5
<1>7. ASSUME NEW i \in 1..n, NEW j \in 1..n, s[i] = s[j] PROVE i = j
  <2>1. (n - i) * sz = (n - j) * sz
    <3>1. PICK x \in Nat : x = (n - i) * sz
      BY <1>1, <1>2
    <3>2. PICK y \in Nat : y = (n - j) * sz
      BY <1>1, <1>2
    <3>3. s[i] = <<a, x>> /\ s[j] = <<a, y>>
      BY <3>1, <3>2
    <3>4. <<a, x>>[2] = x /\ <<a, y>>[2] = y
      OBVIOUS
    <3>5. s[i][2] = x /\ s[j][2] = y
      BY ONLY <3>3, <3>4
    <3> QED
      BY <1>7, <3>1, <3>2, <3>5
  <2>2. ASSUME NEW k \in Nat, NEW l \in Nat, k < l PROVE k * sz # l * sz
    BY <2>2, <1>2, TimesOrder
  <2>3. ~(n - i < n - j) /\ ~(n - j < n - i)
    BY <1>1, <2>1, <2>2
  <2> QED
    BY <2>3
<1>8. Pool!IsInjective(s)
  BY <1>5, <1>7 DEF Pool!IsInjective
<1>9. ASSUME NEW i \in 0..(n - 1) PROVE <<a, i * sz>> \in Pool!ToSet(s)
  <2>1. n - i \in 1..n /\ n - (n - i) = i
    OBVIOUS
  <2>2. s[n - i] = <<a, i * sz>>
    BY <2>1
  <2> QED
    BY <1>5, <2>1, <2>2 DEF Pool!ToSet
<1>10. ASSUME NEW x \in Pool!ToSet(s) PROVE x \in {<<a, i * sz>> : i \in 0..(n - 1)}
  <2>1. PICK j \in 1..n : x = s[j]
    BY <1>5, <1>10 DEF Pool!ToSet
  <2> QED
    BY <1>1, <2>1
<1> QED
  BY <1>5, <1>6, <1>8, <1>9, <1>10

-----------------------------------------------------------------------------
lists == [sz \in Pool!PoolSizes |-> Pool!ToSet(freeList[sz])]

Memory == /\ Arenas
          /\ pooled \subseteq Pool!AllElements /\ large \subseteq Blocks
          /\ freeList \in [Pool!PoolSizes -> Seq(Nat \X Nat)]
Once == /\ \A sz \in Pool!PoolSizes : Pool!IsInjective(freeList[sz]) /\ lists[sz] \subseteq Pool!AllElements
        /\ \A e \in Pool!AllElements :
             /\ e \in pooled <=> e \notin lists[arenas[e[1]]]
             /\ \A sz \in Pool!PoolSizes \ {arenas[e[1]]} : e \notin lists[sz]
Counted == IsFiniteSet(Pool!Objects) /\ objectCount = Cardinality(Pool!Objects)
Walk == /\ cursor \in Pool!AllElements \cup {Pool!FirstOf(Len(arenas) + 1), None}
        /\ largeLeft \subseteq large
        /\ ~Pool!m_isEnumerating => largeLeft = {}
ToFree == Pool!ToSet(objectsToFree)
ToVisit == {Pool!GetObjectStart(e) : e \in Pool!Ahead} \cup largeLeft
Pending == /\ objectsToFree \in Seq(Pool!Pointers) /\ Pool!IsInjective(objectsToFree)
           /\ ToFree \subseteq Pool!Objects /\ ToFree \cap ToVisit = {}
PoolInv == Memory /\ Once /\ Counted /\ Walk /\ Pending

LEMMA ListsNext == lists' = [sz \in Pool!PoolSizes |-> Pool!ToSet(freeList'[sz])]
BY DEF lists, Pool!ToSet

LEMMA OnceIsOnce == Memory /\ Pool!PoolAssumption /\ Once => Pool!EachElementOnce
<1> SUFFICES ASSUME Memory, Pool!PoolAssumption, Once PROVE Pool!EachElementOnce
  OBVIOUS
<1>1. \A e \in Pool!AllElements : arenas[e[1]] \in Pool!PoolSizes
  BY ElementFacts DEF Memory
<1>2. \A sz \in Pool!PoolSizes : lists[sz] = Pool!ToSet(freeList[sz])
  BY DEF lists
<1> QED
  BY <1>1, <1>2 DEF Once, Pool!EachElementOnce

\* An element is taken off the list s of its size.
LEMMA TakeOnce ==
    ASSUME Pool!PoolAssumption, Memory, Once, NEW sz \in Pool!PoolSizes,
           NEW s \in Seq(Nat \X Nat), s # <<>>, Pool!IsInjective(s), Pool!Take(sz, s),
           Arenas', UNCHANGED large,
           Pool!AllElements' = Pool!AllElements \cup Pool!ToSet(s),
           Pool!ToSet(s) \cap pooled = {}, lists[sz] \subseteq Pool!ToSet(s),
           \A e \in Pool!AllElements : arenas'[e[1]] = arenas[e[1]],
           \A e \in Pool!ToSet(s) : arenas'[e[1]] = sz,
           \A e \in Pool!ToSet(s), z \in Pool!PoolSizes \ {sz} : e \notin lists[z]
    PROVE  /\ Memory' /\ Once'
           /\ Pool!Objects' = Pool!Objects \cup {last'}
           /\ last' \in Pool!Pointers \ Pool!Objects
<1>1. PICK e : e = Head(s)
  OBVIOUS
<1>2. PICK t : t = Tail(s)
  OBVIOUS
<1>3. /\ e \in Pool!ToSet(s) /\ t \in Seq(Nat \X Nat) /\ Pool!IsInjective(t)
      /\ Pool!ToSet(t) = Pool!ToSet(s) \ {e}
  BY <1>1, <1>2, TailOnce
<1>4. /\ freeList' = [freeList EXCEPT ![sz] = t] /\ pooled' = pooled \cup {e}
      /\ last' = Pool!GetObjectStart(e)
  BY <1>1, <1>2 DEF Pool!Take
<1>5. freeList'[sz] = t /\ \A z \in Pool!PoolSizes \ {sz} : freeList'[z] = freeList[z]
  BY <1>4 DEF Memory
<1>6. lists'[sz] = Pool!ToSet(s) \ {e} /\ \A z \in Pool!PoolSizes \ {sz} : lists'[z] = lists[z]
  BY <1>3, <1>5, ListsNext DEF lists
<1>7. e \in Pool!AllElements' /\ e \notin pooled
  BY <1>3
<1>8. Memory'
  <2>1. (pooled \subseteq Pool!AllElements)'
    BY <1>4, <1>7 DEF Memory
  <2>2. (freeList \in [Pool!PoolSizes -> Seq(Nat \X Nat)])'
    BY <1>3, <1>4 DEF Memory
  <2>3. (large \subseteq Blocks)'
    BY DEF Memory
  <2> QED
    BY <2>1, <2>2, <2>3 DEF Memory
<1>9. Once'
  <2>1. ASSUME NEW z \in Pool!PoolSizes PROVE Pool!IsInjective(freeList'[z]) /\ lists'[z] \subseteq Pool!AllElements'
    BY <1>3, <1>5, <1>6 DEF Once
  <2>2. ASSUME NEW x \in Pool!AllElements \cup Pool!ToSet(s)
        PROVE  /\ x \in pooled' <=> x \notin lists'[arenas'[x[1]]]
               /\ \A z \in Pool!PoolSizes \ {arenas'[x[1]]} : x \notin lists'[z]
    <3>1. CASE x \in Pool!ToSet(s)
      BY <1>3, <1>4, <1>6, <3>1
    <3>2. CASE x \notin Pool!ToSet(s)
      <4>1. PICK z : z = arenas[x[1]] /\ arenas'[x[1]] = z
        BY <3>2
      <4>2. z \in Pool!PoolSizes
        BY <3>2, <4>1, ElementFacts DEF Memory
      <4>3. (x \in pooled <=> x \notin lists[z]) /\ \A y \in Pool!PoolSizes \ {z} : x \notin lists[y]
        BY <3>2, <4>1 DEF Once
      <4>4. x \in pooled' <=> x \in pooled
        BY <1>3, <1>4, <3>2
      <4>5. \A y \in Pool!PoolSizes : x \in lists'[y] => x \in lists[y]
        BY <1>6, <3>2
      <4>6. x \in lists[z] => x \in lists'[z]
        BY <1>6, <3>2, <4>2
      <4> QED
        BY <4>1, <4>2, <4>3, <4>4, <4>5, <4>6
    <3> QED
      BY <3>1, <3>2
  <2>3. Once' <=> /\ \A z \in Pool!PoolSizes : Pool!IsInjective(freeList'[z]) /\ lists'[z] \subseteq Pool!AllElements'
                  /\ \A x \in Pool!AllElements' :
                       /\ x \in pooled' <=> x \notin lists'[arenas'[x[1]]]
                       /\ \A z \in Pool!PoolSizes \ {arenas'[x[1]]} : x \notin lists'[z]
    BY DEF Once, Pool!IsInjective
  <2> QED
    BY <2>1, <2>2, <2>3
<1>10. Pool!Objects = large \cup {Pool!GetObjectStart(x) : x \in pooled}
  BY ObjectsAre DEF Memory
<1>11. Pool!Objects' = large' \cup {Pool!GetObjectStart(x) : x \in pooled'}
  BY <1>8, ObjectsAreNext DEF Memory
<1>12. Pool!Objects' = Pool!Objects \cup {last'}
  BY <1>4, <1>10, <1>11
<1>13. \A x \in Pool!AllElements' : /\ Pool!GetElementHeader(Pool!GetObjectStart(x)) = x
                                     /\ Pool!GetObjectStart(x) \notin Blocks
                                     /\ Pool!GetObjectStart(x) \in Pool!Pointers
  BY <1>8, ElementFactsNext DEF Memory
<1>14. last' \notin Pool!Objects
  BY <1>4, <1>7, <1>8, <1>10, <1>13 DEF Memory
<1> QED
  BY <1>4, <1>7, <1>8, <1>9, <1>12, <1>13, <1>14

LEMMA ReuseOnce ==
    ASSUME Pool!PoolAssumption, Memory, Once, NEW sz \in Pool!PoolSizes, Pool!Reuse(sz), UNCHANGED large
    PROVE  /\ Memory' /\ Once' /\ Pool!AllElements' = Pool!AllElements
           /\ Pool!Objects' = Pool!Objects \cup {last'} /\ last' \in Pool!Pointers \ Pool!Objects
<1>1. PICK s : s = freeList[sz]
  OBVIOUS
<1>2. s \in Seq(Nat \X Nat) /\ s # <<>> /\ Pool!IsInjective(s) /\ Pool!Take(sz, s)
  BY <1>1 DEF Memory, Once, Pool!Reuse
<1>3. arenas' = arenas
  BY DEF Pool!Reuse
<1>4. Pool!AllElements' = Pool!AllElements /\ Arenas'
  BY <1>3 DEF Pool!AllElements, Pool!Elements, Arenas, Memory
<1>5. lists[sz] = Pool!ToSet(s) /\ Pool!ToSet(s) \subseteq Pool!AllElements
  BY <1>1 DEF lists, Once
<1>6. \A e \in Pool!ToSet(s) : arenas[e[1]] = sz /\ e \notin pooled
  BY <1>5, ElementFacts DEF Once, Memory
<1>7. \A e \in Pool!ToSet(s), z \in Pool!PoolSizes \ {sz} : e \notin lists[z]
  BY <1>5, <1>6 DEF Once
<1>8. /\ Pool!AllElements' = Pool!AllElements \cup Pool!ToSet(s) /\ Pool!ToSet(s) \cap pooled = {}
      /\ lists[sz] \subseteq Pool!ToSet(s)
      /\ \A e \in Pool!AllElements : arenas'[e[1]] = arenas[e[1]]
      /\ \A e \in Pool!ToSet(s) : arenas'[e[1]] = sz
  BY <1>3, <1>4, <1>5, <1>6
<1> HIDE DEF Arenas
<1>9. Memory' /\ Once' /\ Pool!Objects' = Pool!Objects \cup {last'} /\ last' \in Pool!Pointers \ Pool!Objects
  BY <1>2, <1>4, <1>7, <1>8, TakeOnce
<1> QED
  BY <1>4, <1>9

LEMMA NewArenaOnce ==
    ASSUME Pool!PoolAssumption, Memory, Once, NEW sz \in Pool!PoolSizes, Pool!NewArena(sz), UNCHANGED large
    PROVE  /\ Memory' /\ Once'
           /\ Pool!Objects' = Pool!Objects \cup {last'} /\ last' \in Pool!Pointers \ Pool!Objects
<1>1. PICK a \in Nat : a = Len(arenas) + 1
  BY DEF Memory, Arenas
<1>2. PICK n \in Nat \ {0} : Pool!ElementCount(sz) = n
  BY SizesFit
<1>3. PICK s : s = [i \in 1..n |-> <<a, (n - i) * sz>>]
  OBVIOUS
<1>4. /\ freeList[sz] = <<>> /\ a <= MaxArenas
      /\ arenas' = Append(arenas, sz) /\ Pool!Take(sz, s)
  BY <1>1, <1>2, <1>3 DEF Pool!NewArena
<1>5. sz \in Nat \ {0}
  BY SizesFit
<1>6. /\ s \in Seq(Nat \X Nat) /\ s # <<>> /\ Pool!IsInjective(s)
      /\ Pool!ToSet(s) = {<<a, i * sz>> : i \in 0..(n - 1)}
  <2>1. \A i \in 1..n : n - i \in Nat /\ (n - i) * sz \in Nat
    BY <1>5
  <2>2. \A i \in 1..n : <<a, (n - i) * sz>> \in Nat \X Nat
    BY <2>1
  <2>3. s \in [1..n -> Nat \X Nat] /\ \A i \in 1..n : s[i] = <<a, (n - i) * sz>>
    BY <1>3, <2>2
  <2> QED
    BY <1>5, <2>3, ArenaList
<1>7. /\ arenas' \in Seq(Pool!PoolSizes) /\ Len(arenas') = a /\ DOMAIN arenas' = 1..a
      /\ DOMAIN arenas = 1..(a - 1)
      /\ arenas'[a] = sz /\ \A b \in 1..(a - 1) : arenas'[b] = arenas[b]
  BY <1>1, <1>4, AppendProperties DEF Memory, Arenas
<1>8. Arenas'
  BY <1>4, <1>7 DEF Arenas
<1>9. 1..a = (1..(a - 1)) \cup {a}
  BY <1>1
<1>10. Pool!AllElements =
         UNION {{<<b, i * arenas[b]>> : i \in 0..(Pool!ElementCount(arenas[b]) - 1)} : b \in 1..(a - 1)}
  BY <1>7 DEF Pool!AllElements, Pool!Elements
<1>11. Pool!AllElements' = UNION {{<<b, i * arenas'[b]>> : i \in 0..(Pool!ElementCount(arenas'[b]) - 1)} : b \in 1..a}
  BY <1>7 DEF Pool!AllElements, Pool!Elements, Pool!ElementCount
<1>12. {<<a, i * arenas'[a]>> : i \in 0..(Pool!ElementCount(arenas'[a]) - 1)} = Pool!ToSet(s)
  BY <1>2, <1>6, <1>7
<1>13. Pool!AllElements' = Pool!AllElements \cup Pool!ToSet(s)
  <2>1. \A b \in 1..(a - 1) :
          {<<b, i * arenas'[b]>> : i \in 0..(Pool!ElementCount(arenas'[b]) - 1)}
           = {<<b, i * arenas[b]>> : i \in 0..(Pool!ElementCount(arenas[b]) - 1)}
    BY <1>7
  <2>2. ASSUME NEW e \in Pool!AllElements' PROVE e \in Pool!AllElements \cup Pool!ToSet(s)
    <3>1. PICK b \in 1..a : e \in {<<b, i * arenas'[b]>> : i \in 0..(Pool!ElementCount(arenas'[b]) - 1)}
      BY <1>11, <2>2
    <3>2. CASE b = a
      BY <1>12, <3>1, <3>2
    <3>3. CASE b \in 1..(a - 1)
      BY <1>10, <2>1, <3>1, <3>3
    <3> QED
      BY <1>9, <3>2, <3>3
  <2>3. ASSUME NEW e \in Pool!AllElements PROVE e \in Pool!AllElements'
    <3>1. PICK b \in 1..(a - 1) : e \in {<<b, i * arenas[b]>> : i \in 0..(Pool!ElementCount(arenas[b]) - 1)}
      BY <1>10, <2>3
    <3>2. b \in 1..a
      BY <1>9
    <3> QED
      BY <1>11, <2>1, <3>1, <3>2
  <2>4. ASSUME NEW e \in Pool!ToSet(s) PROVE e \in Pool!AllElements'
    <3>1. a \in 1..a
      BY <1>9
    <3> QED
      BY <1>11, <1>12, <2>4, <3>1
  <2> QED
    BY <2>2, <2>3, <2>4
<1>14. \A e \in Pool!AllElements : e[1] \in 1..(a - 1)
  BY <1>7, ElementFacts DEF Memory, Arenas
<1>15. \A e \in Pool!ToSet(s) : e[1] = a
  BY <1>6
<1>16. a \notin 1..(a - 1)
  OBVIOUS
<1>17. Pool!ToSet(s) \cap Pool!AllElements = {}
  BY <1>14, <1>15, <1>16
<1>18. lists[sz] = {}
  BY <1>4 DEF lists, Pool!ToSet
<1>19. /\ Pool!ToSet(s) \cap pooled = {} /\ lists[sz] \subseteq Pool!ToSet(s)
       /\ \A e \in Pool!AllElements : arenas'[e[1]] = arenas[e[1]]
       /\ \A e \in Pool!ToSet(s) : arenas'[e[1]] = sz
       /\ \A e \in Pool!ToSet(s), z \in Pool!PoolSizes \ {sz} : e \notin lists[z]
  BY <1>7, <1>14, <1>15, <1>17, <1>18 DEF Memory, Once
<1> QED
  BY <1>4, <1>6, <1>8, <1>13, <1>19, TakeOnce

\* An object is freed.
LEMMA ReleaseOnce ==
    ASSUME Pool!PoolAssumption, Memory, Once, NEW p \in Pool!Objects, Pool!Release(p), UNCHANGED arenas
    PROVE  /\ Memory' /\ Once' /\ Pool!Objects' = Pool!Objects \ {p}
<1>1. Pool!Objects = large \cup {Pool!GetObjectStart(x) : x \in pooled}
  BY ObjectsAre DEF Memory
<1>2. /\ Pool!AllElements' = Pool!AllElements /\ Arenas'
      /\ \A x \in Pool!AllElements : /\ Pool!GetElementHeader(Pool!GetObjectStart(x)) = x
                                /\ Pool!GetObjectStart(x) \notin Blocks
                                /\ arenas[x[1]] \in Pool!PoolSizes /\ x \in Nat \X Nat
  BY ElementFacts DEF Pool!AllElements, Pool!Elements, Arenas, Memory
<1>3. CASE p \in large
  <2>1. large' = large \ {p} /\ UNCHANGED <<pooled, freeList>>
    BY <1>3 DEF Pool!Release
  <2>2. lists' = lists
    BY <2>1 DEF lists, Pool!ToSet
  <2>3. Memory'
    BY <1>2, <2>1 DEF Memory
  <2>4. Once'
    BY <1>2, <2>1, <2>2 DEF Once, Pool!IsInjective
  <2>5. Pool!Objects' = large' \cup {Pool!GetObjectStart(x) : x \in pooled}
    BY <2>1, <2>3, ObjectsAreNext DEF Memory
  <2>6. \A x \in pooled : Pool!GetObjectStart(x) # p
    BY <1>2, <1>3 DEF Memory
  <2> QED
    BY <1>1, <2>1, <2>3, <2>4, <2>5, <2>6
<1>4. CASE p \notin large
  <2>1. PICK e \in pooled : p = Pool!GetObjectStart(e)
    BY <1>1, <1>4
  <2>2. e \in Pool!AllElements /\ Pool!GetElementHeader(p) = e
    BY <1>2, <2>1 DEF Memory
  <2>3. PICK sz \in Pool!PoolSizes : arenas[e[1]] = sz
    BY <1>2, <2>2
  <2>4. PICK s : s = freeList[sz]
    OBVIOUS
  <2>5. s \in Seq(Nat \X Nat) /\ e \in Nat \X Nat /\ lists[sz] = Pool!ToSet(s)
    BY <1>2, <2>2, <2>4 DEF Memory, lists
  <2>6. Pool!IsInjective(s) /\ e \notin Pool!ToSet(s) /\ \A z \in Pool!PoolSizes \ {sz} : e \notin lists[z]
    BY <2>1, <2>2, <2>3, <2>4, <2>5 DEF Once
  <2>7. PICK t : t = <<e>> \o s
    OBVIOUS
  <2>8. t \in Seq(Nat \X Nat) /\ Pool!IsInjective(t) /\ Pool!ToSet(t) = Pool!ToSet(s) \cup {e}
    BY <2>5, <2>6, <2>7, PushOnce
  <2>9. freeList' = [freeList EXCEPT ![sz] = t] /\ pooled' = pooled \ {e} /\ large' = large
    BY <1>4, <2>2, <2>3, <2>4, <2>7 DEF Pool!Release
  <2>10. freeList'[sz] = t /\ \A z \in Pool!PoolSizes \ {sz} : freeList'[z] = freeList[z]
    BY <2>9 DEF Memory
  <2>11. lists'[sz] = lists[sz] \cup {e} /\ \A z \in Pool!PoolSizes \ {sz} : lists'[z] = lists[z]
    BY <2>5, <2>8, <2>10, ListsNext DEF lists
  <2>12. Memory'
    <3>1. (freeList \in [Pool!PoolSizes -> Seq(Nat \X Nat)])'
      BY <2>8, <2>9 DEF Memory
    <3> QED
      BY <1>2, <2>9, <3>1 DEF Memory
  <2>13. Once'
    <3>1. \A z \in Pool!PoolSizes : Pool!IsInjective(freeList'[z]) /\ lists'[z] \subseteq Pool!AllElements
      BY <2>2, <2>8, <2>10, <2>11 DEF Once
    <3>2. ASSUME NEW x \in Pool!AllElements
          PROVE  /\ x \in pooled' <=> x \notin lists'[arenas[x[1]]]
                 /\ \A z \in Pool!PoolSizes \ {arenas[x[1]]} : x \notin lists'[z]
      <4>1. CASE x = e
        BY <2>3, <2>6, <2>9, <2>11, <4>1
      <4>2. CASE x # e
        <5>1. \A z \in Pool!PoolSizes : x \in lists'[z] <=> x \in lists[z]
          BY <2>11, <4>2
        <5>2. x \in pooled' <=> x \in pooled
          BY <2>9, <4>2
        <5>3. arenas[x[1]] \in Pool!PoolSizes
          BY <1>2
        <5> QED
          BY <5>1, <5>2, <5>3 DEF Once
      <4> QED
        BY <4>1, <4>2
    <3>3. Once' <=> /\ \A z \in Pool!PoolSizes :
                         Pool!IsInjective(freeList'[z]) /\ lists'[z] \subseteq Pool!AllElements'
                    /\ \A x \in Pool!AllElements' :
                         /\ x \in pooled' <=> x \notin lists'[arenas'[x[1]]]
                         /\ \A z \in Pool!PoolSizes \ {arenas'[x[1]]} : x \notin lists'[z]
      BY DEF Once, Pool!IsInjective
    <3> QED
      BY <1>2, <3>1, <3>2, <3>3
  <2>14. Pool!Objects' = large \cup {Pool!GetObjectStart(x) : x \in pooled'}
    BY <2>9, <2>12, ObjectsAreNext DEF Memory
  <2>15. \A x \in pooled : x # e => Pool!GetObjectStart(x) # p
    BY <1>2, <2>1, <2>2 DEF Memory
  <2>16. {Pool!GetObjectStart(x) : x \in pooled'} = {Pool!GetObjectStart(x) : x \in pooled} \ {p}
    BY <2>1, <2>9, <2>15
  <2> QED
    BY <1>1, <1>4, <2>12, <2>13, <2>14, <2>16
<1> QED
  BY <1>3, <1>4

-----------------------------------------------------------------------------
\* The walk of an enumeration goes on to the next element, and leaves none out.
Before(c, e) == e[1] > c[1] \/ (e[1] = c[1] /\ e[2] >= c[2])

LEMMA FirstElement ==
    ASSUME Pool!PoolAssumption, Arenas, NEW a \in 1..(Len(arenas) + 1)
    PROVE  Pool!FirstOf(a) \in Pool!AllElements \cup {Pool!FirstOf(Len(arenas) + 1)}
<1>1. Len(arenas) \in Nat /\ DOMAIN arenas = 1..Len(arenas)
  BY DEF Arenas
<1>2. CASE a = Len(arenas) + 1
  BY <1>2
<1>3. CASE a \in 1..Len(arenas)
  <2>1. PICK sz \in Pool!PoolSizes : arenas[a] = sz
    BY <1>3 DEF Arenas
  <2>2. PICK n \in Nat \ {0} : Pool!ElementCount(sz) = n /\ sz \in Nat \ {0}
    BY SizesFit
  <2>3. 0 \in 0..(n - 1) /\ 0 * sz = 0
    BY <2>2
  <2>4. Pool!FirstOf(a) \in Pool!Elements(a)
    BY <2>1, <2>2, <2>3 DEF Pool!FirstOf, Pool!Elements
  <2> QED
    BY <1>1, <1>3, <2>4 DEF Pool!AllElements
<1> QED
  BY <1>1, <1>2, <1>3

LEMMA AfterStep ==
    ASSUME Pool!PoolAssumption, Arenas, NEW c \in Pool!AllElements
    PROVE  /\ Pool!After(c) \in Pool!AllElements \cup {Pool!FirstOf(Len(arenas) + 1)}
           /\ \A e \in Pool!AllElements : Before(Pool!After(c), e) <=> Before(c, e) /\ e # c
<1>1. PICK len \in Nat : len = Len(arenas) /\ DOMAIN arenas = 1..len
  BY DEF Arenas
<1>2. PICK a \in 1..len : c[1] = a
  BY <1>1, ElementFacts
<1>3. PICK sz \in Pool!PoolSizes : arenas[a] = sz
  BY <1>2, ElementFacts
<1>4. PICK n \in Nat \ {0} : Pool!ElementCount(sz) = n /\ sz \in Nat \ {0}
  BY SizesFit
<1>5. PICK i \in 0..(n - 1) : c = <<a, i * sz>>
  BY <1>2, <1>3, <1>4, ElementFacts
<1>6. PICK x \in Nat : x = i * sz
  BY <1>4
<1>7. PICK y \in Nat : y = n * sz
  BY <1>4
<1>8. c = <<a, x>> /\ c[1] = a /\ c[2] = x
  BY <1>5, <1>6
<1>9. Pool!After(c) = IF x + sz < y THEN <<a, x + sz>> ELSE Pool!FirstOf(a + 1)
  BY <1>3, <1>4, <1>7, <1>8 DEF Pool!After
<1>10. \A k \in Nat : k * sz \in Nat
  BY <1>4
<1>11. ASSUME NEW e \in Pool!AllElements, e[1] = a
       PROVE  /\ e = <<a, e[2]>> /\ e[2] \in Nat
              /\ e[2] = x \/ e[2] >= x + sz \/ x >= e[2] + sz
              /\ e[2] + sz <= y
  <2>1. PICK j \in 0..(n - 1) : e = <<a, j * sz>>
    BY <1>3, <1>4, <1>11, ElementFacts
  <2>2. PICK z \in Nat : z = j * sz
    BY <1>10
  <2>3. j \in Nat /\ i \in Nat /\ sz \in Nat /\ n \in Nat
    BY <1>4
  <2>4. j < i => z + sz <= x
    BY <1>6, <2>2, <2>3, TimesOrder
  <2>5. i < j => x + sz <= z
    BY <1>6, <2>2, <2>3, TimesOrder
  <2>6. i = j => x = z
    BY <1>6, <2>2
  <2>7. z + sz <= y
    BY <1>7, <2>2, <2>3, TimesOrder
  <2>8. e = <<a, z>> /\ e[2] = z
    BY <2>1, <2>2
  <2>9. i < j \/ j < i \/ i = j
    BY <2>3
  <2> QED
    BY <2>3, <2>4, <2>5, <2>6, <2>7, <2>8, <2>9
<1>12. \A e \in Pool!AllElements : e[1] \in Nat /\ e[2] \in Nat /\ e = <<e[1], e[2]>>
  BY ElementFacts
<1>13. a \in Nat /\ sz \in Nat \ {0}
  BY <1>4
<1>14. CASE x + sz < y
  <2>1. i + 1 \in 0..(n - 1)
    <3>1. i + 1 = n \/ i + 1 \in 0..(n - 1)
      BY <1>4
    <3>2. (i + 1) * sz = x + sz
      BY <1>4, <1>6
    <3> QED
      BY <1>7, <1>14, <3>1, <3>2, <1>13
  <2>2. (i + 1) * sz = x + sz
    BY <1>4, <1>6
  <2>3. <<a, x + sz>> \in Pool!Elements(a)
    BY <1>3, <1>4, <2>1, <2>2 DEF Pool!Elements
  <2>4. Pool!After(c) = <<a, x + sz>> /\ Pool!After(c) \in Pool!AllElements
    BY <1>1, <1>9, <1>14, <2>3 DEF Pool!AllElements
  <2>5. PICK b : b = Pool!After(c) /\ b[1] = a /\ b[2] = x + sz
    BY <2>4
  <2>6. ASSUME NEW e \in Pool!AllElements PROVE Before(b, e) <=> Before(c, e) /\ e # c
    <3>1. CASE e[1] = a
      BY <1>8, <1>11, <1>13, <2>5, <3>1 DEF Before
    <3>2. CASE e[1] # a
      BY <1>8, <1>12, <1>13, <2>5, <3>2 DEF Before
    <3> QED
      BY <3>1, <3>2
  <2> QED
    BY <2>4, <2>5, <2>6
<1>15. CASE ~(x + sz < y)
  <2>1. Pool!After(c) = <<a + 1, 0>> /\ Pool!After(c) = Pool!FirstOf(a + 1)
    BY <1>9, <1>15 DEF Pool!FirstOf
  <2>2. Pool!After(c) \in Pool!AllElements \cup {Pool!FirstOf(Len(arenas) + 1)}
    BY <1>1, <2>1, FirstElement
  <2>3. PICK b : b = Pool!After(c) /\ b[1] = a + 1 /\ b[2] = 0
    BY <2>1
  <2>4. ASSUME NEW e \in Pool!AllElements PROVE Before(b, e) <=> Before(c, e) /\ e # c
    <3>1. CASE e[1] = a
      BY <1>7, <1>8, <1>11, <1>13, <1>15, <2>3, <3>1 DEF Before
    <3>2. CASE e[1] # a
      BY <1>8, <1>12, <1>13, <2>3, <3>2 DEF Before
    <3> QED
      BY <3>1, <3>2
  <2> QED
    BY <2>2, <2>3, <2>4
<1> QED
  BY <1>14, <1>15

-----------------------------------------------------------------------------
\* What the operations of a heap are in terms of the pools.
LEMMA HeapAllocate ==
    ASSUME NEW p \in Pool!Pointers, ~Pool!m_isEnumerating, ToFree = {}, p \notin Pool!Objects,
           Pool!Objects' = Pool!Objects \cup {p}, last' = p,
           ToFree' = ToFree, ToVisit' = ToVisit, cursor' = cursor
    PROVE  Pool!H!Next
BY DEF Pool!H!Next, Pool!H!Allocate, Pool!H!Idle, ToFree, Pool!ToSet, ToVisit, Pool!m_isEnumerating

LEMMA HeapFree ==
    ASSUME NEW p \in Pool!Pointers, ~Pool!m_isEnumerating, ToFree = {}, p \in Pool!Objects,
           Pool!Objects' = Pool!Objects \ {p}, last' = None,
           ToFree' = ToFree, ToVisit' = ToVisit, cursor' = cursor
    PROVE  Pool!H!Next
BY DEF Pool!H!Next, Pool!H!Free, Pool!H!Idle, ToFree, Pool!ToSet, ToVisit, Pool!m_isEnumerating

LEMMA HeapStartWalk ==
    ASSUME ~Pool!m_isEnumerating, ToFree = {}, Pool!m_isEnumerating', ToVisit' = Pool!Objects, last' = None,
           Pool!Objects' = Pool!Objects, ToFree' = ToFree
    PROVE  Pool!H!Next
BY DEF Pool!H!Next, Pool!H!StartWalk, Pool!H!Idle, ToFree, Pool!ToSet, ToVisit, Pool!m_isEnumerating

LEMMA HeapVisit ==
    ASSUME NEW p \in Pool!Pointers, Pool!m_isEnumerating, Pool!m_isEnumerating', p \in ToVisit,
           ToVisit' = ToVisit \ {p}, ToFree' \in {ToFree, ToFree \cup {p}},
           last' = p, Pool!Objects' = Pool!Objects
    PROVE  Pool!H!Next
BY DEF Pool!H!Next, Pool!H!Visit, ToFree, Pool!ToSet, ToVisit, Pool!m_isEnumerating

LEMMA HeapEndWalk ==
    ASSUME Pool!m_isEnumerating, ~Pool!m_isEnumerating', ToVisit = {} \/ last # None, ToVisit' = {},
           last' = None, Pool!Objects' = Pool!Objects, ToFree' = ToFree
    PROVE  Pool!H!Next
BY DEF Pool!H!Next, Pool!H!EndWalk, ToFree, Pool!ToSet, ToVisit, Pool!m_isEnumerating

LEMMA HeapRelease ==
    ASSUME NEW p \in Pool!Pointers, ~Pool!m_isEnumerating, p \in ToFree,
           ToFree' = ToFree \ {p}, Pool!Objects' = Pool!Objects \ {p},
           ToVisit' = ToVisit, cursor' = cursor, last' = last
    PROVE  Pool!H!Next
BY DEF Pool!H!Next, Pool!H!Release, ToFree, Pool!ToSet, ToVisit, Pool!m_isEnumerating

LEMMA HeapStutter ==
    ASSUME ToFree' = ToFree, Pool!Objects' = Pool!Objects, ToVisit' = ToVisit,
           Pool!m_isEnumerating' = Pool!m_isEnumerating, last' = last
    PROVE  UNCHANGED Pool!H!vars
BY DEF Pool!H!vars, ToFree, Pool!ToSet, ToVisit, Pool!m_isEnumerating

\* While there is no enumeration nothing is left to visit.
LEMMA NothingToVisit ==
    /\ Walk /\ ~Pool!m_isEnumerating => ToVisit = {}
    /\ (Walk /\ ~Pool!m_isEnumerating => ToVisit = {})'
<1>1. Walk /\ ~Pool!m_isEnumerating => ToVisit = {}
  BY DEF Walk, ToVisit, Pool!Ahead
<1> QED
  BY <1>1, PTL

LEMMA EmptyToFree == objectsToFree = <<>> => ToFree = {}
BY DEF ToFree, Pool!ToSet

-----------------------------------------------------------------------------
LEMMA PoolInit == Pool!PoolAssumption /\ Pool!Init => PoolInv /\ Pool!H!Init
<1> SUFFICES ASSUME Pool!PoolAssumption, Pool!Init PROVE PoolInv /\ Pool!H!Init
  OBVIOUS
<1>1. arenas = <<>> /\ pooled = {} /\ large = {} /\ objectsToFree = <<>> /\ objectCount = 0
      /\ cursor = None /\ largeLeft = {} /\ last = None
      /\ freeList = [sz \in Pool!PoolSizes |-> <<>>]
  BY DEF Pool!Init
<1>2. Pool!AllElements = {}
  BY <1>1 DEF Pool!AllElements
<1>3. Memory
  <2>1. arenas \in Seq(Pool!PoolSizes) /\ Len(arenas) = 0
    BY <1>1
  <2>2. freeList \in [Pool!PoolSizes -> Seq(Nat \X Nat)]
    BY <1>1
  <2> QED
    BY <1>1, <2>1, <2>2 DEF Memory, Arenas, Pool!PoolAssumption
<1>4. Once
  <2>1. \A sz \in Pool!PoolSizes : freeList[sz] = <<>> /\ lists[sz] = {}
    BY <1>1 DEF lists, Pool!ToSet
  <2>2. Pool!IsInjective(<<>>)
    BY DEF Pool!IsInjective
  <2> QED
    BY <1>2, <2>1, <2>2 DEF Once
<1>5. Pool!Objects = {}
  BY <1>1, <1>3, ObjectsAre DEF Memory
<1>6. Counted
  BY <1>1, <1>5, FS_EmptySet DEF Counted
<1>7. Walk
  BY <1>1 DEF Walk, Pool!m_isEnumerating
<1>8. ToFree = {} /\ ToVisit = {}
  BY <1>1, <1>7, EmptyToFree, NothingToVisit DEF Pool!m_isEnumerating
<1>9. Pending
  <2>1. objectsToFree \in Seq(Pool!Pointers) /\ Pool!IsInjective(objectsToFree)
    BY <1>1 DEF Pool!IsInjective
  <2> QED
    BY <1>8, <2>1 DEF Pending
<1>10. Pool!H!Init
  BY <1>1, <1>5, <1>8 DEF Pool!H!Init, ToFree, ToVisit, Pool!m_isEnumerating
<1> QED
  BY <1>3, <1>4, <1>6, <1>7, <1>9, <1>10 DEF PoolInv

LEMMA CountMore ==
    ASSUME Counted, NEW p, p \notin Pool!Objects, Pool!Objects' = Pool!Objects \cup {p},
           objectCount' = objectCount + 1
    PROVE  Counted'
<1>1. IsFiniteSet(Pool!Objects') /\ Cardinality(Pool!Objects') = Cardinality(Pool!Objects) + 1
  BY FS_AddElement DEF Counted
<1> QED
  BY <1>1 DEF Counted

LEMMA CountLess ==
    ASSUME Counted, NEW p \in Pool!Objects, Pool!Objects' = Pool!Objects \ {p}, objectCount' = objectCount - 1
    PROVE  Counted'
<1>1. IsFiniteSet(Pool!Objects') /\ Cardinality(Pool!Objects') = Cardinality(Pool!Objects) - 1
  BY FS_RemoveElement DEF Counted
<1> QED
  BY <1>1 DEF Counted

\* An operation of the program, when nothing is enumerated: the walk stays over.
LEMMA IdleStays ==
    ASSUME PoolInv, Pool!Idle, UNCHANGED <<objectsToFree, cursor, largeLeft>>
    PROVE  /\ Walk' /\ Pending'
           /\ ToFree = {} /\ ToFree' = {} /\ ToVisit' = {} /\ ToVisit = {}
<1>1. objectsToFree = <<>> /\ ToFree = {} /\ ToFree' = {}
  BY EmptyToFree DEF Pool!Idle, ToFree, Pool!ToSet
<1>2. cursor = None /\ cursor' = None /\ largeLeft = {} /\ largeLeft' = {}
  BY DEF Pool!Idle, Pool!m_isEnumerating, PoolInv, Walk
<1>3. Walk'
  BY <1>2 DEF Walk, Pool!m_isEnumerating
<1>4. ToVisit = {} /\ ToVisit' = {}
  BY <1>2, <1>3, NothingToVisit DEF PoolInv, Pool!m_isEnumerating
<1>5. Pending'
  <2>1. (objectsToFree \in Seq(Pool!Pointers))' /\ Pool!IsInjective(objectsToFree)'
    BY <1>1 DEF PoolInv, Pending, Pool!IsInjective, Pool!Pointers
  <2> QED
    BY <1>1, <2>1 DEF Pending
<1> QED
  BY <1>1, <1>3, <1>4, <1>5

LEMMA AllocateStep ==
    ASSUME Pool!PoolAssumption, PoolInv, NEW s \in ObjectSizes, Pool!Allocate(s)
    PROVE  PoolInv' /\ Pool!H!Next
<1>1. PICK sz : sz = Pool!GetElementSize(s)
  OBVIOUS
<1>2. Pool!Idle /\ UNCHANGED <<objectsToFree, cursor, largeLeft>>
  BY DEF Pool!Allocate
<1>3. /\ Walk' /\ Pending'
      /\ ToFree = {} /\ ToFree' = {} /\ ToVisit' = {} /\ ToVisit = {}
  BY <1>2, IdleStays
<1>4. /\ Memory' /\ Once' /\ Pool!Objects' = Pool!Objects \cup {last'} /\ last' \in Pool!Pointers \ Pool!Objects
      /\ objectCount' = objectCount + 1
  <2>1. CASE Pool!isLargeObject(sz)
    <3>1. PICK b \in Blocks : Pool!AllocateLarge(b)
      BY <1>1, <2>1 DEF Pool!Allocate
    <3>2. /\ b \notin large /\ large' = large \cup {b} /\ last' = b
          /\ objectCount' = objectCount + 1 /\ UNCHANGED <<arenas, pooled, freeList>>
      BY <3>1 DEF Pool!AllocateLarge
    <3>3. Pool!AllElements' = Pool!AllElements /\ Arenas' /\ lists' = lists
      BY <3>2 DEF Pool!AllElements, Pool!Elements, Arenas, lists, Pool!ToSet, PoolInv, Memory
    <3>4. Memory'
      BY <3>2, <3>3 DEF PoolInv, Memory
    <3>5. Once'
      BY <3>2, <3>3 DEF PoolInv, Once, Pool!IsInjective
    <3>6. Pool!Objects = large \cup {Pool!GetObjectStart(x) : x \in pooled}
      BY ObjectsAre DEF PoolInv, Memory
    <3>7. Pool!Objects' = large' \cup {Pool!GetObjectStart(x) : x \in pooled}
      BY <3>2, <3>4, ObjectsAreNext DEF Memory
    <3>8. b \notin Pool!Objects
      BY <3>2, <3>6, ElementFacts DEF PoolInv, Memory
    <3>9. Pool!Objects' = Pool!Objects \cup {b}
      BY <3>2, <3>6, <3>7
    <3> QED
      BY <3>2, <3>4, <3>5, <3>8, <3>9 DEF Pool!Pointers
  <2>2. CASE ~Pool!isLargeObject(sz)
    <3>1. sz \in Pool!PoolSizes /\ (Pool!NewArena(sz) \/ Pool!Reuse(sz)) /\ UNCHANGED large
      BY <1>1, <2>2 DEF Pool!Allocate, Pool!PoolSizes
    <3>2. objectCount' = objectCount + 1
      BY <3>1 DEF Pool!NewArena, Pool!Reuse, Pool!Take
    <3> QED
      BY <3>1, <3>2, ReuseOnce, NewArenaOnce DEF PoolInv
  <2> QED
    BY <2>1, <2>2
<1>5. Counted'
  BY <1>4, CountMore DEF PoolInv
<1>6. Pool!H!Next
  BY <1>2, <1>3, <1>4, HeapAllocate DEF Pool!Idle
<1> QED
  BY <1>3, <1>4, <1>5, <1>6 DEF PoolInv

LEMMA FreeStep ==
    ASSUME Pool!PoolAssumption, PoolInv, NEW p \in Pool!Pointers, Pool!Free(p)
    PROVE  PoolInv' /\ Pool!H!Next
<1>1. /\ Pool!Idle /\ p \in Pool!Objects /\ Pool!Release(p) /\ last' = None
      /\ UNCHANGED <<arenas, objectsToFree, cursor, largeLeft>>
  BY DEF Pool!Free
<1>2. /\ Walk' /\ Pending'
      /\ ToFree = {} /\ ToFree' = {} /\ ToVisit' = {} /\ ToVisit = {}
  BY <1>1, IdleStays
<1>3. Memory' /\ Once' /\ Pool!Objects' = Pool!Objects \ {p}
  BY <1>1, ReleaseOnce DEF PoolInv
<1>4. objectCount' = objectCount - 1
  BY <1>1 DEF Pool!Release
<1>5. Counted'
  BY <1>1, <1>3, <1>4, CountLess DEF PoolInv
<1>6. Pool!H!Next
  BY <1>1, <1>2, <1>3, HeapFree DEF Pool!Idle
<1> QED
  BY <1>2, <1>3, <1>5, <1>6 DEF PoolInv

\* An operation that leaves the memory alone.
LEMMA MemoryStays ==
    ASSUME Pool!PoolAssumption, PoolInv, UNCHANGED <<arenas, pooled, freeList, large, objectCount>>
    PROVE  /\ Pool!AllElements' = Pool!AllElements /\ Memory' /\ Once' /\ Counted' /\ Pool!Objects' = Pool!Objects
<1>1. Pool!AllElements' = Pool!AllElements /\ Arenas' /\ lists' = lists
  BY DEF Pool!AllElements, Pool!Elements, Arenas, lists, Pool!ToSet, PoolInv, Memory
<1>2. Memory'
  BY <1>1 DEF PoolInv, Memory
<1>3. Once'
  BY <1>1 DEF PoolInv, Once, Pool!IsInjective
<1>4. Pool!Objects = large \cup {Pool!GetObjectStart(x) : x \in pooled}
  BY ObjectsAre DEF PoolInv, Memory
<1>5. Pool!Objects' = large \cup {Pool!GetObjectStart(x) : x \in pooled}
  BY <1>2, ObjectsAreNext DEF Memory
<1>6. Counted'
  BY <1>4, <1>5 DEF PoolInv, Counted
<1> QED
  BY <1>1, <1>2, <1>3, <1>4, <1>5, <1>6

LEMMA NoneIsNoElement ==
    ASSUME Pool!PoolAssumption, Arenas
    PROVE  None \notin Pool!AllElements \cup {Pool!FirstOf(Len(arenas) + 1)}
<1>1. \A e \in Pool!AllElements : e \in Nat \X Nat
  BY ElementFacts
<1>2. Pool!FirstOf(Len(arenas) + 1) \in Nat \X Nat
  <2>1. Len(arenas) + 1 \in Nat
    BY DEF Arenas
  <2> QED
    BY <2>1 DEF Pool!FirstOf
<1> QED
  BY <1>1, <1>2 DEF Pool!PoolAssumption

LEMMA AheadNext ==
    cursor' # None => Pool!Ahead' = {e \in pooled' : Before(cursor', e)}
BY DEF Pool!Ahead, Pool!m_isEnumerating, Before

LEMMA StartStep ==
    ASSUME Pool!PoolAssumption, PoolInv, Pool!StartEnumeration
    PROVE  PoolInv' /\ Pool!H!Next
<1>1. /\ Pool!Idle /\ cursor' = Pool!FirstOf(1) /\ largeLeft' = large /\ last' = None
      /\ UNCHANGED <<arenas, pooled, freeList, large, objectsToFree, objectCount>>
  BY DEF Pool!StartEnumeration
<1>2. /\ Pool!AllElements' = Pool!AllElements /\ Memory' /\ Once' /\ Counted' /\ Pool!Objects' = Pool!Objects
  BY <1>1, MemoryStays
<1>3. Arenas /\ Arenas' /\ pooled \subseteq Pool!AllElements
  BY <1>2 DEF PoolInv, Memory
<1>4. Pool!FirstOf(1) \in Pool!AllElements \cup {Pool!FirstOf(Len(arenas) + 1)}
  <2>1. 1 \in 1..(Len(arenas) + 1)
    BY <1>3 DEF Arenas
  <2> QED
    BY <1>3, <2>1, FirstElement
<1>5. cursor' # None
  BY <1>1, <1>3, <1>4, NoneIsNoElement
<1>6. Walk'
  BY <1>1, <1>2, <1>4, <1>5 DEF Walk, Pool!m_isEnumerating
<1>7. Pool!Ahead' = pooled
  <2>1. \A e \in pooled : e[1] \in Nat /\ e[1] >= 1 /\ e[2] \in Nat
    BY <1>3, ElementFacts
  <2>2. cursor'[1] = 1 /\ cursor'[2] = 0
    BY <1>1 DEF Pool!FirstOf
  <2>3. \A e \in pooled : Before(cursor', e)
    BY <2>1, <2>2 DEF Before
  <2> QED
    BY <1>1, <1>5, <2>3, AheadNext
<1>8. ToVisit' = {Pool!GetObjectStart(e) : e \in Pool!Ahead'} \cup largeLeft'
  BY DEF ToVisit, Pool!GetObjectStart
<1>9. ToVisit' = Pool!Objects
  BY <1>1, <1>7, <1>8, ObjectsAre DEF PoolInv, Memory
<1>10. objectsToFree = <<>> /\ ToFree = {} /\ ToFree' = {}
  BY <1>1, EmptyToFree DEF Pool!Idle, ToFree, Pool!ToSet
<1>11. Pending'
  <2>1. (objectsToFree \in Seq(Pool!Pointers))' /\ Pool!IsInjective(objectsToFree)'
    BY <1>1 DEF PoolInv, Pending, Pool!IsInjective, Pool!Pointers
  <2> QED
    BY <1>10, <2>1 DEF Pending
<1>12. Pool!H!Next
  BY <1>1, <1>2, <1>5, <1>9, <1>10, HeapStartWalk DEF Pool!Idle, Pool!m_isEnumerating
<1> QED
  BY <1>2, <1>6, <1>11, <1>12 DEF PoolInv

\* What the sweep does with an object it visits.
LEMMA EnumProcStep ==
    ASSUME Pool!PoolAssumption, PoolInv, NEW p \in Pool!Pointers, Pool!EnumProc(p), p \in ToVisit,
           p \in Pool!Objects, Pool!Objects' = Pool!Objects, ToVisit' = ToVisit \ {p},
           Pool!m_isEnumerating, Pool!m_isEnumerating'
    PROVE  Pending' /\ Pool!H!Next
<1>1. /\ objectsToFree \in Seq(Pool!Pointers) /\ Pool!IsInjective(objectsToFree)
      /\ ToFree \subseteq Pool!Objects /\ ToFree \cap ToVisit = {}
  BY DEF PoolInv, Pending
<1>2. last' = p
  BY DEF Pool!EnumProc
<1>3. CASE objectsToFree' = objectsToFree
  <2>1. ToFree' = ToFree
    BY <1>3 DEF ToFree, Pool!ToSet
  <2>2. Pending'
    <3>1. (objectsToFree \in Seq(Pool!Pointers))' /\ Pool!IsInjective(objectsToFree)'
      BY <1>1, <1>3 DEF Pool!IsInjective, Pool!Pointers
    <3> QED
      BY <1>1, <2>1, <3>1 DEF Pending
  <2> QED
    BY <1>2, <2>1, <2>2, HeapVisit
<1>4. CASE objectsToFree' = Append(objectsToFree, p)
  <2>1. p \notin Pool!ToSet(objectsToFree)
    BY <1>1 DEF ToFree
  <2>2. PICK s : s = Append(objectsToFree, p)
    OBVIOUS
  <2>3. s \in Seq(Pool!Pointers) /\ Pool!IsInjective(s) /\ Pool!ToSet(s) = ToFree \cup {p}
    BY <1>1, <2>1, <2>2, AppendOnce DEF ToFree
  <2>4. objectsToFree' = s
    BY <1>4, <2>2
  <2>5. ToFree' = ToFree \cup {p}
    BY <2>3, <2>4 DEF ToFree, Pool!ToSet
  <2>6. Pending'
    <3>1. (objectsToFree \in Seq(Pool!Pointers))' /\ Pool!IsInjective(objectsToFree)'
      BY <2>3, <2>4 DEF Pool!IsInjective, Pool!Pointers
    <3> QED
      BY <1>1, <2>5, <3>1 DEF Pending
  <2> QED
    BY <1>2, <2>5, <2>6, HeapVisit
<1> QED
  BY <1>3, <1>4 DEF Pool!EnumProc

LEMMA VisitElementStep ==
    ASSUME Pool!PoolAssumption, PoolInv, Pool!VisitElement
    PROVE  PoolInv' /\ (Pool!H!Next \/ UNCHANGED Pool!H!vars)
<1>1. /\ Pool!m_isEnumerating /\ ~Pool!AtLargeObjects /\ cursor' = Pool!After(cursor)
      /\ UNCHANGED <<arenas, largeLeft, pooled, freeList, large, objectCount>>
  BY DEF Pool!VisitElement, Pool!EnumProc
<1>2. /\ Pool!AllElements' = Pool!AllElements /\ Memory' /\ Once' /\ Counted' /\ Pool!Objects' = Pool!Objects
  BY <1>1, MemoryStays
<1>3. Arenas /\ pooled \subseteq Pool!AllElements /\ large \subseteq Blocks /\ largeLeft \subseteq large
  BY DEF PoolInv, Memory, Walk
<1>4. cursor \in Pool!AllElements
  <2>1. cursor # Pool!FirstOf(Len(arenas) + 1)
    <3>1. Len(arenas) + 1 > Len(arenas)
      BY <1>3 DEF Arenas
    <3>2. Pool!FirstOf(Len(arenas) + 1)[1] = Len(arenas) + 1
      BY DEF Pool!FirstOf
    <3> QED
      BY <1>1, <3>1, <3>2 DEF Pool!AtLargeObjects
  <2> QED
    BY <1>1, <2>1 DEF PoolInv, Walk, Pool!m_isEnumerating
<1>5. /\ cursor' \in Pool!AllElements \cup {Pool!FirstOf(Len(arenas) + 1)}
      /\ \A e \in Pool!AllElements : Before(cursor', e) <=> Before(cursor, e) /\ e # cursor
  BY <1>1, <1>3, <1>4, AfterStep
<1>6. cursor' # None /\ Pool!m_isEnumerating'
  BY <1>3, <1>5, NoneIsNoElement DEF Pool!m_isEnumerating
<1>7. Walk'
  BY <1>1, <1>2, <1>3, <1>5, <1>6 DEF Walk
<1>8. Pool!Ahead = {e \in pooled : Before(cursor, e)} /\ Pool!Ahead' = {e \in pooled : Before(cursor', e)}
  BY <1>1, <1>6, AheadNext DEF Pool!Ahead, Before
<1>9. Pool!Ahead' = Pool!Ahead \ {cursor}
  BY <1>3, <1>5, <1>8
<1>10. ToVisit' = {Pool!GetObjectStart(e) : e \in Pool!Ahead'} \cup largeLeft
  BY <1>1 DEF ToVisit, Pool!GetObjectStart
<1>11. CASE cursor \in pooled
  <2>1. PICK p : p = Pool!GetObjectStart(cursor)
    OBVIOUS
  <2>2. Pool!EnumProc(p)
    BY <1>11, <2>1 DEF Pool!VisitElement
  <2>3. cursor \in Pool!Ahead
    BY <1>4, <1>8, <1>11, ElementFacts, <1>3 DEF Before
  <2>4. p \in ToVisit /\ p \in Pool!Pointers
    BY <1>3, <1>4, <2>1, <2>3, ElementFacts DEF ToVisit
  <2>5. p \in Pool!Objects
    BY <1>11, <2>1, ObjectsAre DEF PoolInv, Memory
  <2>6. \A e \in Pool!Ahead : e # cursor => Pool!GetObjectStart(e) # p
    BY <1>3, <1>4, <1>8, <2>1, ElementFacts
  <2>7. p \notin largeLeft
    BY <1>3, <1>4, <2>1, ElementFacts
  <2>8. ToVisit' = ToVisit \ {p}
    BY <1>9, <1>10, <2>1, <2>3, <2>6, <2>7 DEF ToVisit
  <2>9. Pending' /\ Pool!H!Next
    BY <1>1, <1>2, <1>6, <2>2, <2>4, <2>5, <2>8, EnumProcStep
  <2> QED
    BY <1>2, <1>7, <2>9 DEF PoolInv
<1>12. CASE cursor \notin pooled
  <2>1. UNCHANGED <<objectsToFree, last>>
    BY <1>12 DEF Pool!VisitElement
  <2>2. Pool!Ahead' = Pool!Ahead
    BY <1>8, <1>9, <1>12
  <2>3. ToVisit' = ToVisit
    BY <1>10, <2>2 DEF ToVisit
  <2>4. ToFree' = ToFree
    BY <2>1 DEF ToFree, Pool!ToSet
  <2>5. Pending'
    <3>1. (objectsToFree \in Seq(Pool!Pointers))' /\ Pool!IsInjective(objectsToFree)'
      BY <2>1 DEF PoolInv, Pending, Pool!IsInjective, Pool!Pointers
    <3> QED
      BY <1>2, <2>3, <2>4, <3>1 DEF Pending, PoolInv
  <2>6. UNCHANGED Pool!H!vars
    BY <1>1, <1>2, <1>6, <2>1, <2>3, <2>4, HeapStutter
  <2> QED
    BY <1>2, <1>7, <2>5, <2>6 DEF PoolInv
<1> QED
  BY <1>11, <1>12

LEMMA VisitLargeStep ==
    ASSUME Pool!PoolAssumption, PoolInv, NEW b \in Blocks, Pool!VisitLarge(b)
    PROVE  PoolInv' /\ Pool!H!Next
<1>1. /\ Pool!AtLargeObjects /\ b \in largeLeft /\ largeLeft' = largeLeft \ {b} /\ Pool!EnumProc(b)
      /\ UNCHANGED <<arenas, cursor, pooled, freeList, large, objectCount>>
  BY DEF Pool!VisitLarge, Pool!EnumProc
<1>2. /\ Pool!AllElements' = Pool!AllElements /\ Memory' /\ Once' /\ Counted' /\ Pool!Objects' = Pool!Objects
  BY <1>1, MemoryStays
<1>3. Pool!m_isEnumerating /\ Pool!m_isEnumerating'
  BY <1>1 DEF Pool!AtLargeObjects, Pool!m_isEnumerating
<1>4. Walk'
  BY <1>1, <1>2, <1>3 DEF PoolInv, Walk
<1>5. Pool!Ahead' = Pool!Ahead
  BY <1>1 DEF Pool!Ahead, Pool!m_isEnumerating
<1>6. ToVisit' = {Pool!GetObjectStart(e) : e \in Pool!Ahead} \cup largeLeft'
  BY <1>5 DEF ToVisit, Pool!GetObjectStart
<1>7. \A e \in Pool!Ahead : Pool!GetObjectStart(e) # b
  BY ElementFacts DEF PoolInv, Memory, Pool!Ahead
<1>8. b \in ToVisit /\ ToVisit' = ToVisit \ {b}
  BY <1>1, <1>6, <1>7 DEF ToVisit
<1>9. b \in Pool!Pointers /\ b \in Pool!Objects
  BY <1>1, ObjectsAre DEF Pool!Pointers, PoolInv, Memory, Walk
<1>10. Pending' /\ Pool!H!Next
  BY <1>1, <1>2, <1>3, <1>8, <1>9, EnumProcStep
<1> QED
  BY <1>2, <1>4, <1>10 DEF PoolInv

LEMMA EndStep ==
    ASSUME Pool!PoolAssumption, PoolInv, Pool!EndEnumeration
    PROVE  PoolInv' /\ Pool!H!Next
<1>1. /\ Pool!m_isEnumerating
      /\ (Pool!AtLargeObjects /\ largeLeft = {}) \/ last # None
      /\ cursor' = None /\ largeLeft' = {} /\ last' = None
      /\ UNCHANGED <<arenas, pooled, freeList, large, objectsToFree, objectCount>>
  BY DEF Pool!EndEnumeration
<1>2. /\ Pool!AllElements' = Pool!AllElements /\ Memory' /\ Once' /\ Counted' /\ Pool!Objects' = Pool!Objects
  BY <1>1, MemoryStays
<1>3. ~Pool!m_isEnumerating' /\ Walk'
  BY <1>1 DEF Walk, Pool!m_isEnumerating
<1>4. ToVisit' = {}
  BY <1>3, NothingToVisit
<1>5. ToFree' = ToFree
  BY <1>1 DEF ToFree, Pool!ToSet
<1>6. Pending'
  <2>1. (objectsToFree \in Seq(Pool!Pointers))' /\ Pool!IsInjective(objectsToFree)'
    BY <1>1 DEF PoolInv, Pending, Pool!IsInjective, Pool!Pointers
  <2> QED
    BY <1>2, <1>4, <1>5, <2>1 DEF Pending, PoolInv
<1>7. ToVisit = {} \/ last # None
  <2>1. ASSUME Pool!AtLargeObjects, largeLeft = {} PROVE ToVisit = {}
    <3>1. \A e \in pooled : e[1] \in Nat /\ e[1] <= Len(arenas)
      BY ElementFacts DEF PoolInv, Memory, Arenas
    <3>2. cursor = Pool!FirstOf(Len(arenas) + 1)
      <4>1. cursor # None /\ cursor[1] > Len(arenas)
        BY <2>1 DEF Pool!AtLargeObjects, Pool!m_isEnumerating
      <4>2. cursor \notin Pool!AllElements
        BY <4>1, ElementFacts DEF PoolInv, Memory, Arenas
      <4> QED
        BY <4>1, <4>2 DEF PoolInv, Walk
    <3>3. cursor[1] = Len(arenas) + 1 /\ Len(arenas) \in Nat
      BY <3>2 DEF Pool!FirstOf, PoolInv, Memory, Arenas
    <3>4. Pool!Ahead = {}
      BY <3>1, <3>3 DEF Pool!Ahead
    <3> QED
      BY <2>1, <3>4 DEF ToVisit
  <2> QED
    BY <1>1, <2>1
<1>8. Pool!H!Next
  BY <1>1, <1>2, <1>3, <1>4, <1>5, <1>7, HeapEndWalk
<1> QED
  BY <1>2, <1>3, <1>6, <1>8 DEF PoolInv

LEMMA FreePendingStep ==
    ASSUME Pool!PoolAssumption, PoolInv, Pool!FreePending
    PROVE  PoolInv' /\ Pool!H!Next
<1>1. PICK p : p = Head(objectsToFree)
  OBVIOUS
<1>2. PICK s : s = Tail(objectsToFree)
  OBVIOUS
<1>3. /\ ~Pool!m_isEnumerating /\ objectsToFree # <<>> /\ Pool!Release(p) /\ objectsToFree' = s
      /\ UNCHANGED <<arenas, cursor, largeLeft, last>>
  BY <1>1, <1>2 DEF Pool!FreePending
<1>4. /\ objectsToFree \in Seq(Pool!Pointers) /\ Pool!IsInjective(objectsToFree)
      /\ Pool!ToSet(objectsToFree) \subseteq Pool!Objects
  BY DEF PoolInv, Pending, ToFree
<1>5. /\ p \in Pool!Pointers /\ p \in ToFree
      /\ s \in Seq(Pool!Pointers) /\ Pool!IsInjective(s) /\ Pool!ToSet(s) = ToFree \ {p}
  BY <1>1, <1>2, <1>3, <1>4, TailOnce DEF ToFree
<1>6. p \in Pool!Objects
  BY <1>4, <1>5 DEF ToFree
<1>7. Memory' /\ Once' /\ Pool!Objects' = Pool!Objects \ {p}
  BY <1>3, <1>6, ReleaseOnce DEF PoolInv
<1>8. objectCount' = objectCount - 1
  BY <1>3 DEF Pool!Release
<1>9. Counted'
  BY <1>6, <1>7, <1>8, CountLess DEF PoolInv
<1>10. cursor = None /\ cursor' = None /\ largeLeft = {} /\ largeLeft' = {}
  BY <1>3 DEF Pool!m_isEnumerating, PoolInv, Walk
<1>11. Walk' /\ ~Pool!m_isEnumerating'
  BY <1>10 DEF Walk, Pool!m_isEnumerating
<1>12. ToVisit = {} /\ ToVisit' = {}
  BY <1>3, <1>11, NothingToVisit DEF PoolInv
<1>13. ToFree' = ToFree \ {p}
  BY <1>3, <1>5 DEF ToFree, Pool!ToSet
<1>14. Pending'
  <2>1. (objectsToFree \in Seq(Pool!Pointers))' /\ Pool!IsInjective(objectsToFree)'
    BY <1>3, <1>5 DEF Pool!IsInjective, Pool!Pointers
  <2>2. ToFree \subseteq Pool!Objects
    BY <1>4 DEF ToFree
  <2> QED
    BY <1>7, <1>12, <1>13, <2>1, <2>2 DEF Pending
<1>15. Pool!H!Next
  BY <1>3, <1>5, <1>7, <1>12, <1>13, HeapRelease
<1> QED
  BY <1>7, <1>9, <1>11, <1>14, <1>15 DEF PoolInv

LEMMA PoolStep ==
    ASSUME Pool!PoolAssumption, PoolInv, Pool!Next \/ UNCHANGED Pool!vars
    PROVE  PoolInv' /\ (Pool!H!Next \/ UNCHANGED Pool!H!vars)
<1>1. CASE Pool!Next
  BY <1>1, AllocateStep, FreeStep, StartStep, VisitElementStep, EndStep, FreePendingStep,
     VisitLargeStep DEF Pool!Next
<1>2. CASE UNCHANGED Pool!vars
  <2>1. UNCHANGED <<arenas, pooled, freeList, large, objectsToFree, objectCount, cursor, largeLeft, last>>
    BY <1>2 DEF Pool!vars
  <2>2. /\ Pool!AllElements' = Pool!AllElements /\ Memory' /\ Once' /\ Counted' /\ Pool!Objects' = Pool!Objects
    BY <2>1, MemoryStays
  <2>3. Pool!m_isEnumerating' = Pool!m_isEnumerating /\ Walk'
    BY <2>1, <2>2 DEF PoolInv, Walk, Pool!m_isEnumerating
  <2>4. ToFree' = ToFree /\ ToVisit' = ToVisit
    BY <2>1 DEF ToFree, Pool!ToSet, ToVisit, Pool!Ahead, Pool!GetObjectStart, Pool!m_isEnumerating
  <2>5. Pending'
    <3>1. (objectsToFree \in Seq(Pool!Pointers))' /\ Pool!IsInjective(objectsToFree)'
      BY <2>1 DEF PoolInv, Pending, Pool!IsInjective, Pool!Pointers
    <3> QED
      BY <2>2, <2>4, <3>1 DEF Pending, PoolInv
  <2> QED
    BY <2>1, <2>2, <2>3, <2>4, <2>5, HeapStutter DEF PoolInv
<1> QED
  BY <1>1, <1>2

LEMMA PoolHolds == MCSpec => []PoolInv
<1>1. MCInit => PoolInv
  BY PoolsAreSmall, PoolInit DEF MCInit
<1>2. PoolInv /\ [MCNext]_allVars => PoolInv'
  <2> SUFFICES ASSUME PoolInv, [MCNext]_allVars PROVE PoolInv'
    OBVIOUS
  <2>1. Pool!Next \/ UNCHANGED Pool!vars
    BY DEF MCNext, allVars, poolVars, Pool!vars
  <2> QED
    BY <2>1, PoolsAreSmall, PoolStep
<1> QED
  BY <1>1, <1>2, PTL DEF MCSpec

\* Whatever is allocated and freed, in an enumeration or outside of one: each element
\* is in use or once on the list of its size, and the objects are counted.
THEOREM ElementsAreKeptOnce == MCSpec => []EachElementOnce
<1>1. PoolInv => EachElementOnce
  <2> SUFFICES ASSUME PoolInv PROVE Pool!EachElementOnce /\ Pool!CountsObjects
    BY DEF EachElementOnce
  <2>1. Pool!EachElementOnce
    BY PoolsAreSmall, OnceIsOnce DEF PoolInv
  <2>2. Pool!Cardinality(Pool!Objects) = Cardinality(Pool!Objects)
    BY DEF Pool!Cardinality, Cardinality
  <2>3. Pool!CountsObjects
    BY <2>2 DEF PoolInv, Counted, Pool!CountsObjects
  <2> QED
    BY <2>1, <2>3
<1> QED
  BY <1>1, PoolHolds, PTL

\* Pools, free lists, arenas and the walk over them with its deferred frees are a
\* heap: every operation is one of Heap's, or nothing to whoever uses it.
THEOREM AllocatorIsHeap == MCSpec => IsHeap
<1>1. MCInit => Pool!H!Init
  BY PoolsAreSmall, PoolInit DEF MCInit
<1>2. PoolInv /\ [MCNext]_allVars => [which = "pool" => Pool!H!Next]_(Pool!H!vars)
  <2> SUFFICES ASSUME PoolInv, [MCNext]_allVars, which = "pool"
               PROVE  Pool!H!Next \/ UNCHANGED Pool!H!vars
    OBVIOUS
  <2>1. Pool!Next \/ UNCHANGED Pool!vars
    BY DEF MCNext, allVars, poolVars, Pool!vars
  <2> QED
    BY <2>1, PoolsAreSmall, PoolStep
<1> QED
  BY <1>1, <1>2, PoolHolds, PTL DEF MCSpec, IsHeap

-----------------------------------------------------------------------------
(***************************************************************************)
(* Packing: what is written into a message and what is read from it.       *)
(***************************************************************************)
Cells == {<<"int", 1>>} \cup ({"length"} \X Nat) \cup ({"part"} \X DOMAIN NameLength)
         \cup ({"clone"} \X Nat \X {"whole", "cut"})
\* The plain values, which are neither structs nor references of an interface's type.
IsPlain(type, v) ==
    \/ type \in {"int", "intptr"} /\ v = P!Int
    \/ type = "string" /\ v \in {P!Null, P!Text("whole"), P!Text("cut_short")}
    \/ type = "Foreign" /\ v \in {P!Null, P!Proxy("target", "door"), P!Proxy("elsewhere", "door")}
    \/ type = "Thing" /\ v \in {P!Null, P!Thing}
    \/ type = "array" /\ v = P!Array
MayGo(type, v, target) == /\ type # "intptr" /\ v.is \notin {"Thing", "array"}
                          /\ v.is = "Foreign" => v.home = target
Content(v, c) == IF v.is = "int" THEN <<<<"int", 1>>>>
                 ELSE IF v.is = "string" THEN <<<<"clone", c, P!Truncated(v.of)>>>>
                 ELSE IF v.is = "Foreign" THEN P!Header(v.name)
                 ELSE <<P!Zero>>
Size(v) == IF v.is = "Foreign" THEN 1 + NameLength[v.name] ELSE 1

\* A set of numbers has a least one.
LEMMA LeastNumber ==
  ASSUME NEW S, S \subseteq Nat, S # {}
  PROVE  \E k \in S : \A j \in S : k <= j
  <1> DEFINE less == {ss \in Nat \X Nat : ss[1] < ss[2]}
  <1>1. \A j, k \in S : j < k => <<j, k>> \in less
    OBVIOUS
  <1>2. IsWellFoundedOn(less, Nat)
    BY NatLessThanWellFounded DEF OpToRel
  <1> HIDE DEF less
  <1>3. PICK k \in S : \A j \in S : ~(<<j, k>> \in less)
    BY <1>2, WFMin
  <1>4. \A j \in S : ~(j < k)
    BY <1>1, <1>3
  <1> QED BY <1>4

LEMMA NamesAreSent ==
    /\ MessageSize \in Nat /\ NameSize \in Nat \ {0} /\ MaxParams \in Nat
    /\ \A n \in {"int", "string", "Point", "Pair", "Thing", "array", "Foreign", "door"} : n \in DOMAIN NameLength
    /\ \A n \in DOMAIN NameLength : NameLength[n] \in Nat \ {0}
BY NamesHaveLengths DEF P!PackingAssumption

LEMMA JoinedAre ==
    ASSUME NEW S, NEW s \in Seq(S), NEW t \in Seq(S), NEW m, NEW n, m = Len(s), n = Len(t)
    PROVE  /\ s \o t \in Seq(S) /\ Len(s \o t) = m + n /\ m \in Nat /\ n \in Nat
           /\ \A i \in 1..m : (s \o t)[i] = s[i]
           /\ \A i \in 1..n : (s \o t)[m + i] = t[i]
<1>1. /\ s \o t \in Seq(S) /\ Len(s \o t) = m + n /\ m \in Nat /\ n \in Nat
      /\ \A i \in 1..(m + n) : (s \o t)[i] = IF i <= m THEN s[i] ELSE t[i - m]
  BY ConcatProperties
<1>2. PICK u : u = s \o t
  OBVIOUS
<1>3. \A i \in 1..m : u[i] = s[i]
  BY <1>1, <1>2
<1>4. \A i \in 1..n : u[m + i] = t[i]
  BY <1>1, <1>2
<1> QED
  BY <1>1, <1>2, <1>3, <1>4

LEMMA HeaderIs ==
    ASSUME NEW n \in DOMAIN NameLength
    PROVE  /\ P!Header(n) \in Seq(Cells) /\ Len(P!Header(n)) = 1 + NameLength[n]
           /\ P!Header(n)[1] = <<"length", NameLength[n]>> /\ P!Header(n)[2] = <<"part", n>>
           /\ \A i \in 1..Len(P!Header(n)) : P!Header(n)[i][1] # "clone"
<1>1. PICK k \in Nat \ {0} : k = NameLength[n]
  BY NamesAreSent
<1> DEFINE h == <<<<"length", k>>>>
           t == [i \in 1..k |-> <<"part", n>>]
<1>2. h \in Seq(Cells) /\ Len(h) = 1 /\ h[1] = <<"length", k>>
  <2>1. <<"length", k>> \in Cells
    BY DEF Cells
  <2> QED
    BY <2>1
<1>3. t \in Seq(Cells) /\ Len(t) = k /\ \A i \in 1..k : t[i] = <<"part", n>>
  <2>1. <<"part", n>> \in Cells
    BY DEF Cells
  <2> QED
    BY <2>1
<1>4. P!Header(n) = h \o t
  BY <1>1 DEF P!Header
<1> HIDE DEF h, t
<1>5. PICK u : u = h \o t
  OBVIOUS
<1>6. /\ u \in Seq(Cells) /\ Len(u) = 1 + k
      /\ \A i \in 1..1 : u[i] = h[i]
      /\ \A i \in 1..k : u[1 + i] = t[i]
  <2>1. PICK m, j : m = Len(h) /\ j = Len(t) /\ m = 1 /\ j = k
    BY <1>2, <1>3
  <2>2. /\ u \in Seq(Cells) /\ Len(u) = m + j
        /\ \A i \in 1..m : u[i] = h[i]
        /\ \A i \in 1..j : u[m + i] = t[i]
    <3>1. /\ h \o t \in Seq(Cells) /\ Len(h \o t) = m + j
          /\ \A i \in 1..m : (h \o t)[i] = h[i]
          /\ \A i \in 1..j : (h \o t)[m + i] = t[i]
      <4>1. h \in Seq(Cells) /\ t \in Seq(Cells) /\ m = Len(h) /\ j = Len(t)
        BY <1>2, <1>3, <2>1
      <4> QED
        BY ONLY <4>1, JoinedAre
    <3> QED
      BY <1>5, <3>1
  <2> QED
    BY <2>1, <2>2
<1>7. u[1] = <<"length", k>> /\ u[2] = <<"part", n>>
  BY <1>2, <1>3, <1>6
<1>8. \A i \in 1..(1 + k) : u[i][1] # "clone"
  <2> TAKE i \in 1..(1 + k)
  <2>1. CASE i = 1
    BY <1>7, <2>1
  <2>2. CASE i # 1
    <3>1. i - 1 \in 1..k /\ i = 1 + (i - 1)
      BY <2>2
    <3>2. u[i] = <<"part", n>>
      BY <1>3, <1>6, <3>1
    <3> QED
      BY <3>2
  <2> QED
    BY <2>1, <2>2
<1> QED
  BY <1>1, <1>4, <1>5, <1>6, <1>7, <1>8

LEMMA PlainValues ==
    ASSUME NEW type, NEW v, IsPlain(type, v)
    PROVE  /\ type \in {"int", "intptr", "string", "Foreign", "Thing", "array"}
           /\ v.is \in {"null", "int", "string", "Foreign", "Thing", "array"}
           /\ v.is = "null" <=> v = P!Null
           /\ type = "int" => v = P!Int /\ v.is = "int"
           /\ type = "intptr" => v = P!Int
           /\ type = "string" => v.is \in {"null", "string"}
           /\ type = "Foreign" => v.is \in {"null", "Foreign"}
           /\ type = "Thing" => v.is \in {"null", "Thing"}
           /\ type = "array" => v.is = "array"
           /\ v.is = "string" => type = "string" /\ v.of \in {"whole", "cut_short"}
           /\ v.is = "Foreign" => type = "Foreign" /\ v.name = "door"
BY DEF IsPlain, P!Null, P!Int, P!Text, P!Proxy, P!Thing, P!Array

LEMMA ContentIs ==
    ASSUME NEW type, NEW v, IsPlain(type, v), NEW c \in Nat
    PROVE  /\ Content(v, c) \in Seq(Cells) /\ Len(Content(v, c)) = Size(v) /\ Size(v) \in Nat \ {0}
           /\ v.is # "string" => \A i \in 1..Len(Content(v, c)) : Content(v, c)[i][1] # "clone"
           /\ v.is = "string" => Content(v, c) = <<<<"clone", c, P!Truncated(v.of)>>>>
<1>1. CASE v.is = "Foreign"
  <2>1. v.name \in DOMAIN NameLength
    BY <1>1, PlainValues, NamesAreSent
  <2>2. PICK h : h = P!Header(v.name)
    OBVIOUS
  <2>3. Content(v, c) = h /\ Size(v) = 1 + NameLength[v.name]
    BY <1>1, <2>2 DEF Content, Size
  <2>4. h \in Seq(Cells) /\ Len(h) = 1 + NameLength[v.name] /\ \A i \in 1..Len(h) : h[i][1] # "clone"
    BY <2>1, <2>2, HeaderIs
  <2>5. NameLength[v.name] \in Nat \ {0}
    BY <2>1, NamesAreSent
  <2> QED
    BY <1>1, <2>3, <2>4, <2>5
<1>2. CASE v.is = "string"
  <2>1. <<"clone", c, P!Truncated(v.of)>> \in Cells
    BY <1>2, PlainValues DEF Cells, P!Truncated
  <2> QED
    BY <1>2, <2>1 DEF Content, Size
<1>3. CASE v.is \notin {"Foreign", "string"}
  <2>1. <<"int", 1>> \in Cells /\ P!Zero \in Cells
    BY DEF Cells, P!Zero
  <2> QED
    BY <1>3, <2>1 DEF Content, Size, P!Zero
<1> QED
  BY <1>1, <1>2, <1>3

LEMMA PutIs ==
    ASSUME NEW cells \in Seq(Cells), NEW room \in Nat
    PROVE  /\ Len(cells) <= room => P!Put(cells, room) = [cells |-> cells, error |-> "none"]
           /\ Len(cells) > room => P!Put(cells, room) = [cells |-> <<>>, error |-> "too_large"]
<1>1. PICK n \in Nat : n = Len(cells)
  OBVIOUS
<1> QED
  BY <1>1 DEF P!Put, P!Fails

\* What a plain value is packed to.
LEMMA PlainPacks ==
    ASSUME NEW type, NEW v, IsPlain(type, v), NEW room \in Nat, NEW target, NEW c \in Nat,
           NEW p, p = P!PackPlain(type, v, room, target, c)
    PROVE  IF MayGo(type, v, target) /\ Size(v) <= room
           THEN p = [cells |-> Content(v, c), error |-> "none"]
           ELSE p.cells = <<>> /\ p.error # "none"
<1>0. Content(v, c) \in Seq(Cells) /\ Len(Content(v, c)) = Size(v) /\ Size(v) \in Nat
  BY ContentIs
<1>1. CASE type = "int"
  <2>1. p = P!Put(Content(v, c), room) /\ MayGo(type, v, target)
    BY <1>1, PlainValues DEF P!PackPlain, Content, MayGo
  <2> QED
    BY <1>0, <2>1, PutIs
<1>2. CASE type = "intptr"
  BY <1>2 DEF P!PackPlain, P!Fails, MayGo
<1>3. CASE type = "string"
  <2>1. MayGo(type, v, target) /\ p = P!PackString(v, room, c)
    BY <1>3, PlainValues DEF P!PackPlain, MayGo
  <2>2. p = P!Put(Content(v, c), room)
    BY <1>3, <2>1, PlainValues DEF P!PackString, Content
  <2> QED
    BY <1>0, <2>1, <2>2, PutIs
<1>4. CASE type = "Foreign"
  <2>1. p = P!PackForeign(v, room, target)
    BY <1>4 DEF P!PackPlain
  <2>2. CASE MayGo(type, v, target)
    <3>1. p = P!Put(Content(v, c), room)
      BY <1>4, <2>1, <2>2, PlainValues DEF P!PackForeign, Content, MayGo
    <3> QED
      BY <1>0, <2>2, <3>1, PutIs
  <2>3. CASE ~MayGo(type, v, target)
    BY <1>4, <2>1, <2>3, PlainValues DEF P!PackForeign, P!Fails, MayGo
  <2> QED
    BY <2>2, <2>3
<1>5. CASE type = "Thing"
  <2>1. CASE v.is = "null"
    <3>1. p = P!Put(Content(v, c), room) /\ MayGo(type, v, target)
      BY <1>5, <2>1, PlainValues DEF P!PackPlain, Content, MayGo
    <3> QED
      BY <1>0, <3>1, PutIs
  <2>2. CASE v.is # "null"
    BY <1>5, <2>2, PlainValues DEF P!PackPlain, P!Fails, MayGo
  <2> QED
    BY <2>1, <2>2
<1>6. CASE type = "array"
  BY <1>6, PlainValues DEF P!PackPlain, P!Fails, MayGo
<1> QED
  BY <1>1, <1>2, <1>3, <1>4, <1>5, <1>6, PlainValues

-----------------------------------------------------------------------------
\* Structs have two fields, which are packed one after the other.
IsPackRun(R, v, room, target, c) ==
    R = [n \in 0..Len(v.fields) |->
           IF n = 0 THEN P!Put(<<>>, room)
           ELSE IF R[n - 1].error # "none" THEN R[n - 1]
           ELSE P!Follows(R[n - 1], P!PackPlain(P!FieldTypes[v.is][n], v.fields[n],
                                                room - Len(R[n - 1].cells), target, c))]

LEMMA PackRunIs ==
    ASSUME NEW v, Len(v.fields) = 2, NEW room, NEW target, NEW c
    PROVE  \E R : IsPackRun(R, v, room, target, c) /\ P!PackStruct(v, room, target, c) = R[2]
<1> DEFINE Next1(p, n) == IF p.error # "none" THEN p
                          ELSE P!Follows(p, P!PackPlain(P!FieldTypes[v.is][n], v.fields[n],
                                                        room - Len(p.cells), target, c))
           b == Next1(P!Put(<<>>, room), 1)
           d == Next1(b, 2)
           S == [n \in 0..Len(v.fields) |-> IF n = 0 THEN P!Put(<<>>, room) ELSE IF n = 1 THEN b ELSE d]
           B == CHOOSE R : IsPackRun(R, v, room, target, c)
<1>1. \E R : IsPackRun(R, v, room, target, c)
  <2>1. S[0] = P!Put(<<>>, room) /\ S[1] = b /\ S[2] = d
    OBVIOUS
  <2>2. \A n \in 0..Len(v.fields) : S[n] = IF n = 0 THEN P!Put(<<>>, room) ELSE Next1(S[n - 1], n)
    <3> HIDE DEF S, b, d
    <3>1. b = Next1(S[0], 1) /\ d = Next1(S[1], 2)
      BY <2>1 DEF b, d
    <3> HIDE DEF Next1
    <3> TAKE n \in 0..Len(v.fields)
    <3>2. n \in {0, 1, 2}
      OBVIOUS
    <3>3. n = 1 => S[n] = Next1(S[n - 1], n)
      BY <2>1, <3>1
    <3>4. n = 2 => S[n] = Next1(S[n - 1], n)
      BY <2>1, <3>1
    <3> QED
      BY <2>1, <3>2, <3>3, <3>4
  <2>3. S = [n \in 0..Len(v.fields) |-> S[n]]
    OBVIOUS
  <2> HIDE DEF S
  <2>4. IsPackRun(S, v, room, target, c)
    BY <2>2, <2>3 DEF IsPackRun
  <2> QED
    BY <2>4
<1>2. IsPackRun(B, v, room, target, c)
  BY <1>1, Zenon
<1>3. P!PackStruct(v, room, target, c) = B[Len(v.fields)]
  BY Zenon DEF P!PackStruct, IsPackRun
<1> QED
  BY <1>2, <1>3

\* What two fields are packed to.
Both(v, c) == Content(v.fields[1], c) \o Content(v.fields[2], c)
IsTwo(v) == /\ Len(v.fields) = 2 /\ v = [is |-> v.is, fields |-> <<v.fields[1], v.fields[2]>>]
            /\ IsPlain(P!FieldTypes[v.is][1], v.fields[1])
            /\ IsPlain(P!FieldTypes[v.is][2], v.fields[2])
BothMayGo(v, target) == /\ MayGo(P!FieldTypes[v.is][1], v.fields[1], target)
                        /\ MayGo(P!FieldTypes[v.is][2], v.fields[2], target)
LEMMA StructPacks ==
    ASSUME NEW v, IsTwo(v), NEW room \in Nat, NEW target, NEW c \in Nat,
           NEW p, p = P!PackStruct(v, room, target, c)
    PROVE  IF BothMayGo(v, target) /\ Size(v.fields[1]) + Size(v.fields[2]) <= room
           THEN p = [cells |-> Both(v, c), error |-> "none"]
           ELSE /\ p.cells \in {<<>>, Content(v.fields[1], c)} /\ p.error # "none"
                /\ Len(p.cells) <= room
<1>0. PICK R : IsPackRun(R, v, room, target, c) /\ p = R[2]
  BY PackRunIs DEF IsTwo
<1>1. PICK t1, t2, f1, f2 : /\ t1 = P!FieldTypes[v.is][1] /\ t2 = P!FieldTypes[v.is][2]
                            /\ f1 = v.fields[1] /\ f2 = v.fields[2]
  OBVIOUS
<1>2. PICK s1, s2 : s1 = Content(f1, c) /\ s2 = Content(f2, c)
  OBVIOUS
<1>3. PICK n1, n2 : n1 = Size(f1) /\ n2 = Size(f2)
  OBVIOUS
<1>4. IsPlain(t1, f1) /\ IsPlain(t2, f2)
  BY <1>1 DEF IsTwo
<1>5. s1 \in Seq(Cells) /\ Len(s1) = n1 /\ n1 \in Nat /\ s2 \in Seq(Cells) /\ Len(s2) = n2 /\ n2 \in Nat
  BY <1>2, <1>3, <1>4, ContentIs
<1>6. R[0] = [cells |-> <<>>, error |-> "none"]
  <2>1. R[0] = P!Put(<<>>, room)
    BY <1>0 DEF IsPackRun, IsTwo
  <2>2. PICK e : e = <<>> /\ e \in Seq(Cells) /\ Len(e) <= room
    <3>1. <<>> \in Seq(Cells) /\ Len(<<>>) = 0 /\ 0 <= room
      OBVIOUS
    <3> QED
      BY <3>1
  <2>3. P!Put(e, room) = [cells |-> e, error |-> "none"]
    BY <2>2, PutIs
  <2> QED
    BY <2>1, <2>2, <2>3
<1>7. PICK q1 : q1 = P!PackPlain(t1, f1, room, target, c)
  OBVIOUS
<1>8. R[1] = [cells |-> q1.cells, error |-> q1.error] /\ q1.cells \in Seq(Cells)
  <2>1. R[1] = P!Follows(R[0], P!PackPlain(t1, f1, room - 0, target, c))
    BY <1>0, <1>1, <1>6 DEF IsPackRun, IsTwo
  <2>2. room - 0 = room
    OBVIOUS
  <2>3. q1.cells \in Seq(Cells)
    <3>1. q1 = [cells |-> s1, error |-> "none"] \/ q1.cells = <<>>
      BY <1>2, <1>4, <1>7, PlainPacks
    <3>2. <<>> \in Seq(Cells)
      OBVIOUS
    <3>3. CASE q1 = [cells |-> s1, error |-> "none"]
      <4>1. q1.cells = s1
        BY <3>3
      <4> QED
        BY <1>5, <4>1
    <3> QED
      BY <3>1, <3>2, <3>3
  <2>4. <<>> \o q1.cells = q1.cells
    BY <2>3, ConcatEmptySeq
  <2> QED
    BY <1>6, <1>7, <2>1, <2>2, <2>3, <2>4 DEF P!Follows
<1>9. CASE ~(MayGo(t1, f1, target) /\ n1 <= room)
  <2>1. q1.cells = <<>> /\ q1.error # "none"
    BY <1>3, <1>4, <1>7, <1>9, PlainPacks
  <2>2. R[2] = R[1]
    BY <1>0, <1>8, <2>1 DEF IsPackRun, IsTwo
  <2>3. ~(BothMayGo(v, target) /\ Size(v.fields[1]) + Size(v.fields[2]) <= room)
    BY <1>1, <1>3, <1>5, <1>9 DEF BothMayGo
  <2> QED
    BY <1>0, <1>8, <2>1, <2>2, <2>3
<1>10. CASE MayGo(t1, f1, target) /\ n1 <= room
  <2>1. q1 = [cells |-> s1, error |-> "none"]
    BY <1>2, <1>3, <1>4, <1>7, <1>10, PlainPacks
  <2>2. PICK left \in Nat : left = room - n1
    BY <1>5, <1>10
  <2>3. PICK q2 : q2 = P!PackPlain(t2, f2, left, target, c)
    OBVIOUS
  <2>4. R[2] = [cells |-> s1 \o q2.cells, error |-> q2.error]
    <3>1. R[1].error = "none" /\ R[1].cells = s1
      BY <1>8, <2>1
    <3>2. R[2] = P!Follows(R[1], P!PackPlain(t2, f2, room - Len(R[1].cells), target, c))
      BY <1>0, <1>1, <3>1 DEF IsPackRun, IsTwo
    <3> QED
      BY <1>5, <2>2, <2>3, <3>1, <3>2 DEF P!Follows
  <2>5. CASE MayGo(t2, f2, target) /\ n2 <= left
    <3>1. q2 = [cells |-> s2, error |-> "none"]
      BY <1>2, <1>3, <1>4, <2>3, <2>5, PlainPacks
    <3>2. BothMayGo(v, target) /\ Size(v.fields[1]) + Size(v.fields[2]) <= room
      BY <1>1, <1>3, <1>5, <1>10, <2>2, <2>5 DEF BothMayGo
    <3>3. R[2] = [cells |-> Both(v, c), error |-> "none"]
      BY <1>1, <1>2, <2>4, <3>1 DEF Both
    <3> QED
      BY <1>0, <3>2, <3>3
  <2>6. CASE ~(MayGo(t2, f2, target) /\ n2 <= left)
    <3>1. q2.cells = <<>> /\ q2.error # "none"
      BY <1>3, <1>4, <2>3, <2>6, PlainPacks
    <3>2. s1 \o <<>> = s1
      BY <1>5, ConcatEmptySeq
    <3>3. R[2].cells = s1 /\ R[2].error # "none"
      BY <2>4, <3>1, <3>2
    <3>4. ~(BothMayGo(v, target) /\ Size(v.fields[1]) + Size(v.fields[2]) <= room)
      BY <1>1, <1>3, <1>5, <2>2, <2>6 DEF BothMayGo
    <3> QED
      BY <1>0, <1>1, <1>2, <1>5, <1>10, <3>3, <3>4
  <2> QED
    BY <2>5, <2>6
<1> QED
  BY <1>9, <1>10
-----------------------------------------------------------------------------
\* The values of the type of an interface.
IsBox(v) == v \in {P!Boxed(P!Point), P!Boxed(P!Pair(P!Null, P!Null))}
IsSome(v) == IsBox(v) \/ (v.is \in {"string", "Foreign", "Thing", "array"} /\ IsPlain(v.is, v))
Actual(v, c) == IF v.is = "boxed" THEN <<<<"int", 1>>, <<"int", 1>>>> ELSE Content(v, c)
ActualSize(v) == IF v.is = "boxed" THEN 2 ELSE Size(v)
ActualMayGo(v, target) == IF v.is = "boxed" THEN v.of.is = "Point" ELSE MayGo(v.is, v, target)

LEMMA BoxIs ==
    ASSUME NEW v, IsBox(v)
    PROVE  /\ v.is = "boxed" /\ v.of.is \in {"Point", "Pair"} /\ Len(v.of.fields) = 2
           /\ v.of.is = "Point" => v = P!Boxed(P!Point) /\ v.of.fields = <<P!Int, P!Int>>
BY DEF IsBox, P!Boxed, P!Point, P!Pair

LEMMA SomeIs ==
    ASSUME NEW v, IsSome(v)
    PROVE  /\ v # P!Null /\ v.is # "null" /\ (v.is = "boxed" <=> IsBox(v))
           /\ v.is # "boxed" => v.is \in {"string", "Foreign", "Thing", "array"} /\ IsPlain(v.is, v)
           /\ P!NiceName(v) \in {"string", "Foreign", "Thing", "array", "Point", "Pair"}
           /\ P!NiceName(v) \in DOMAIN NameLength
<1>1. CASE IsBox(v)
  BY <1>1, BoxIs, NamesAreSent DEF P!NiceName, P!Null
<1>2. CASE ~IsBox(v)
  <2>1. v.is \in {"string", "Foreign", "Thing", "array"} /\ IsPlain(v.is, v)
    BY <1>2 DEF IsSome
  <2>2. v # P!Null
    BY <2>1 DEF P!Null
  <2> QED
    BY <1>2, <2>1, <2>2, NamesAreSent DEF P!NiceName
<1> QED
  BY <1>1, <1>2

LEMMA References == /\ DOMAIN P!FieldTypes = {"Point", "Pair"} /\ P!Structs = {"Point", "Pair"}
                    /\ P!FieldTypes["Point"] = <<"int", "int">>
                    /\ P!FieldTypes["Pair"] = <<"string", "Foreign">>
                    /\ ~P!HasReferences("Point") /\ P!HasReferences("Pair")
<1>1. /\ DOMAIN P!FieldTypes = {"Point", "Pair"} /\ P!FieldTypes["Point"] = <<"int", "int">>
      /\ P!FieldTypes["Pair"] = <<"string", "Foreign">>
  BY DEF P!FieldTypes
<1>2. ~P!HasReferences("Point")
  BY <1>1 DEF P!HasReferences
<1>3. P!HasReferences("Pair")
  <2>1. 1 \in DOMAIN P!FieldTypes["Pair"] /\ P!FieldTypes["Pair"][1] # "int"
    BY <1>1
  <2> QED
    BY <2>1 DEF P!HasReferences
<1> QED
  BY <1>1, <1>2, <1>3 DEF P!Structs

LEMMA ActualIs ==
    ASSUME NEW v, IsSome(v), NEW c \in Nat
    PROVE  /\ Actual(v, c) \in Seq(Cells) /\ Len(Actual(v, c)) = ActualSize(v) /\ ActualSize(v) \in Nat \ {0}
           /\ v.is # "string" => \A i \in 1..Len(Actual(v, c)) : Actual(v, c)[i][1] # "clone"
           /\ v.is = "string" => Actual(v, c) = <<<<"clone", c, P!Truncated(v.of)>>>>
<1>1. CASE v.is = "boxed"
  <2>1. <<"int", 1>> \in Cells
    BY DEF Cells
  <2>2. PICK s : s = <<<<"int", 1>>, <<"int", 1>>>>
    OBVIOUS
  <2>3. s \in Seq(Cells) /\ Len(s) = 2 /\ \A i \in 1..2 : s[i] = <<"int", 1>>
    BY <2>1, <2>2
  <2>4. Actual(v, c) = s /\ ActualSize(v) = 2
    BY <1>1, <2>2 DEF Actual, ActualSize
  <2>5. \A i \in 1..Len(s) : s[i][1] # "clone"
    BY <2>3
  <2>6. Actual(v, c) \in Seq(Cells) /\ Len(Actual(v, c)) = ActualSize(v) /\ ActualSize(v) \in Nat \ {0}
    BY <2>3, <2>4
  <2>7. \A i \in 1..Len(Actual(v, c)) : Actual(v, c)[i][1] # "clone"
    BY <2>4, <2>5
  <2> QED
    BY <1>1, <2>6, <2>7
<1>2. CASE v.is # "boxed"
  <2>1. Actual(v, c) = Content(v, c) /\ ActualSize(v) = Size(v) /\ IsPlain(v.is, v)
    BY <1>2, SomeIs DEF Actual, ActualSize
  <2> QED
    BY <2>1, ContentIs
<1> QED
  BY <1>1, <1>2

LEMMA ActualPacks ==
    ASSUME NEW v, IsSome(v), NEW room \in Nat, NEW target, NEW c \in Nat,
           NEW p, p = P!PackActual(v, room, target, c)
    PROVE  IF ActualMayGo(v, target) /\ ActualSize(v) <= room
           THEN p = [cells |-> Actual(v, c), error |-> "none"]
           ELSE p.cells = <<>> /\ p.error # "none"
<1>0. Actual(v, c) \in Seq(Cells) /\ Len(Actual(v, c)) = ActualSize(v)
  BY ActualIs
<1>1. CASE v.is # "boxed"
  <2>1. /\ p = P!PackPlain(v.is, v, room, target, c) /\ IsPlain(v.is, v) /\ Actual(v, c) = Content(v, c)
        /\ ActualSize(v) = Size(v) /\ (ActualMayGo(v, target) <=> MayGo(v.is, v, target))
    BY <1>1, SomeIs DEF P!PackActual, Actual, ActualSize, ActualMayGo
  <2> QED
    BY <2>1, PlainPacks
<1>2. CASE v.is = "boxed"
  <2>1. p = P!PackBoxed(v.of, room) /\ IsBox(v) /\ ActualSize(v) = 2 /\ (ActualMayGo(v, target) <=> v.of.is = "Point")
    BY <1>2, SomeIs DEF P!PackActual, ActualSize, ActualMayGo
  <2>2. CASE v.of.is = "Point"
    <3>1. Len(v.of.fields) = 2 /\ ~P!HasReferences(v.of.is)
      BY <2>1, <2>2, BoxIs, References
    <3>2. p = P!Put([i \in 1..2 |-> <<"int", 1>>], room)
      BY <2>1, <3>1 DEF P!PackBoxed
    <3>3. [i \in 1..2 |-> <<"int", 1>>] = <<<<"int", 1>>, <<"int", 1>>>>
      OBVIOUS
    <3>4. p = P!Put(Actual(v, c), room)
      BY <1>2, <3>2, <3>3 DEF Actual
    <3>5. ActualMayGo(v, target) /\ ActualSize(v) \in Nat
      BY <2>1, <2>2
    <3> QED
      BY <1>0, <3>4, <3>5, PutIs
  <2>3. CASE v.of.is # "Point"
    <3>1. P!HasReferences(v.of.is)
      BY <2>1, <2>3, BoxIs, References
    <3> QED
      BY <2>1, <2>3, <3>1 DEF P!PackBoxed, P!Fails
  <2> QED
    BY <2>2, <2>3
<1> QED
  BY <1>1, <1>2

\* What an interface's value is packed to: its class and what it has.
Named(v, c) == P!Header(P!NiceName(v)) \o Actual(v, c)
LEMMA SomePacks ==
    ASSUME NEW v, IsSome(v), NEW room \in Nat, NEW target, NEW c \in Nat,
           NEW p, p = P!PackAny(v, room, target, c)
    PROVE  IF ActualMayGo(v, target) /\ 1 + NameLength[P!NiceName(v)] + ActualSize(v) <= room
           THEN p = [cells |-> Named(v, c), error |-> "none"]
           ELSE /\ p.cells \in {<<>>, P!Header(P!NiceName(v))} /\ p.error # "none"
                /\ Len(p.cells) <= room
<1>1. PICK h, n : h = P!Header(P!NiceName(v)) /\ n = 1 + NameLength[P!NiceName(v)]
  OBVIOUS
<1>2. h \in Seq(Cells) /\ Len(h) = n /\ n \in Nat
  BY <1>1, SomeIs, HeaderIs, NamesAreSent
<1>3. ActualSize(v) \in Nat
  BY ActualIs
<1>4. PICK name : name = P!Put(h, room)
  OBVIOUS
<1>5. CASE n > room
  <2>1. name = [cells |-> <<>>, error |-> "too_large"]
    BY <1>2, <1>4, <1>5, PutIs
  <2>2. p = name
    BY <1>1, <1>4, <2>1, SomeIs DEF P!PackAny
  <2>3. p.cells = <<>> /\ p.error # "none" /\ Len(<<>>) = 0 /\ 0 <= room
    BY <2>1, <2>2
  <2> QED
    BY <1>1, <1>2, <1>3, <1>5, <2>3
<1>6. CASE n <= room
  <2>1. name = [cells |-> h, error |-> "none"]
    BY <1>2, <1>4, <1>6, PutIs
  <2>2. PICK left \in Nat : left = room - n
    BY <1>2, <1>6
  <2>3. PICK q : q = P!PackActual(v, left, target, c)
    OBVIOUS
  <2>4. p = [cells |-> h \o q.cells, error |-> q.error]
    <3>1. p = P!Follows(name, P!PackActual(v, room - Len(name.cells), target, c))
      BY <1>1, <1>4, <2>1, SomeIs DEF P!PackAny
    <3> QED
      BY <1>2, <2>1, <2>2, <2>3, <3>1 DEF P!Follows
  <2>5. CASE ActualMayGo(v, target) /\ ActualSize(v) <= left
    <3>1. q = [cells |-> Actual(v, c), error |-> "none"]
      BY <2>3, <2>5, ActualPacks
    <3>2. n + ActualSize(v) <= room
      BY <1>2, <1>3, <2>2, <2>5
    <3> QED
      BY <1>1, <2>4, <2>5, <3>1, <3>2 DEF Named
  <2>6. CASE ~(ActualMayGo(v, target) /\ ActualSize(v) <= left)
    <3>1. q.cells = <<>> /\ q.error # "none"
      BY <2>3, <2>6, ActualPacks
    <3>2. h \o <<>> = h
      BY <1>2, ConcatEmptySeq
    <3>3. p.cells = h /\ p.error # "none"
      BY <2>4, <3>1, <3>2
    <3>4. ~(ActualMayGo(v, target) /\ n + ActualSize(v) <= room)
      BY <1>2, <1>3, <2>2, <2>6
    <3> QED
      BY <1>1, <1>2, <1>6, <3>3, <3>4
  <2> QED
    BY <2>5, <2>6
<1> QED
  BY <1>2, <1>5, <1>6
-----------------------------------------------------------------------------
\* What a whole argument or result has in the buffer, and which of them may travel.
InBuffer(a, c) == IF a.type = "any" THEN (IF a.value = P!Null THEN <<P!Zero>> ELSE Named(a.value, c))
                  ELSE IF a.type \in {"Point", "Pair"} THEN Both(a.value, c)
                  ELSE Content(a.value, c)
Room(a) == IF a.type = "any"
           THEN IF a.value = P!Null THEN 1 ELSE 1 + NameLength[P!NiceName(a.value)] + ActualSize(a.value)
           ELSE IF a.type \in {"Point", "Pair"} THEN Size(a.value.fields[1]) + Size(a.value.fields[2])
           ELSE Size(a.value)
MayArrive(a, target) == IF a.type = "any" THEN a.value # P!Null => ActualMayGo(a.value, target)
                        ELSE IF a.type \in {"Point", "Pair"} THEN BothMayGo(a.value, target)
                        ELSE MayGo(a.type, a.value, target)
HasText(a) == a.value.is = "string" \/ a.type = "Pair"

IsWhole(a) == \/ a.type \notin {"any", "Point", "Pair"} /\ IsPlain(a.type, a.value)
              \/ /\ a.type \in {"Point", "Pair"} /\ a.value.is = a.type /\ IsTwo(a.value)
                 /\ a.type = "Pair" => a.value.fields[1].is = "string"
              \/ a.type = "any" /\ (a.value = P!Null \/ IsSome(a.value))

LEMMA PairsAre ==
    ASSUME NEW v \in P!Pairs
    PROVE  v.is = "Pair" /\ IsTwo(v) /\ v.fields[1].is = "string"
<1>1. PICK f \in P!Proxies : v = P!Pair(P!Text("whole"), f)
  BY DEF P!Pairs
<1>2. v.is = "Pair" /\ v.fields = <<P!Text("whole"), f>>
  BY <1>1 DEF P!Pair
<1>3. IsPlain("string", P!Text("whole")) /\ IsPlain("Foreign", f)
  BY <1>1 DEF IsPlain, P!Proxies
<1>4. P!FieldTypes[v.is][1] = "string" /\ P!FieldTypes[v.is][2] = "Foreign"
  BY <1>2, References
<1>5. Len(v.fields) = 2 /\ v.fields[1] = P!Text("whole") /\ v.fields[2] = f
  BY <1>2
<1>6. P!Text("whole").is = "string"
  BY DEF P!Text
<1> QED
  BY <1>1, <1>2, <1>3, <1>4, <1>5, <1>6 DEF IsTwo, P!Pair

LEMMA PointIs == P!Point.is = "Point" /\ IsTwo(P!Point)
<1>1. P!Point.is = "Point" /\ P!Point.fields = <<P!Int, P!Int>>
  BY DEF P!Point
<1>2. IsPlain("int", P!Int)
  BY DEF IsPlain
<1>3. P!FieldTypes[P!Point.is][1] = "int" /\ P!FieldTypes[P!Point.is][2] = "int"
  BY <1>1, References
<1>4. Len(P!Point.fields) = 2 /\ P!Point.fields[1] = P!Int /\ P!Point.fields[2] = P!Int
  BY <1>1
<1>5. P!Point = [is |-> "Point", fields |-> <<P!Int, P!Int>>]
  BY DEF P!Point
<1> QED
  BY <1>1, <1>2, <1>3, <1>4, <1>5 DEF IsTwo

LEMMA AnyIsSome ==
    ASSUME NEW v \in {P!Null, P!Text("whole"), P!Proxy("target", "door"), P!Thing, P!Array,
                      P!Boxed(P!Point), P!Boxed(P!Pair(P!Null, P!Null))}
    PROVE  v = P!Null \/ IsSome(v)
<1>1. CASE v = P!Text("whole")
  BY <1>1 DEF P!Text, IsSome, IsPlain
<1>2. CASE v = P!Proxy("target", "door")
  BY <1>2 DEF P!Proxy, IsSome, IsPlain
<1>3. CASE v \in {P!Thing, P!Array}
  BY <1>3 DEF P!Thing, P!Array, IsSome, IsPlain
<1>4. CASE IsBox(v)
  BY <1>4 DEF IsSome
<1> QED
  BY <1>1, <1>2, <1>3, <1>4 DEF IsBox

LEMMA TypedAre == ASSUME NEW a \in P!Typed PROVE IsWhole(a)
<1>1. PICK t \in DOMAIN P!OfType : \E v \in P!OfType[t] : a = [type |-> t, value |-> v]
  BY DEF P!Typed
<1>2. PICK v \in P!OfType[t] : a = [type |-> t, value |-> v]
  BY <1>1
<1>3. a.type = t /\ a.value = v
  BY <1>2
<1>4. t \in {"int", "intptr", "string", "Point", "Thing", "array", "Pair", "any", "Foreign"}
  BY <1>1 DEF P!OfType
<1>5. CASE t \in {"int", "intptr", "string", "Thing", "array", "Foreign"}
  <2>1. IsPlain(t, v)
    BY <1>2, <1>5 DEF P!OfType, P!Strings, P!Proxies, IsPlain
  <2> QED
    BY <1>3, <1>5, <2>1 DEF IsWhole
<1>6. CASE t = "Point"
  <2>1. v = P!Point
    BY <1>2, <1>6 DEF P!OfType
  <2> QED
    BY <1>3, <1>6, <2>1, PointIs DEF IsWhole
<1>7. CASE t = "Pair"
  <2>1. v \in P!Pairs
    BY <1>2, <1>7 DEF P!OfType
  <2> QED
    BY <1>3, <1>7, <2>1, PairsAre DEF IsWhole
<1>8. CASE t = "any"
  <2>1. v \in {P!Null, P!Text("whole"), P!Proxy("target", "door"), P!Thing, P!Array,
               P!Boxed(P!Point), P!Boxed(P!Pair(P!Null, P!Null))}
    BY <1>2, <1>8 DEF P!OfType
  <2> QED
    BY <1>3, <1>8, <2>1, AnyIsSome DEF IsWhole
<1> QED
  BY <1>4, <1>5, <1>6, <1>7, <1>8

LEMMA FieldsAre ==
    ASSUME NEW v, IsTwo(v), v.is \in {"Point", "Pair"}
    PROVE  /\ v.is = "Point" => v.fields[1].is = "int" /\ v.fields[2].is = "int"
           /\ v.is = "Pair" => v.fields[1].is \in {"null", "string"} /\ v.fields[2].is \in {"null", "Foreign"}
           /\ v.fields[2].is = "Foreign" => v.fields[2].name = "door"
           /\ P!FieldTypes[v.is][1] \in {"int", "string"} /\ P!FieldTypes[v.is][2] \in {"int", "Foreign"}
           /\ v.is = "Pair" => P!FieldTypes[v.is][1] = "string" /\ P!FieldTypes[v.is][2] = "Foreign"
           /\ v.is = "Point" => P!FieldTypes[v.is][1] = "int" /\ P!FieldTypes[v.is][2] = "int"
<1>1. CASE v.is = "Point"
  <2>1. P!FieldTypes[v.is][1] = "int" /\ P!FieldTypes[v.is][2] = "int"
    BY <1>1, References
  <2> QED
    BY <1>1, <2>1, PlainValues DEF IsTwo
<1>2. CASE v.is = "Pair"
  <2>1. P!FieldTypes[v.is][1] = "string" /\ P!FieldTypes[v.is][2] = "Foreign"
    BY <1>2, References
  <2> QED
    BY <1>2, <2>1, PlainValues DEF IsTwo
<1> QED
  BY <1>1, <1>2

LEMMA PartsAre ==
    ASSUME NEW v
    PROVE  /\ v.is \notin {"Point", "Pair"} => P!Parts(v) = {v}
           /\ v.is \in {"Point", "Pair"} /\ IsTwo(v) => P!Parts(v) = {v, v.fields[1], v.fields[2]}
<1>1. CASE v.is \notin {"Point", "Pair"}
  BY <1>1, References DEF P!Parts
<1>2. CASE v.is \in {"Point", "Pair"} /\ IsTwo(v)
  <2>1. PICK s : s = v.fields
    OBVIOUS
  <2>2. v.is = "Point" \/ v.is = "Pair"
    BY <1>2
  <2>3. P!Seqs!ToSet(s) = {s[i] : i \in DOMAIN s}
    BY DEF P!Seqs!ToSet
  <2>4. P!Parts(v) = {v} \cup {s[i] : i \in DOMAIN s}
    BY <2>1, <2>2, <2>3, References DEF P!Parts
  <2> QED
    BY <1>2, <2>1, <2>4 DEF IsTwo
<1> QED
  BY <1>1, <1>2
LEMMA WordsAre ==
    ASSUME NEW type, NEW v, IsPlain(type, v)
    PROVE  P!Words(v) = Size(v)
BY PlainValues, References DEF P!Words, Size

LEMMA TakesIs ==
    ASSUME NEW a, IsWhole(a)
    PROVE  P!Takes(a) = Room(a) /\ Room(a) \in Nat \ {0}
<1>1. CASE a.type \notin {"any", "Point", "Pair"}
  <2>1. IsPlain(a.type, a.value)
    BY <1>1 DEF IsWhole
  <2>2. P!Words(a.value) = Size(a.value) /\ Size(a.value) \in Nat \ {0}
    BY <2>1, WordsAre, ContentIs
  <2> QED
    BY <1>1, <2>2 DEF P!Takes, Room
<1>2. CASE a.type \in {"Point", "Pair"}
  <2>1. PICK v : v = a.value
    OBVIOUS
  <2>2. v.is = a.type /\ IsTwo(v) /\ v.is \in {"Point", "Pair"}
    BY <1>2, <2>1 DEF IsWhole
  <2>3. Size(v.fields[1]) = 1
    BY <2>2, FieldsAre DEF Size
  <2>4. Size(v.fields[2]) = IF v.fields[2].is = "Foreign" THEN 1 + NameLength["door"] ELSE 1
    BY <2>2, FieldsAre DEF Size
  <2>5. P!Words(v) = 1 + Size(v.fields[2])
    BY <2>2, <2>4, References DEF P!Words
  <2>6. Size(v.fields[2]) \in Nat \ {0}
    BY <2>4, NamesAreSent
  <2>7. P!Takes(a) = P!Words(v)
    <3>1. P!Words(v) \in Nat
      BY <2>5, <2>6
    <3> QED
      BY <1>2, <2>1, <3>1 DEF P!Takes
  <2>8. Room(a) = Size(v.fields[1]) + Size(v.fields[2])
    BY <1>2, <2>1 DEF Room
  <2> QED
    BY <2>3, <2>5, <2>6, <2>7, <2>8
<1>3. CASE a.type = "any" /\ a.value = P!Null
  <2>1. P!Words(P!Null) = 1
    BY References DEF P!Words, P!Null
  <2> QED
    BY <1>3, <2>1 DEF P!Takes, Room
<1>4. CASE a.type = "any" /\ IsSome(a.value)
  <2>1. PICK v : v = a.value
    OBVIOUS
  <2>2. PICK n \in Nat \ {0} : n = NameLength[P!NiceName(v)]
    BY <1>4, <2>1, SomeIs, NamesAreSent
  <2>3. P!Words(v) = ActualSize(v)
    <3>1. CASE v.is = "boxed"
      <4>1. Len(v.of.fields) = 2
        BY <1>4, <2>1, <3>1, SomeIs, BoxIs
      <4> QED
        BY <3>1, <4>1 DEF P!Words, ActualSize
    <3>2. CASE v.is # "boxed"
      <4>1. IsPlain(v.is, v)
        BY <1>4, <2>1, <3>2, SomeIs
      <4> QED
        BY <3>2, <4>1, WordsAre DEF ActualSize
    <3> QED
      BY <3>1, <3>2
  <2>4. ActualSize(v) \in Nat \ {0}
    BY <1>4, <2>1, ActualIs
  <2>5. v # P!Null
    BY <1>4, <2>1, SomeIs
  <2>6. P!Takes(a) = P!Words(v) + (1 + n)
    BY <1>4, <2>1, <2>2, <2>5 DEF P!Takes
  <2>7. Room(a) = 1 + n + ActualSize(v)
    BY <1>4, <2>1, <2>2, <2>5 DEF Room
  <2> QED
    BY <2>2, <2>3, <2>4, <2>6, <2>7
<1> QED
  BY <1>1, <1>2, <1>3, <1>4 DEF IsWhole

LEMMA MayTravelIs ==
    ASSUME NEW a, IsWhole(a), NEW target
    PROVE  P!MayTravel(a, target) <=> MayArrive(a, target)
<1>1. CASE a.type \notin {"any", "Point", "Pair"}
  <2>1. IsPlain(a.type, a.value)
    BY <1>1 DEF IsWhole
  <2>2. P!Parts(a.value) = {a.value} /\ a.value.is # "boxed"
    BY <2>1, PlainValues, PartsAre
  <2>3. a.type = "array" => a.value.is = "array"
    BY <2>1, PlainValues
  <2> QED
    BY <1>1, <2>2, <2>3 DEF P!MayTravel, MayArrive, MayGo
<1>2. CASE a.type \in {"Point", "Pair"}
  <2>1. PICK v, f, g : v = a.value /\ f = v.fields[1] /\ g = v.fields[2]
    OBVIOUS
  <2>2. v.is = a.type /\ IsTwo(v) /\ v.is \in {"Point", "Pair"}
    BY <1>2, <2>1 DEF IsWhole
  <2>3. P!Parts(v) = {v, f, g}
    BY <2>1, <2>2, PartsAre
  <2>4. f.is \in {"int", "null", "string"} /\ g.is \in {"int", "null", "Foreign"}
    BY <2>1, <2>2, FieldsAre
  <2>5. P!MayTravel(a, target) <=> (g.is = "Foreign" => g.home = target)
    BY <1>2, <2>1, <2>2, <2>3, <2>4 DEF P!MayTravel
  <2>6. BothMayGo(v, target) <=> (g.is = "Foreign" => g.home = target)
    BY <2>1, <2>2, <2>4, FieldsAre DEF BothMayGo, MayGo
  <2> QED
    BY <1>2, <2>1, <2>5, <2>6 DEF MayArrive
<1>3. CASE a.type = "any" /\ a.value = P!Null
  <2>1. P!Null.is = "null"
    BY DEF P!Null
  <2>2. P!Parts(P!Null) = {P!Null}
    BY <2>1, PartsAre
  <2> QED
    BY <1>3, <2>1, <2>2 DEF P!MayTravel, MayArrive
<1>4. CASE a.type = "any" /\ IsSome(a.value)
  <2>1. PICK v : v = a.value
    OBVIOUS
  <2>2. v # P!Null /\ v.is \notin {"Point", "Pair"}
    BY <1>4, <2>1, SomeIs
  <2>3. P!Parts(v) = {v}
    BY <2>2, PartsAre
  <2>4. P!MayTravel(a, target) <=> /\ v.is \notin {"Thing", "array"}
                                   /\ v.is = "Foreign" => v.home = target
                                   /\ v.is = "boxed" => ~P!HasReferences(v.of.is)
    BY <1>4, <2>1, <2>3 DEF P!MayTravel
  <2>5. MayArrive(a, target) <=> ActualMayGo(v, target)
    BY <1>4, <2>1, <2>2 DEF MayArrive
  <2>6. CASE v.is = "boxed"
    <3>1. v.of.is = "Point" <=> ~P!HasReferences(v.of.is)
      BY <1>4, <2>1, <2>6, SomeIs, BoxIs, References
    <3> QED
      BY <2>4, <2>5, <2>6, <3>1 DEF ActualMayGo
  <2>7. CASE v.is # "boxed"
    <3>1. v.is \in {"string", "Foreign", "Thing", "array"}
      BY <1>4, <2>1, <2>7, SomeIs
    <3> QED
      BY <2>4, <2>5, <2>7, <3>1 DEF ActualMayGo, MayGo
  <2> QED
    BY <2>6, <2>7
<1> QED
  BY <1>1, <1>2, <1>3, <1>4 DEF IsWhole

\* The clones in some cells.
LEMMA ClonesJoined ==
    ASSUME NEW s \in Seq(Cells), NEW t \in Seq(Cells), NEW d
    PROVE  P!Clones(s \o t, d) <=> P!Clones(s, d) \/ P!Clones(t, d)
<1>1. PICK m \in Nat, n \in Nat : m = Len(s) /\ n = Len(t)
  OBVIOUS
<1>2. PICK u : u = s \o t
  OBVIOUS
<1>3. /\ u \in Seq(Cells) /\ Len(u) = m + n
      /\ \A i \in 1..m : u[i] = s[i]
      /\ \A i \in 1..n : u[m + i] = t[i]
  BY <1>1, <1>2, JoinedAre
<1>4. DOMAIN s = 1..m /\ DOMAIN t = 1..n /\ DOMAIN u = 1..(m + n)
  BY <1>1, <1>3
<1>5. ASSUME P!Clones(u, d) PROVE P!Clones(s, d) \/ P!Clones(t, d)
  <2>1. PICK i \in 1..(m + n) : u[i][1] = "clone" /\ u[i][2] = d
    BY <1>4, <1>5 DEF P!Clones
  <2>2. CASE i <= m
    <3>1. i \in DOMAIN s /\ s[i] = u[i]
      BY <1>1, <1>3, <1>4, <2>2
    <3> QED
      BY <2>1, <3>1 DEF P!Clones
  <2>3. CASE i > m
    <3>1. i - m \in 1..n /\ m + (i - m) = i
      BY <1>1, <2>3
    <3>2. i - m \in DOMAIN t /\ t[i - m] = u[i]
      BY <1>3, <1>4, <3>1
    <3> QED
      BY <2>1, <3>2 DEF P!Clones
  <2> QED
    BY <1>1, <2>2, <2>3
<1>6. ASSUME P!Clones(s, d) PROVE P!Clones(u, d)
  <2>1. PICK i \in 1..m : s[i][1] = "clone" /\ s[i][2] = d
    BY <1>4, <1>6 DEF P!Clones
  <2>2. i \in DOMAIN u /\ u[i] = s[i]
    BY <1>1, <1>3, <1>4
  <2> QED
    BY <2>1, <2>2 DEF P!Clones
<1>7. ASSUME P!Clones(t, d) PROVE P!Clones(u, d)
  <2>1. PICK i \in 1..n : t[i][1] = "clone" /\ t[i][2] = d
    BY <1>4, <1>7 DEF P!Clones
  <2>2. m + i \in DOMAIN u /\ u[m + i] = t[i]
    BY <1>1, <1>3, <1>4
  <2> QED
    BY <2>1, <2>2 DEF P!Clones
<1> QED
  BY <1>2, <1>5, <1>6, <1>7

LEMMA NoClones ==
    ASSUME NEW s \in Seq(Cells), \A i \in 1..Len(s) : s[i][1] # "clone", NEW d
    PROVE  ~P!Clones(s, d)
BY DEF P!Clones

LEMMA OneClone ==
    ASSUME NEW c \in Nat, NEW t, NEW d
    PROVE  P!Clones(<<<<"clone", c, t>>>>, d) <=> d = c
<1>1. PICK s : s = <<<<"clone", c, t>>>>
  OBVIOUS
<1>2. DOMAIN s = {1} /\ s[1][1] = "clone" /\ s[1][2] = c
  BY <1>1
<1> QED
  BY <1>1, <1>2 DEF P!Clones

LEMMA ContentClones ==
    ASSUME NEW v, NEW c \in Nat, NEW d
    PROVE  /\ \A type : IsPlain(type, v) => (P!Clones(Content(v, c), d) <=> v.is = "string" /\ d = c)
           /\ IsSome(v) => (P!Clones(Actual(v, c), d) <=> v.is = "string" /\ d = c)
<1>1. ASSUME NEW type, IsPlain(type, v) PROVE P!Clones(Content(v, c), d) <=> v.is = "string" /\ d = c
  <2>1. CASE v.is = "string"
    BY <1>1, <2>1, ContentIs, OneClone
  <2>2. CASE v.is # "string"
    BY <1>1, <2>2, ContentIs, NoClones
  <2> QED
    BY <2>1, <2>2
<1>2. ASSUME IsSome(v) PROVE P!Clones(Actual(v, c), d) <=> v.is = "string" /\ d = c
  <2>1. CASE v.is = "string"
    BY <1>2, <2>1, ActualIs, OneClone
  <2>2. CASE v.is # "string"
    BY <1>2, <2>2, ActualIs, NoClones
  <2> QED
    BY <2>1, <2>2
<1> QED
  BY <1>1, <1>2
LEMMA InBufferIs ==
    ASSUME NEW a, IsWhole(a), NEW c \in Nat
    PROVE  /\ InBuffer(a, c) \in Seq(Cells) /\ Len(InBuffer(a, c)) = Room(a)
           /\ \A d : MayArrive(a, "target") \/ MayArrive(a, "nobody") =>
                        (P!Clones(InBuffer(a, c), d) <=> HasText(a) /\ d = c)
           /\ \A d : P!Clones(InBuffer(a, c), d) => d = c
<1>1. CASE a.type \notin {"any", "Point", "Pair"}
  <2>1. IsPlain(a.type, a.value)
    BY <1>1 DEF IsWhole
  <2>2. InBuffer(a, c) = Content(a.value, c) /\ Room(a) = Size(a.value)
    BY <1>1 DEF InBuffer, Room
  <2>3. HasText(a) <=> a.value.is = "string"
    BY <1>1 DEF HasText
  <2> QED
    BY <2>1, <2>2, <2>3, ContentIs, ContentClones
<1>2. CASE a.type \in {"Point", "Pair"}
  <2>1. PICK v, f, g : v = a.value /\ f = v.fields[1] /\ g = v.fields[2]
    OBVIOUS
  <2>2. v.is = a.type /\ IsTwo(v) /\ v.is \in {"Point", "Pair"}
    BY <1>2, <2>1 DEF IsWhole
  <2>3. PICK type, typf : IsPlain(type, f) /\ IsPlain(typf, g) /\ type = P!FieldTypes[v.is][1] /\ typf = P!FieldTypes[v.is][2]
    BY <2>1, <2>2 DEF IsTwo
  <2>4. PICK s, t : s = Content(f, c) /\ t = Content(g, c)
    OBVIOUS
  <2>5. s \in Seq(Cells) /\ t \in Seq(Cells) /\ Len(s) = Size(f) /\ Len(t) = Size(g)
    BY <2>3, <2>4, ContentIs
  <2>6. InBuffer(a, c) = s \o t /\ Room(a) = Size(f) + Size(g)
    BY <1>2, <2>1, <2>4 DEF InBuffer, Room, Both
  <2>7. s \o t \in Seq(Cells) /\ Len(s \o t) = Size(f) + Size(g)
    BY <2>5, JoinedAre
  <2>8. \A d : P!Clones(s \o t, d) <=> P!Clones(s, d) \/ P!Clones(t, d)
    BY <2>5, ClonesJoined
  <2>9. g.is # "string"
    BY <2>1, <2>2, FieldsAre
  <2>10. \A d : P!Clones(s \o t, d) <=> f.is = "string" /\ d = c
    BY <2>3, <2>4, <2>8, <2>9, ContentClones
  <2>11. HasText(a) <=> v.is = "Pair"
    BY <1>2, <2>1, <2>2 DEF HasText
  <2>12. f.is = "string" => v.is = "Pair"
    BY <2>1, <2>2, FieldsAre
  <2>13. v.is = "Pair" => f.is = "string"
    BY <1>2, <2>1, <2>2 DEF IsWhole
  <2> QED
    BY <2>6, <2>7, <2>10, <2>11, <2>12, <2>13
<1>3. CASE a.type = "any" /\ a.value = P!Null
  <2>1. PICK s : s = <<P!Zero>>
    OBVIOUS
  <2>2. P!Zero \in Cells /\ P!Zero[1] # "clone"
    BY DEF P!Zero, Cells
  <2>3. s \in Seq(Cells) /\ Len(s) = 1 /\ \A i \in 1..Len(s) : s[i][1] # "clone"
    BY <2>1, <2>2
  <2>4. InBuffer(a, c) = s /\ Room(a) = 1
    BY <1>3, <2>1 DEF InBuffer, Room
  <2>5. ~HasText(a)
    BY <1>3 DEF HasText, P!Null
  <2>6. \A d : ~P!Clones(s, d)
    BY <2>3, NoClones
  <2> QED
    BY <2>3, <2>4, <2>5, <2>6
<1>4. CASE a.type = "any" /\ IsSome(a.value)
  <2>1. PICK v : v = a.value
    OBVIOUS
  <2>2. PICK s, t : s = P!Header(P!NiceName(v)) /\ t = Actual(v, c)
    OBVIOUS
  <2>3. /\ s \in Seq(Cells) /\ Len(s) = 1 + NameLength[P!NiceName(v)]
        /\ \A i \in 1..Len(s) : s[i][1] # "clone"
    BY <1>4, <2>1, <2>2, SomeIs, HeaderIs
  <2>4. t \in Seq(Cells) /\ Len(t) = ActualSize(v)
    BY <1>4, <2>1, <2>2, ActualIs
  <2>5. v # P!Null
    BY <1>4, <2>1, SomeIs
  <2>6. InBuffer(a, c) = s \o t /\ Room(a) = 1 + NameLength[P!NiceName(v)] + ActualSize(v)
    BY <1>4, <2>1, <2>2, <2>5 DEF InBuffer, Room, Named
  <2>7. s \o t \in Seq(Cells) /\ Len(s \o t) = 1 + NameLength[P!NiceName(v)] + ActualSize(v)
    BY <2>3, <2>4, JoinedAre
  <2>8. \A d : P!Clones(s \o t, d) <=> P!Clones(s, d) \/ P!Clones(t, d)
    BY <2>3, <2>4, ClonesJoined
  <2>9. \A d : P!Clones(s \o t, d) <=> v.is = "string" /\ d = c
    BY <1>4, <2>1, <2>2, <2>3, <2>8, ContentClones, NoClones
  <2>10. HasText(a) <=> v.is = "string"
    BY <1>4, <2>1 DEF HasText
  <2> QED
    BY <2>6, <2>7, <2>9, <2>10
<1> QED
  BY <1>1, <1>2, <1>3, <1>4 DEF IsWhole

OfClone(s, c) == s \in Seq(Cells) /\ \A d : P!Clones(s, d) => d = c
LEMMA NothingIsCloned == ASSUME NEW c PROVE OfClone(<<>>, c)
BY DEF OfClone, P!Clones

\* CClass::SerializeForRemoting writes what may arrive if there is room, and nothing
\* outside of the room in any case.
LEMMA Packs ==
    ASSUME NEW a, IsWhole(a), NEW room \in Nat, NEW target, NEW c \in Nat,
           NEW p, p = P!Pack(a, room, target, c)
    PROVE  /\ IF MayArrive(a, target) /\ Room(a) <= room
              THEN p = [cells |-> InBuffer(a, c), error |-> "none"] ELSE p.error # "none"
           /\ OfClone(p.cells, c) /\ Len(p.cells) <= room
<1>a. OfClone(<<>>, c) /\ Len(<<>>) = 0
  BY NothingIsCloned
<1>b. OfClone(InBuffer(a, c), c) /\ Len(InBuffer(a, c)) = Room(a) /\ Room(a) \in Nat
  BY InBufferIs, TakesIs DEF OfClone
<1>1. CASE a.type \notin {"any", "Point", "Pair"}
  <2>1. IsPlain(a.type, a.value)
    BY <1>1 DEF IsWhole
  <2>2. InBuffer(a, c) = Content(a.value, c) /\ Room(a) = Size(a.value)
        /\ (MayArrive(a, target) <=> MayGo(a.type, a.value, target))
    BY <1>1 DEF InBuffer, Room, MayArrive
  <2>3. p = P!PackPlain(a.type, a.value, room, target, c)
    BY <1>1, References DEF P!Pack
  <2>4. IF MayArrive(a, target) /\ Room(a) <= room
        THEN p = [cells |-> InBuffer(a, c), error |-> "none"] ELSE p.cells = <<>> /\ p.error # "none"
    BY <2>1, <2>2, <2>3, PlainPacks
  <2>5. p.cells \in {<<>>, InBuffer(a, c)} /\ Len(p.cells) <= room
    BY <2>4, <1>a, <1>b
  <2> QED
    BY <2>4, <2>5, <1>a, <1>b
<1>2. CASE a.type \in {"Point", "Pair"}
  <2>1. PICK v, s : v = a.value /\ s = Content(v.fields[1], c)
    OBVIOUS
  <2>2. v.is = a.type /\ IsTwo(v) /\ v.is \in {"Point", "Pair"}
    BY <1>2, <2>1 DEF IsWhole
  <2>3. InBuffer(a, c) = Both(v, c) /\ Room(a) = Size(v.fields[1]) + Size(v.fields[2])
        /\ (MayArrive(a, target) <=> BothMayGo(v, target))
    BY <1>2, <2>1 DEF InBuffer, Room, MayArrive
  <2>4. p = P!PackStruct(v, room, target, c)
    BY <1>2, <2>1, References DEF P!Pack
  <2>5. IF MayArrive(a, target) /\ Room(a) <= room
        THEN p = [cells |-> InBuffer(a, c), error |-> "none"]
        ELSE p.cells \in {<<>>, s} /\ p.error # "none" /\ Len(p.cells) <= room
    BY <2>1, <2>2, <2>3, <2>4, StructPacks
  <2>6. OfClone(s, c)
    BY <2>1, <2>2, ContentIs, ContentClones DEF IsTwo, OfClone
  <2>7. p.cells \in {<<>>, s, InBuffer(a, c)} /\ Len(p.cells) <= room
    BY <2>5, <1>b
  <2> QED
    BY <2>5, <2>6, <2>7, <1>a, <1>b
<1>3. CASE a.type = "any" /\ a.value = P!Null
  <2>1. PICK s : s = <<P!Zero>>
    OBVIOUS
  <2>2. p = P!Put(s, room)
    BY <1>3, <2>1, References DEF P!Pack, P!PackAny
  <2>3. InBuffer(a, c) = s /\ MayArrive(a, target)
    BY <1>3, <2>1 DEF InBuffer, MayArrive
  <2>4. IF Room(a) <= room THEN p = [cells |-> InBuffer(a, c), error |-> "none"]
        ELSE p = [cells |-> <<>>, error |-> "too_large"]
    BY <2>2, <2>3, <1>b, PutIs DEF OfClone
  <2>5. IF Room(a) <= room THEN p = [cells |-> InBuffer(a, c), error |-> "none"]
        ELSE p.cells = <<>> /\ p.error # "none"
    BY <2>4
  <2>6. p.cells \in {<<>>, InBuffer(a, c)} /\ Len(p.cells) <= room
    BY <2>5, <1>a, <1>b
  <2> QED
    BY <2>3, <2>5, <2>6, <1>a, <1>b
<1>4. CASE a.type = "any" /\ IsSome(a.value)
  <2>1. PICK v, s : v = a.value /\ s = P!Header(P!NiceName(v))
    OBVIOUS
  <2>2. v # P!Null
    BY <1>4, <2>1, SomeIs
  <2>3. p = P!PackAny(v, room, target, c)
    BY <1>4, <2>1, References DEF P!Pack
  <2>4. InBuffer(a, c) = Named(v, c) /\ Room(a) = 1 + NameLength[P!NiceName(v)] + ActualSize(v)
        /\ (MayArrive(a, target) <=> ActualMayGo(v, target))
    BY <1>4, <2>1, <2>2 DEF InBuffer, Room, MayArrive
  <2>5. IF MayArrive(a, target) /\ Room(a) <= room
        THEN p = [cells |-> InBuffer(a, c), error |-> "none"]
        ELSE p.cells \in {<<>>, s} /\ p.error # "none" /\ Len(p.cells) <= room
    BY <1>4, <2>1, <2>3, <2>4, SomePacks
  <2>6. OfClone(s, c)
    <3>1. s \in Seq(Cells) /\ \A i \in 1..Len(s) : s[i][1] # "clone"
      BY <1>4, <2>1, SomeIs, HeaderIs
    <3> QED
      BY <3>1, NoClones DEF OfClone
  <2>7. p.cells \in {<<>>, s, InBuffer(a, c)} /\ Len(p.cells) <= room
    BY <2>5, <1>b
  <2> QED
    BY <2>5, <2>6, <2>7, <1>a, <1>b
<1> QED
  BY <1>1, <1>2, <1>3, <1>4 DEF IsWhole
-----------------------------------------------------------------------------
\* What is read where cells have been written.
HoldsAt(b, p, cells) == \A j \in 1..Len(cells) : b[p + (j - 1)] = cells[j]

LEMMA HoldsJoined ==
    ASSUME NEW b, NEW p \in Nat, NEW s \in Seq(Cells), NEW t \in Seq(Cells), HoldsAt(b, p, s \o t),
           NEW q, q = p + Len(s)
    PROVE  HoldsAt(b, p, s) /\ HoldsAt(b, q, t)
<1>1. PICK m \in Nat, n \in Nat : m = Len(s) /\ n = Len(t)
  OBVIOUS
<1>2. PICK u : u = s \o t
  OBVIOUS
<1>3. /\ Len(u) = m + n
      /\ \A i \in 1..m : u[i] = s[i]
      /\ \A i \in 1..n : u[m + i] = t[i]
  BY <1>1, <1>2, JoinedAre
<1>4. \A j \in 1..(m + n) : b[p + (j - 1)] = u[j]
  BY <1>2, <1>3 DEF HoldsAt
<1>5. \A j \in 1..m : b[p + (j - 1)] = s[j]
  BY <1>1, <1>3, <1>4
<1>6. \A j \in 1..n : b[q + (j - 1)] = t[j]
  <2> TAKE j \in 1..n
  <2>1. m + j \in 1..(m + n) /\ p + ((m + j) - 1) = q + (j - 1)
    BY <1>1
  <2> QED
    BY <1>3, <1>4, <2>1
<1> QED
  BY <1>1, <1>5, <1>6 DEF HoldsAt

LEMMA HoldsFirst ==
    ASSUME NEW b, NEW p \in Nat, NEW s, Len(s) \in Nat, HoldsAt(b, p, s)
    PROVE  /\ Len(s) > 0 => b[p] = s[1]
           /\ Len(s) > 1 => b[p + 1] = s[2]
<1>1. PICK n \in Nat : n = Len(s)
  OBVIOUS
<1>2. \A j \in 1..n : b[p + (j - 1)] = s[j]
  BY <1>1 DEF HoldsAt
<1>3. n > 0 => b[p + (1 - 1)] = s[1]
  BY <1>2
<1>4. n > 1 => b[p + (2 - 1)] = s[2]
  BY <1>2
<1> QED
  BY <1>1, <1>3, <1>4

FreedPart(v, c) == IF v.is = "string" THEN {c} ELSE {}
ReadPart(v, c, there) ==
    IF v.is = "Foreign" /\ v.name \notin there THEN P!Refuses("not_found")
    ELSE [value |-> P!ArrivedPart(v), took |-> Size(v), frees |-> FreedPart(v, c), error |-> "none"]

LEMMA PlainUnpacks ==
    ASSUME NEW type, NEW v, IsPlain(type, v), NEW target, MayGo(type, v, target), NEW c \in Nat,
           NEW p \in Nat, p + Size(v) <= MessageSize + 1, HoldsAt(buffer, p, Content(v, c)), NEW there
    PROVE  P!UnpackPlain(type, p, there) = ReadPart(v, c, there)
<1>1. PICK s, n : s = Content(v, c) /\ n = Size(v) /\ s \in Seq(Cells) /\ Len(s) = n /\ n \in Nat \ {0}
  <2>1. Content(v, c) \in Seq(Cells) /\ Len(Content(v, c)) = Size(v) /\ Size(v) \in Nat \ {0}
    BY ContentIs
  <2> QED
    BY <2>1
<1>2. buffer[p] = s[1] /\ (n > 1 => buffer[p + 1] = s[2])
  BY <1>1, HoldsFirst
<1>3. MessageSize \in Nat /\ ~P!Overruns(p, 1)
  <2>1. MessageSize \in Nat
    BY NamesAreSent
  <2> QED
    BY <1>1, <2>1 DEF P!Overruns
<1>4. CASE type = "int"
  <2>1. v = P!Int /\ v.is = "int"
    BY <1>4, PlainValues
  <2>2. s = <<<<"int", 1>>>> /\ n = 1
    BY <1>1, <2>1 DEF Content, Size
  <2>3. buffer[p][1] = "int"
    BY <1>2, <2>2
  <2>4. P!UnpackPlain(type, p, there) = P!Gives(P!Int, 1)
    BY <1>3, <1>4, <2>3 DEF P!UnpackPlain
  <2> QED
    BY <1>1, <2>1, <2>2, <2>4 DEF P!Gives, ReadPart, P!ArrivedPart, FreedPart
<1>5. CASE type = "string"
  <2>1. P!UnpackPlain(type, p, there) = P!UnpackString(p)
    BY <1>3, <1>5 DEF P!UnpackPlain
  <2>2. CASE v.is = "null"
    <3>1. v = P!Null /\ s = <<P!Zero>> /\ n = 1
      BY <1>1, <2>2, PlainValues DEF Content, Size
    <3>2. buffer[p] = P!Zero
      BY <1>2, <3>1
    <3>3. P!UnpackString(p) = P!Gives(P!Null, 1)
      BY <3>2 DEF P!UnpackString
    <3> QED
      BY <1>1, <2>1, <2>2, <3>1, <3>3 DEF P!Gives, ReadPart, P!ArrivedPart, FreedPart
  <2>3. CASE v.is = "string"
    <3>1. PICK t : t = P!Truncated(v.of)
      OBVIOUS
    <3>2. s = <<<<"clone", c, t>>>> /\ n = 1
      BY <1>1, <2>3, <3>1 DEF Content, Size
    <3>3. buffer[p] = <<"clone", c, t>>
      BY <1>2, <3>2
    <3>4. buffer[p] # P!Zero /\ buffer[p][1] = "clone" /\ buffer[p][2] = c /\ buffer[p][3] = t
      BY <3>3 DEF P!Zero
    <3>5. P!UnpackString(p) = [value |-> P!Text(t), took |-> 1, frees |-> {c}, error |-> "none"]
      BY <3>4 DEF P!UnpackString
    <3> QED
      BY <1>1, <2>1, <2>3, <3>1, <3>2, <3>5 DEF ReadPart, P!ArrivedPart, FreedPart
  <2> QED
    BY <1>5, <2>2, <2>3, PlainValues
<1>6. CASE type = "Foreign"
  <2>1. P!UnpackPlain(type, p, there) = P!UnpackForeign(p, there)
    BY <1>3, <1>6 DEF P!UnpackPlain
  <2>2. CASE v.is = "null"
    <3>1. v = P!Null /\ s = <<P!Zero>> /\ n = 1
      BY <1>1, <2>2, PlainValues DEF Content, Size
    <3>2. buffer[p] = P!Zero /\ P!IsLength(p)
      BY <1>2, <3>1 DEF P!Zero, P!IsLength
    <3>3. P!UnpackForeign(p, there) = P!Gives(P!Null, 1)
      BY <3>2 DEF P!UnpackForeign
    <3> QED
      BY <1>1, <2>1, <2>2, <3>1, <3>3 DEF P!Gives, ReadPart, P!ArrivedPart, FreedPart
  <2>3. CASE v.is = "Foreign"
    <3>1. PICK k \in Nat \ {0} : k = NameLength["door"] /\ v.name = "door" /\ "door" \in DOMAIN NameLength
      BY <2>3, PlainValues, NamesAreSent
    <3>2. s = P!Header("door") /\ n = 1 + k
      BY <1>1, <2>3, <3>1 DEF Content, Size
    <3>3. buffer[p] = <<"length", k>> /\ buffer[p + 1] = <<"part", "door">>
      BY <1>2, <3>1, <3>2, HeaderIs
    <3>4. P!IsLength(p) /\ buffer[p] # P!Zero /\ buffer[p][2] = k /\ P!NameAt(p) = "door"
      BY <3>1, <3>3 DEF P!IsLength, P!Zero, P!NameAt
    <3>5. ~P!Overruns(p, 1 + buffer[p][2])
      BY <1>1, <1>3, <3>2, <3>4 DEF P!Overruns
    <3>6. P!UnpackForeign(p, there) = IF "door" \notin there THEN P!Refuses("not_found")
                                        ELSE P!Gives(P!Exported("door"), 1 + k)
      BY <3>4, <3>5 DEF P!UnpackForeign
    <3> QED
      BY <1>1, <2>1, <2>3, <3>1, <3>2, <3>6 DEF P!Gives, ReadPart, P!ArrivedPart, FreedPart
  <2> QED
    BY <1>6, <2>2, <2>3, PlainValues
<1>7. CASE type = "Thing"
  <2>1. v.is = "null" /\ v = P!Null
    BY <1>7, PlainValues DEF MayGo
  <2>2. s = <<P!Zero>> /\ n = 1
    BY <1>1, <2>1 DEF Content, Size
  <2>3. P!UnpackPlain(type, p, there) = P!Gives(P!Null, 1)
    BY <1>2, <1>3, <1>7, <2>2 DEF P!UnpackPlain
  <2> QED
    BY <1>1, <2>1, <2>2, <2>3 DEF P!Gives, ReadPart, P!ArrivedPart, FreedPart
<1> QED
  BY <1>4, <1>5, <1>6, <1>7, PlainValues DEF MayGo
ReadNext(u, n, type, p, there) ==
    IF u.error # "none" THEN u
    ELSE LET f == P!UnpackPlain(P!FieldTypes[type][n], p + u.took, there)
         IN [value |-> [u.value EXCEPT !.fields[n] = f.value], took |-> u.took + f.took,
             frees |-> u.frees \cup f.frees, error |-> f.error]
ReadFirst(type) == P!Gives([is |-> type, fields |-> [i \in DOMAIN P!FieldTypes[type] |-> P!Misread]], 0)
IsReadRun(R, type, p, there) ==
    R = [n \in 0..Len(P!FieldTypes[type]) |-> IF n = 0 THEN ReadFirst(type)
                                              ELSE ReadNext(R[n - 1], n, type, p, there)]

LEMMA ReadRunIs ==
    ASSUME NEW type, Len(P!FieldTypes[type]) = 2, NEW p, NEW there
    PROVE  \E R : IsReadRun(R, type, p, there) /\ P!UnpackStruct(type, p, there) = R[2]
<1> DEFINE z == ReadFirst(type)
           b == ReadNext(z, 1, type, p, there)
           d == ReadNext(b, 2, type, p, there)
           S == [n \in 0..Len(P!FieldTypes[type]) |-> IF n = 0 THEN z ELSE IF n = 1 THEN b ELSE d]
           B == CHOOSE R : IsReadRun(R, type, p, there)
<1>1. \E R : IsReadRun(R, type, p, there)
  <2>1. S[0] = z /\ S[1] = b /\ S[2] = d
    <3> HIDE DEF z, b, d
    <3> QED
      OBVIOUS
  <2>2. \A n \in 0..Len(P!FieldTypes[type]) : S[n] = IF n = 0 THEN z ELSE ReadNext(S[n - 1], n, type, p, there)
    <3>0. PICK N : N = 0..Len(P!FieldTypes[type]) /\ N = {0, 1, 2}
      <4>1. 0..2 = {0, 1, 2}
        OBVIOUS
      <4> QED
        BY <4>1
    <3> HIDE DEF S, z, b, d
    <3>1. b = ReadNext(S[0], 1, type, p, there) /\ d = ReadNext(S[1], 2, type, p, there)
      BY <2>1 DEF b, d
    <3> SUFFICES ASSUME NEW n \in {0, 1, 2} PROVE S[n] = IF n = 0 THEN z ELSE ReadNext(S[n - 1], n, type, p, there)
      BY <3>0
    <3>3. n = 1 => S[n] = ReadNext(S[n - 1], n, type, p, there)
      BY <2>1, <3>1
    <3>4. n = 2 => S[n] = ReadNext(S[n - 1], n, type, p, there)
      BY <2>1, <3>1
    <3> QED
      BY <2>1, <3>3, <3>4
  <2>3. S = [n \in 0..Len(P!FieldTypes[type]) |-> S[n]]
    <3> HIDE DEF z, b, d
    <3> QED
      OBVIOUS
  <2> HIDE DEF S
  <2>4. IsReadRun(S, type, p, there)
    BY <2>2, <2>3, Zenon DEF IsReadRun
  <2> QED
    BY <2>4
<1>2. IsReadRun(B, type, p, there)
  BY <1>1, Zenon
<1>3. P!UnpackStruct(type, p, there) = B[Len(P!FieldTypes[type])]
  BY Zenon DEF P!UnpackStruct, IsReadRun, ReadNext, ReadFirst
<1> QED
  BY <1>2, <1>3

Freed(a, c) == IF HasText(a) THEN {c} ELSE {}
\* Read as it was written, or refused for what the reader does not have.
ReadWell(u, a, c) ==
    /\ u.error \in {"none", "not_found", "unknown_type", "no_boxed_class"}
    /\ u.error = "none" => u.value = P!Arrived(a.value) /\ u.took = Room(a) /\ u.frees = Freed(a, c)
    /\ u.frees \subseteq Freed(a, c)

LEMMA StructUnpacks ==
    ASSUME NEW a, IsWhole(a), a.type \in {"Point", "Pair"}, NEW target, MayArrive(a, target), NEW c \in Nat,
           NEW p \in Nat, p + Room(a) <= MessageSize + 1, HoldsAt(buffer, p, InBuffer(a, c)), NEW there,
           NEW u, u = P!UnpackStruct(a.type, p, there)
    PROVE  ReadWell(u, a, c)
<1>1. PICK v, type, f, g : v = a.value /\ type = a.type /\ f = v.fields[1] /\ g = v.fields[2]
  OBVIOUS
<1>2. /\ v.is = type /\ IsTwo(v) /\ type \in {"Point", "Pair"} /\ v = [is |-> type, fields |-> <<f, g>>]
      /\ type = "Pair" => f.is = "string"
  BY <1>1 DEF IsWhole, IsTwo
<1>3. PICK t1, t2 : t1 = P!FieldTypes[type][1] /\ t2 = P!FieldTypes[type][2]
  OBVIOUS
<1>4. IsPlain(t1, f) /\ IsPlain(t2, g) /\ MayGo(t1, f, target) /\ MayGo(t2, g, target)
  BY <1>1, <1>2, <1>3 DEF MayArrive, BothMayGo, IsTwo
<1>5. PICK s, t, m, n : /\ s = Content(f, c) /\ t = Content(g, c) /\ m = Size(f) /\ n = Size(g)
  OBVIOUS
<1>6. /\ s \in Seq(Cells) /\ Len(s) = m /\ m \in Nat \ {0}
      /\ t \in Seq(Cells) /\ Len(t) = n /\ n \in Nat \ {0}
  BY <1>4, <1>5, ContentIs
<1>7. InBuffer(a, c) = s \o t /\ Room(a) = m + n
  BY <1>1, <1>5 DEF InBuffer, Room, Both
<1>8. HoldsAt(buffer, p, s) /\ HoldsAt(buffer, p + m, t) /\ p + m \in Nat
  <2>1. PICK q : q = p + Len(s) /\ q = p + m /\ q \in Nat
    BY <1>6
  <2>2. s \in Seq(Cells) /\ t \in Seq(Cells)
    BY <1>6
  <2>3. HoldsAt(buffer, p, s \o t)
    BY <1>7
  <2>4. HoldsAt(buffer, p, s) /\ HoldsAt(buffer, q, t)
    BY <2>1, <2>2, <2>3, HoldsJoined
  <2> QED
    BY <2>1, <2>4
<1>9. MessageSize \in Nat
  BY NamesAreSent
<1>10. P!UnpackPlain(t1, p, there) = ReadPart(f, c, there)
  <2>1. p + m <= MessageSize + 1
    BY <1>6, <1>7, <1>9
  <2> QED
    BY <1>4, <1>5, <1>8, <2>1, PlainUnpacks
<1>11. P!UnpackPlain(t2, p + m, there) = ReadPart(g, c, there)
  <2>1. (p + m) + n <= MessageSize + 1
    BY <1>6, <1>7, <1>9
  <2> QED
    BY <1>4, <1>5, <1>8, <2>1, PlainUnpacks
<1>12. f.is \in {"int", "null", "string"} /\ g.is \in {"int", "null", "Foreign"}
  BY <1>1, <1>2, FieldsAre
<1>13. P!UnpackPlain(t1, p, there) = [value |-> P!ArrivedPart(f), took |-> m, frees |-> FreedPart(f, c), error |-> "none"]
  BY <1>5, <1>10, <1>12 DEF ReadPart
<1>14. P!FieldTypes[type] = <<t1, t2>>
  <2>1. CASE type = "Point"
    BY <1>3, <2>1, References
  <2>2. CASE type = "Pair"
    BY <1>3, <2>2, References
  <2> QED
    BY <1>2, <2>1, <2>2
<1>15. PICK R : IsReadRun(R, type, p, there) /\ u = R[2]
  BY <1>1, <1>14, ReadRunIs
<1>16. R[0] = [value |-> [is |-> type, fields |-> <<P!Misread, P!Misread>>], took |-> 0, frees |-> {}, error |-> "none"]
  <2>1. R[0] = P!Gives([is |-> type, fields |-> [i \in DOMAIN P!FieldTypes[type] |-> P!Misread]], 0)
    BY <1>14, <1>15 DEF IsReadRun, ReadFirst
  <2>2. [i \in DOMAIN P!FieldTypes[type] |-> P!Misread] = <<P!Misread, P!Misread>>
    BY <1>14
  <2> QED
    BY <2>1, <2>2 DEF P!Gives
<1>17. R[1] = [value |-> [is |-> type, fields |-> <<P!ArrivedPart(f), P!Misread>>], took |-> m,
               frees |-> FreedPart(f, c), error |-> "none"]
  <2>1. PICK w : w = P!UnpackPlain(t1, p, there)
    OBVIOUS
  <2>2. R[1] = [value |-> [R[0].value EXCEPT !.fields[1] = w.value], took |-> 0 + w.took,
                frees |-> {} \cup w.frees, error |-> w.error]
    <3>1. R[1] = ReadNext(R[0], 1, type, p, there)
      BY <1>14, <1>15 DEF IsReadRun
    <3>2. P!FieldTypes[type][1] = t1 /\ R[0].took = 0 /\ p + 0 = p /\ R[0].frees = {} /\ R[0].error = "none"
      BY <1>3, <1>16
    <3> QED
      BY <2>1, <3>1, <3>2 DEF ReadNext
  <2>3. [R[0].value EXCEPT !.fields[1] = w.value] = [is |-> type, fields |-> <<w.value, P!Misread>>]
    BY <1>16
  <2>4. w.value = P!ArrivedPart(f) /\ w.took = m /\ w.frees = FreedPart(f, c) /\ w.error = "none"
    BY <1>13, <2>1
  <2>5. 0 + w.took = m /\ {} \cup w.frees = FreedPart(f, c)
    BY <1>6, <2>4
  <2> QED
    BY <2>2, <2>3, <2>4, <2>5
<1>18. PICK w : w = ReadPart(g, c, there)
  OBVIOUS
<1>19. u = [value |-> [is |-> type, fields |-> <<P!ArrivedPart(f), w.value>>], took |-> m + w.took,
            frees |-> FreedPart(f, c) \cup w.frees, error |-> w.error]
  <2>1. u = ReadNext(R[1], 2, type, p, there)
    BY <1>14, <1>15 DEF IsReadRun
  <2>2. P!FieldTypes[type][2] = t2 /\ R[1].took = m /\ R[1].frees = FreedPart(f, c) /\ R[1].error = "none"
    BY <1>3, <1>17
  <2>3. u = [value |-> [R[1].value EXCEPT !.fields[2] = w.value], took |-> m + w.took,
             frees |-> FreedPart(f, c) \cup w.frees, error |-> w.error]
    BY <1>11, <1>18, <2>1, <2>2 DEF ReadNext
  <2>4. [R[1].value EXCEPT !.fields[2] = w.value] = [is |-> type, fields |-> <<P!ArrivedPart(f), w.value>>]
    BY <1>17
  <2> QED
    BY <2>3, <2>4
<1>20. FreedPart(f, c) = Freed(a, c)
  BY <1>1, <1>2, <1>12, FieldsAre DEF FreedPart, Freed, HasText
<1>21. w.frees = {} /\ (w.error = "none" \/ w.error = "not_found")
  BY <1>12, <1>18 DEF ReadPart, FreedPart, P!Refuses
<1>22. ASSUME w.error = "none" PROVE u.value = P!Arrived(v) /\ u.took = m + n
  <2>1. w.value = P!ArrivedPart(g) /\ w.took = n
    BY <1>5, <1>18, <1>22 DEF ReadPart, P!Refuses
  <2>2. P!Arrived(v) = [v EXCEPT !.fields = [i \in 1..Len(v.fields) |-> P!ArrivedPart(v.fields[i])]]
    BY <1>2, References DEF P!Arrived
  <2>3. [i \in 1..Len(v.fields) |-> P!ArrivedPart(v.fields[i])] = <<P!ArrivedPart(f), P!ArrivedPart(g)>>
    <3>1. Len(v.fields) = 2
      BY <1>2 DEF IsTwo
    <3> QED
      BY <1>1, <3>1
  <2>4. P!Arrived(v) = [is |-> type, fields |-> <<P!ArrivedPart(f), P!ArrivedPart(g)>>]
    BY <1>2, <2>2, <2>3
  <2> QED
    BY <1>19, <2>1, <2>4
<1> QED
  BY <1>1, <1>7, <1>19, <1>20, <1>21, <1>22 DEF ReadWell
LEMMA ActualUnpacks ==
    ASSUME NEW v, IsSome(v), NEW target, ActualMayGo(v, target), NEW c \in Nat,
           NEW p \in Nat, p + ActualSize(v) <= MessageSize + 1, HoldsAt(buffer, p, Actual(v, c)), NEW there,
           NEW u, u = P!UnpackActual(P!NiceName(v), p, there)
    PROVE  /\ u.error \in {"none", "not_found"} /\ u.frees \subseteq FreedPart(v, c)
           /\ u.error = "none" => u.value = P!ArrivedPart(v) /\ u.took = ActualSize(v) /\ u.frees = FreedPart(v, c)
           /\ u = [value |-> u.value, took |-> u.took, frees |-> u.frees, error |-> u.error]
<1>1. CASE v.is # "boxed"
  <2>1. /\ v.is \in {"string", "Foreign", "Thing", "array"} /\ IsPlain(v.is, v) /\ P!NiceName(v) = v.is
        /\ Actual(v, c) = Content(v, c) /\ ActualSize(v) = Size(v) /\ MayGo(v.is, v, target)
    BY <1>1, SomeIs DEF P!NiceName, Actual, ActualSize, ActualMayGo
  <2>2. u = P!UnpackPlain(v.is, p, there)
    BY <2>1, References DEF P!UnpackActual
  <2>3. u = ReadPart(v, c, there)
    BY <2>1, <2>2, PlainUnpacks
  <2>4. v.is = "Foreign" => FreedPart(v, c) = {}
    BY DEF FreedPart
  <2> QED
    BY <2>1, <2>3, <2>4 DEF ReadPart, P!Refuses
<1>2. CASE v.is = "boxed"
  <2>1. v = P!Boxed(P!Point) /\ v.of.is = "Point"
    BY <1>2, SomeIs, BoxIs DEF ActualMayGo
  <2>2. P!NiceName(v) = "Point" /\ u = P!UnpackBoxed("Point", p)
    BY <1>2, <2>1, References DEF P!NiceName, P!UnpackActual
  <2>3. PICK s : s = <<<<"int", 1>>, <<"int", 1>>>> /\ Actual(v, c) = s /\ ActualSize(v) = 2
    BY <1>2 DEF Actual, ActualSize
  <2>4. Len(s) = 2 /\ s[1] = <<"int", 1>> /\ s[2] = <<"int", 1>>
    BY <2>3
  <2>5. buffer[p] = <<"int", 1>> /\ buffer[p + 1] = <<"int", 1>>
    <3>1. HoldsAt(buffer, p, s) /\ Len(s) \in Nat /\ Len(s) > 0 /\ Len(s) > 1
      BY <2>3, <2>4
    <3>2. buffer[p] = s[1] /\ buffer[p + 1] = s[2]
      BY <3>1, HoldsFirst
    <3> QED
      BY <2>4, <3>2
  <2>6. [i \in DOMAIN P!FieldTypes["Point"] |-> IF buffer[p + i - 1] = <<"int", 1>> THEN P!Int ELSE P!Misread]
        = <<P!Int, P!Int>>
    <3>1. DOMAIN P!FieldTypes["Point"] = 1..2 /\ p + 1 - 1 = p /\ p + 2 - 1 = p + 1
      BY References
    <3>2. \A i \in 1..2 : buffer[p + i - 1] = <<"int", 1>>
      BY <2>5, <3>1
    <3>3. [i \in 1..2 |-> IF buffer[p + i - 1] = <<"int", 1>> THEN P!Int ELSE P!Misread] = [i \in 1..2 |-> P!Int]
      BY <3>2
    <3>4. [i \in 1..2 |-> P!Int] = <<P!Int, P!Int>>
      OBVIOUS
    <3> QED
      BY <3>1, <3>3, <3>4
  <2>7. ~P!Overruns(p, Len(P!FieldTypes["Point"]))
    <3>1. Len(P!FieldTypes["Point"]) = 2
      BY References
    <3>2. MessageSize \in Nat
      BY NamesAreSent
    <3> QED
      BY <2>3, <3>1, <3>2 DEF P!Overruns
  <2>8. u = P!Gives(P!Boxed([is |-> "Point", fields |-> <<P!Int, P!Int>>]), 2)
    <3>1. Len(<<P!Int, P!Int>>) = 2
      OBVIOUS
    <3> QED
      BY <2>2, <2>6, <2>7, <3>1 DEF P!UnpackBoxed
  <2>9. P!Boxed([is |-> "Point", fields |-> <<P!Int, P!Int>>]) = v
    BY <2>1 DEF P!Point
  <2>10. P!ArrivedPart(v) = v /\ FreedPart(v, c) = {}
    BY <1>2 DEF P!ArrivedPart, FreedPart
  <2> QED
    BY <2>3, <2>8, <2>9, <2>10 DEF P!Gives
<1> QED
  BY <1>1, <1>2

LEMMA AnyUnpacks ==
    ASSUME NEW a, IsWhole(a), a.type = "any", NEW target, MayArrive(a, target), NEW c \in Nat,
           NEW p \in Nat, p + Room(a) <= MessageSize + 1, HoldsAt(buffer, p, InBuffer(a, c)), NEW there,
           NEW u, u = P!UnpackAny(p, there)
    PROVE  ReadWell(u, a, c)
<1>1. PICK v : v = a.value
  OBVIOUS
<1>2. MessageSize \in Nat /\ ~P!Overruns(p, 1)
  <2>1. MessageSize \in Nat /\ Room(a) \in Nat \ {0}
    BY NamesAreSent, TakesIs
  <2> QED
    BY <2>1 DEF P!Overruns
<1>3. CASE v = P!Null
  <2>1. PICK s : s = <<P!Zero>> /\ Len(s) = 1 /\ s[1] = P!Zero
    <3>1. Len(<<P!Zero>>) = 1 /\ <<P!Zero>>[1] = P!Zero
      OBVIOUS
    <3> QED
      BY <3>1
  <2>2. HoldsAt(buffer, p, s) /\ Room(a) = 1
    BY <1>1, <1>3, <2>1 DEF InBuffer, Room
  <2>3. buffer[p] = P!Zero
    BY <2>1, <2>2, HoldsFirst
  <2>4. P!IsLength(p)
    BY <2>3 DEF P!IsLength, P!Zero
  <2>5. u = P!Gives(P!Null, 1)
    BY <1>2, <2>3, <2>4 DEF P!UnpackAny
  <2>6. P!Arrived(v) = P!Null /\ ~HasText(a)
    BY <1>1, <1>3, References DEF P!Arrived, P!ArrivedPart, P!Null, HasText
  <2> QED
    BY <1>1, <2>2, <2>5, <2>6 DEF P!Gives, ReadWell, Freed
<1>4. CASE v # P!Null
  <2>1. IsSome(v) /\ ActualMayGo(v, target)
    BY <1>1, <1>4 DEF IsWhole, MayArrive
  <2>2. PICK name : name = P!NiceName(v)
    OBVIOUS
  <2>3. name \in DOMAIN NameLength /\ name \in {"string", "Foreign", "Thing", "array", "Point", "Pair"}
    BY <2>1, <2>2, SomeIs
  <2>4. PICK k \in Nat \ {0} : k = NameLength[name]
    BY <2>3, NamesAreSent
  <2>5. PICK s, t, n : s = P!Header(name) /\ t = Actual(v, c) /\ n = ActualSize(v)
    OBVIOUS
  <2>6. /\ s \in Seq(Cells) /\ Len(s) = 1 + k /\ s[1] = <<"length", k>> /\ s[2] = <<"part", name>>
        /\ t \in Seq(Cells) /\ Len(t) = n /\ n \in Nat \ {0}
    BY <2>1, <2>3, <2>4, <2>5, HeaderIs, ActualIs
  <2>7. InBuffer(a, c) = s \o t /\ Room(a) = 1 + k + n
    BY <1>1, <1>4, <2>2, <2>4, <2>5 DEF InBuffer, Room, Named
  <2>8. HoldsAt(buffer, p, s) /\ HoldsAt(buffer, p + 1 + k, t) /\ p + 1 + k \in Nat
    <3>1. PICK q : q = p + Len(s) /\ q = p + 1 + k /\ q \in Nat
      BY <2>6
    <3>2. s \in Seq(Cells) /\ t \in Seq(Cells)
      BY <2>6
    <3>3. HoldsAt(buffer, p, s \o t)
      BY <2>7
    <3>4. HoldsAt(buffer, p, s) /\ HoldsAt(buffer, q, t)
      BY <3>1, <3>2, <3>3, HoldsJoined
    <3> QED
      BY <3>1, <3>4
  <2>9. buffer[p] = <<"length", k>> /\ buffer[p + 1] = <<"part", name>>
    <3>1. Len(s) \in Nat /\ Len(s) > 0 /\ Len(s) > 1
      BY <2>6
    <3>2. buffer[p] = s[1] /\ buffer[p + 1] = s[2]
      BY <2>8, <3>1, HoldsFirst
    <3> QED
      BY <2>6, <3>2
  <2>10. P!IsLength(p) /\ buffer[p] # P!Zero /\ buffer[p][2] = k /\ P!NameAt(p) = name
    BY <2>9 DEF P!IsLength, P!Zero, P!NameAt
  <2>11. ~P!Overruns(p, 1 + k)
    BY <1>2, <2>6, <2>7 DEF P!Overruns
  <2>12. PICK w : w = P!UnpackActual(name, p + 1 + k, there)
    OBVIOUS
  <2>13. u = P!Refuses("unknown_type") \/ u = P!Refuses("no_boxed_class")
         \/ u = [w EXCEPT !.took = w.took + 1 + k]
    BY <1>2, <2>10, <2>11, <2>12 DEF P!UnpackAny
  <2>14. /\ w.error \in {"none", "not_found"} /\ w.frees \subseteq FreedPart(v, c)
         /\ w.error = "none" => w.value = P!ArrivedPart(v) /\ w.took = n /\ w.frees = FreedPart(v, c)
         /\ w = [value |-> w.value, took |-> w.took, frees |-> w.frees, error |-> w.error]
    <3>1. (p + 1 + k) + n <= MessageSize + 1
      BY <1>2, <2>6, <2>7
    <3> QED
      BY <2>1, <2>2, <2>5, <2>8, <2>12, <3>1, ActualUnpacks
  <2>15. FreedPart(v, c) = Freed(a, c)
    BY <1>1 DEF FreedPart, Freed, HasText
  <2>16. P!Arrived(v) = P!ArrivedPart(v)
    BY <2>1, SomeIs, References DEF P!Arrived
  <2>17. CASE u = P!Refuses("unknown_type") \/ u = P!Refuses("no_boxed_class")
    BY <2>17 DEF P!Refuses, ReadWell
  <2>18. CASE u = [w EXCEPT !.took = w.took + 1 + k]
    <3>1. u = [value |-> w.value, took |-> w.took + 1 + k, frees |-> w.frees, error |-> w.error]
      BY <2>14, <2>18
    <3>2. w.error = "none" => u.took = Room(a)
      BY <2>6, <2>7, <2>14, <3>1
    <3> QED
      BY <1>1, <2>14, <2>15, <2>16, <3>1, <3>2 DEF ReadWell
  <2> QED
    BY <2>13, <2>17, <2>18
<1> QED
  BY <1>3, <1>4

\* CClass::DeserializeForRemoting gives back what SerializeForRemoting has written, and
\* takes as many words, wherever it stands in the buffer.
LEMMA Unpacks ==
    ASSUME NEW a, IsWhole(a), NEW target, MayArrive(a, target), NEW c \in Nat,
           NEW p \in Nat, p + Room(a) <= MessageSize + 1, HoldsAt(buffer, p, InBuffer(a, c)), NEW there,
           NEW u, u = P!Unpack(a.type, p, there)
    PROVE  ReadWell(u, a, c)
<1>1. CASE a.type = "any"
  <2>1. u = P!UnpackAny(p, there)
    BY <1>1, References DEF P!Unpack
  <2> QED
    BY <1>1, <2>1, AnyUnpacks
<1>2. CASE a.type \in {"Point", "Pair"}
  <2>1. u = P!UnpackStruct(a.type, p, there)
    BY <1>2, References DEF P!Unpack
  <2> QED
    BY <1>2, <2>1, StructUnpacks
<1>3. CASE a.type \notin {"any", "Point", "Pair"}
  <2>1. PICK v : v = a.value
    OBVIOUS
  <2>2. IsPlain(a.type, v) /\ MayGo(a.type, v, target)
    BY <1>3, <2>1 DEF IsWhole, MayArrive
  <2>3. InBuffer(a, c) = Content(v, c) /\ Room(a) = Size(v)
    BY <1>3, <2>1 DEF InBuffer, Room
  <2>4. u = P!UnpackPlain(a.type, p, there)
    BY <1>3, References DEF P!Unpack
  <2>5. u = ReadPart(v, c, there)
    BY <2>2, <2>3, <2>4, PlainUnpacks
  <2>6. P!Arrived(v) = P!ArrivedPart(v)
    BY <2>2, PlainValues, References DEF P!Arrived
  <2>7. FreedPart(v, c) = Freed(a, c)
    BY <1>3, <2>1 DEF FreedPart, Freed, HasText
  <2> QED
    BY <2>1, <2>3, <2>5, <2>6, <2>7 DEF ReadPart, ReadWell, P!Refuses
<1> QED
  BY <1>1, <1>2, <1>3
-----------------------------------------------------------------------------
\* The room that arguments take together.
SumOf(ps) == LET Sum[n \in 0..Len(ps)] == IF n = 0 THEN 0 ELSE Sum[n - 1] + P!Takes(ps[n]) IN Sum
IsSum(S, N, ps) == S = [n \in 0..N |-> IF n = 0 THEN 0 ELSE S[n - 1] + P!Takes(ps[n])]

LEMMA SumExists == ASSUME NEW ps, NEW N \in Nat PROVE \E S : IsSum(S, N, ps)
<1> DEFINE Bad == {k \in Nat : ~\E S : IsSum(S, k, ps)}
<1>1. CASE Bad = {}
  BY <1>1
<1>2. CASE Bad # {}
  <2>1. Bad \subseteq Nat
    OBVIOUS
  <2>2. PICK k \in Bad : \A j \in Bad : k <= j
    BY <1>2, <2>1, LeastNumber
  <2>3. k \in Nat /\ ~\E S : IsSum(S, k, ps)
    BY <2>2
  <2>4. CASE k = 0
    <3>1. PICK S : S = [n \in 0..0 |-> 0]
      OBVIOUS
    <3>2. IsSum(S, 0, ps)
      BY <3>1 DEF IsSum
    <3> QED
      BY <2>3, <2>4, <3>2
  <2>5. CASE k # 0
    <3>1. k - 1 \in Nat /\ k - 1 \notin Bad
      BY <2>2, <2>3, <2>5
    <3>2. PICK R : IsSum(R, k - 1, ps)
      BY <3>1
    <3>3. PICK x : x = R[k - 1] + P!Takes(ps[k])
      OBVIOUS
    <3>4. PICK S : S = [n \in 0..k |-> IF n = k THEN x ELSE R[n]]
      OBVIOUS
    <3>5. \A n \in 0..k : S[n] = IF n = 0 THEN 0 ELSE S[n - 1] + P!Takes(ps[n])
      <4> TAKE n \in 0..k
      <4>1. CASE n = k
        <5>1. S[n] = x /\ k - 1 \in 0..k /\ k - 1 # k /\ n # 0
          BY <2>3, <2>5, <3>4, <4>1
        <5>2. S[k - 1] = R[k - 1]
          BY <3>4, <5>1
        <5> QED
          BY <3>3, <4>1, <5>1, <5>2
      <4>2. CASE n # k
        <5>1. n \in 0..(k - 1) /\ S[n] = R[n]
          BY <2>3, <3>4, <4>2
        <5>2. R[n] = IF n = 0 THEN 0 ELSE R[n - 1] + P!Takes(ps[n])
          BY <3>2, <5>1 DEF IsSum
        <5>3. n # 0 => n - 1 \in 0..k /\ n - 1 # k
          BY <2>3, <5>1
        <5>4. n # 0 => S[n - 1] = R[n - 1]
          BY <3>4, <5>3
        <5> QED
          BY <5>1, <5>2, <5>4
      <4> QED
        BY <4>1, <4>2
    <3>6. S = [n \in 0..k |-> S[n]]
      BY <3>4
    <3>7. IsSum(S, k, ps)
      BY <3>5, <3>6, Zenon DEF IsSum
    <3> QED
      BY <2>3, <3>7
  <2> QED
    BY <2>4, <2>5
<1> QED
  BY <1>1, <1>2

\* The parameters of a method.
ParamsOK(ps) == /\ Len(ps) \in Nat /\ Len(ps) <= MaxParams /\ DOMAIN ps = 1..Len(ps)
                /\ \A i \in 1..Len(ps) : IsWhole(ps[i])

LEMMA SumsAre ==
    ASSUME NEW ps, ParamsOK(ps), NEW S, S = SumOf(ps)
    PROVE  /\ S[0] = 0
           /\ \A n \in 1..Len(ps) : S[n] = S[n - 1] + Room(ps[n])
           /\ \A n \in 0..Len(ps) : S[n] \in Nat
<1> DEFINE B == CHOOSE R : IsSum(R, Len(ps), ps)
<1>1. PICK N \in Nat : N = Len(ps)
  BY DEF ParamsOK
<1>2. \E R : IsSum(R, Len(ps), ps)
  BY <1>1, SumExists
<1>3. IsSum(B, Len(ps), ps)
  BY <1>2, Zenon
<1>4. S = B
  BY Zenon DEF SumOf, IsSum
<1>5. IsSum(S, N, ps)
  BY <1>1, <1>3, <1>4
<1> HIDE DEF B
<1>6. S[0] = 0 /\ \A n \in 1..N : S[n] = S[n - 1] + P!Takes(ps[n])
  <2>1. \A n \in 0..N : S[n] = IF n = 0 THEN 0 ELSE S[n - 1] + P!Takes(ps[n])
    BY <1>5 DEF IsSum
  <2> QED
    BY <1>1, <2>1
<1>7. \A n \in 1..N : P!Takes(ps[n]) = Room(ps[n]) /\ Room(ps[n]) \in Nat
  BY <1>1, TakesIs DEF ParamsOK
<1>8. \A n \in 1..N : S[n] = S[n - 1] + Room(ps[n])
  BY <1>6, <1>7
<1>9. \A n \in 0..N : S[n] \in Nat
  <2> DEFINE Bad == {n \in 0..N : S[n] \notin Nat}
  <2>1. CASE Bad = {}
    BY <2>1
  <2>2. CASE Bad # {}
    <3>1. Bad \subseteq Nat
      OBVIOUS
    <3>2. PICK k \in Bad : \A j \in Bad : k <= j
      BY <2>2, <3>1, LeastNumber
    <3>3. k \in 0..N /\ S[k] \notin Nat
      BY <3>2
    <3>4. k # 0
      BY <1>6, <3>3
    <3>5. k - 1 \in 0..N /\ k - 1 \notin Bad /\ k \in 1..N
      BY <1>1, <3>2, <3>3, <3>4
    <3>6. S[k - 1] \in Nat
      BY <3>5
    <3> HIDE DEF Bad
    <3> QED
      BY <1>7, <1>8, <3>3, <3>5, <3>6
  <2> QED
    BY <2>1, <2>2
<1> QED
  BY <1>1, <1>6, <1>8, <1>9

LEMMA SumsGrow ==
    ASSUME NEW ps, ParamsOK(ps), NEW n \in 0..Len(ps), NEW m \in 0..n
    PROVE  SumOf(ps)[m] <= SumOf(ps)[n]
<1> DEFINE S == SumOf(ps)
<1>1. PICK N \in Nat : N = Len(ps)
  BY DEF ParamsOK
<1> SUFFICES S[m] <= S[n]
  OBVIOUS
<1> HIDE DEF S
<1>2. /\ \A k \in 1..N : S[k] = S[k - 1] + Room(ps[k]) /\ Room(ps[k]) \in Nat
      /\ \A k \in 0..N : S[k] \in Nat
  <2>1. \A k \in 1..N : Room(ps[k]) \in Nat
    BY <1>1, TakesIs DEF ParamsOK
  <2>2. S = SumOf(ps)
    BY DEF S
  <2> QED
    BY <1>1, <2>1, <2>2, SumsAre
<1> DEFINE Bad == {k \in m..n : ~(S[m] <= S[k])}
<1>3. m \in Nat /\ n \in Nat /\ m <= n /\ n <= N
  BY <1>1
<1>4. CASE Bad = {}
  <2>1. n \in m..n
    BY <1>3
  <2> QED
    BY <1>1, <1>4, <2>1
<1>5. CASE Bad # {}
  <2>1. Bad \subseteq Nat
    BY <1>3
  <2>2. PICK k \in Bad : \A j \in Bad : k <= j
    BY <1>5, <2>1, LeastNumber
  <2>3. k \in m..n /\ ~(S[m] <= S[k])
    BY <2>2
  <2>4. k # m
    BY <1>2, <1>3, <2>3
  <2>5. k - 1 \in m..n /\ k - 1 \notin Bad /\ k \in 1..N /\ k - 1 \in 0..N /\ m \in 0..N
    BY <1>3, <2>2, <2>3, <2>4
  <2>6. S[m] <= S[k - 1]
    BY <2>5
  <2> HIDE DEF Bad
  <2> QED
    BY <1>2, <2>3, <2>5, <2>6
<1> QED
  BY <1>4, <1>5

-----------------------------------------------------------------------------
\* Writing into the buffer, making clones and deleting them.
BufferOK(b) == b = [p \in 1..MessageSize |-> b[p]]
ClonesOK(cl) == cl = [i \in 0..MaxParams |-> cl[i]]

LEMMA WritesCells ==
    ASSUME NEW b, BufferOK(b), NEW from \in Nat, NEW cells \in Seq(Cells), from + Len(cells) <= MessageSize,
           NEW w, w = P!Written(b, from, cells)
    PROVE  BufferOK(w) /\ HoldsAt(w, 1 + from, cells)
<1>1. PICK n \in Nat : n = Len(cells)
  OBVIOUS
<1>2. MessageSize \in Nat
  BY NamesAreSent
<1>3. w = [p \in 1..MessageSize |-> IF p > from /\ p <= from + n THEN cells[p - from] ELSE b[p]]
  BY <1>1 DEF P!Written, BufferOK
<1>4. \A j \in 1..n : w[(1 + from) + (j - 1)] = cells[j]
  <2> TAKE j \in 1..n
  <2>1. PICK p : p = (1 + from) + (j - 1)
    OBVIOUS
  <2>2. p \in 1..MessageSize /\ p > from /\ p <= from + n /\ p - from = j
    BY <1>1, <1>2, <2>1
  <2>3. w[p] = cells[p - from]
    BY <1>3, <2>2
  <2> QED
    BY <2>1, <2>2, <2>3
<1> QED
  BY <1>1, <1>3, <1>4 DEF HoldsAt, BufferOK

LEMMA WritesNoMore ==
    ASSUME NEW b, BufferOK(b), NEW from \in Nat, NEW cells, NEW p \in Nat \ {0}, NEW s, Len(s) \in Nat,
           p + Len(s) <= 1 + from, from <= MessageSize, HoldsAt(b, p, s)
    PROVE  HoldsAt(P!Written(b, from, cells), p, s)
<1>1. PICK n \in Nat : n = Len(s)
  OBVIOUS
<1>2. MessageSize \in Nat
  BY NamesAreSent
<1>3. PICK w : w = P!Written(b, from, cells)
  OBVIOUS
<1>4. w = [q \in 1..MessageSize |-> IF q > from /\ q <= from + Len(cells) THEN cells[q - from] ELSE b[q]]
  BY <1>3 DEF P!Written, BufferOK
<1>5. \A j \in 1..n : w[p + (j - 1)] = b[p + (j - 1)]
  <2> TAKE j \in 1..n
  <2>1. PICK q : q = p + (j - 1)
    OBVIOUS
  <2>2. q \in 1..MessageSize /\ ~(q > from)
    BY <1>1, <1>2, <2>1
  <2>3. w[q] = b[q]
    BY <1>4, <2>2
  <2> QED
    BY <2>1, <2>3
<1> QED
  BY <1>1, <1>3, <1>5 DEF HoldsAt

LEMMA MadeIs ==
    ASSUME ClonesOK(clones), NEW cells, NEW c \in 0..MaxParams, OfClone(cells, c), NEW cl, cl = P!Made(cells)
    PROVE  /\ ClonesOK(cl)
           /\ cl[c] = IF P!Clones(cells, c) THEN "alive" ELSE clones[c]
           /\ \A i \in 0..MaxParams : i # c => cl[i] = clones[i]
<1>1. DOMAIN clones = 0..MaxParams
  BY DEF ClonesOK
<1>2. cl = [i \in 0..MaxParams |-> IF P!Clones(cells, i) THEN "alive" ELSE clones[i]]
  BY <1>1 DEF P!Made
<1>3. \A i \in 0..MaxParams : cl[i] = IF P!Clones(cells, i) THEN "alive" ELSE clones[i]
  BY <1>2
<1>4. \A i \in 0..MaxParams : i # c => ~P!Clones(cells, i)
  BY DEF OfClone
<1>5. ClonesOK(cl)
  BY <1>2 DEF ClonesOK
<1> QED
  BY <1>3, <1>4, <1>5

LEMMA DeletedIs ==
    ASSUME ClonesOK(clones), NEW frees, NEW cl, cl = P!Deleted(frees)
    PROVE  /\ ClonesOK(cl)
           /\ \A i \in 0..MaxParams : cl[i] = IF i \notin frees THEN clones[i]
                                              ELSE IF clones[i] = "alive" THEN "deleted" ELSE "deleted_again"
<1>1. DOMAIN clones = 0..MaxParams
  BY DEF ClonesOK
<1>2. cl = [i \in 0..MaxParams |-> IF i \notin frees THEN clones[i]
                                   ELSE IF clones[i] = "alive" THEN "deleted" ELSE "deleted_again"]
  BY <1>1 DEF P!Deleted
<1> QED
  BY <1>2 DEF ClonesOK

-----------------------------------------------------------------------------
(***************************************************************************)
(* Packing: the state between two steps.                                   *)
(***************************************************************************)
\* The first n arguments may travel and fit; they are in the buffer, one behind the other;
\* the clones of the first m are deleted, those of the next alive.
Fit(ps, n) == SumOf(ps)[n] <= MessageSize /\ \A i \in 1..n : MayArrive(ps[i], "target")
Stored(b, ps, n) == \A i \in 1..n : HoldsAt(b, 1 + SumOf(ps)[i - 1], InBuffer(ps[i], i))
ClonesAre(cl, ps, m, n) ==
    \A i \in 0..MaxParams : cl[i] = IF i \in 1..n /\ HasText(ps[i])
                                    THEN (IF i <= m THEN "deleted" ELSE "alive") ELSE "not_made"
NotAgain(cl) == \A i \in 0..MaxParams : cl[i] # "deleted_again"
NoneAlive(cl) == \A i \in 1..MaxParams : cl[i] # "alive"
ResultGoes(it) == MayArrive(it.ret, "nobody") /\ Room(it.ret) <= MessageSize

LEMMA FitIsFine ==
    ASSUME ParamsOK(call.params), NEW n \in 0..Len(call.params)
    PROVE  P!Fine(n) <=> Fit(call.params, n)
<1>1. P!AllTake = SumOf(call.params)
  BY DEF P!AllTake, SumOf
<1>2. n <= Len(call.params) /\ Len(call.params) \in Nat
  BY DEF ParamsOK
<1>3. \A i \in 1..n : IsWhole(call.params[i])
  BY <1>2 DEF ParamsOK
<1>4. \A i \in 1..n : P!MayTravel(call.params[i], "target") <=> MayArrive(call.params[i], "target")
  BY <1>3, MayTravelIs
<1> QED
  BY <1>1, <1>4 DEF P!Fine, Fit

LEMMA StoredMore ==
    ASSUME NEW ps, ParamsOK(ps), NEW b, BufferOK(b), NEW n \in Nat, n < Len(ps), Stored(b, ps, n),
           SumOf(ps)[n + 1] <= MessageSize,
           NEW w, w = P!Written(b, SumOf(ps)[n], InBuffer(ps[n + 1], n + 1))
    PROVE  BufferOK(w) /\ Stored(w, ps, n + 1)
<1>1. PICK N \in Nat : N = Len(ps)
  BY DEF ParamsOK
<1>2. MessageSize \in Nat
  BY NamesAreSent
<1>3. n + 1 \in 1..N /\ n \in 0..N
  BY <1>1
<1>4. PICK from \in Nat : from = SumOf(ps)[n]
  BY <1>1, <1>3, SumsAre
<1>5. PICK cells : cells = InBuffer(ps[n + 1], n + 1)
  OBVIOUS
<1>6. IsWhole(ps[n + 1])
  BY <1>1, <1>3 DEF ParamsOK
<1>7. cells \in Seq(Cells) /\ Len(cells) = Room(ps[n + 1])
  BY <1>3, <1>5, <1>6, InBufferIs
<1>8. from + Len(cells) <= MessageSize
  <2>1. SumOf(ps)[n + 1] = SumOf(ps)[n] + Room(ps[n + 1])
    BY <1>1, <1>3, SumsAre
  <2> QED
    BY <1>4, <1>7, <2>1
<1>9. w = P!Written(b, from, cells)
  BY <1>4, <1>5
<1>10. BufferOK(w) /\ HoldsAt(w, 1 + from, cells)
  BY <1>7, <1>8, <1>9, WritesCells
<1>11. ASSUME NEW i \in 1..n
       PROVE  HoldsAt(w, 1 + SumOf(ps)[i - 1], InBuffer(ps[i], i))
  <2>1. i \in 1..N /\ i - 1 \in 0..N /\ i \in 0..n /\ i \in Nat
    BY <1>1, <1>3
  <2>2. PICK p \in Nat \ {0} : p = 1 + SumOf(ps)[i - 1]
    BY <1>1, <2>1, SumsAre
  <2>3. IsWhole(ps[i])
    BY <1>1, <2>1 DEF ParamsOK
  <2>4. PICK s : s = InBuffer(ps[i], i)
    OBVIOUS
  <2>5. s \in Seq(Cells) /\ Len(s) = Room(ps[i])
    BY <2>1, <2>3, <2>4, InBufferIs
  <2>6. SumOf(ps)[i] = SumOf(ps)[i - 1] + Room(ps[i]) /\ SumOf(ps)[i - 1] \in Nat
    BY <1>1, <2>1, SumsAre
  <2>7. SumOf(ps)[i] <= SumOf(ps)[n]
    BY <1>1, <1>3, <2>1, SumsGrow
  <2>8. Room(ps[i]) \in Nat
    BY <2>3, TakesIs
  <2>9. p + Len(s) <= 1 + from /\ Len(s) \in Nat /\ from <= MessageSize
    <3>1. from + Len(cells) <= MessageSize /\ Len(cells) \in Nat
      BY <1>7, <1>8
    <3>2. PICK before \in Nat, taken \in Nat : before = SumOf(ps)[i - 1] /\ taken = Room(ps[i])
      BY <2>6, <2>8
    <3>3. before + taken <= from
      BY <1>4, <2>6, <2>7, <3>2
    <3>4. p = 1 + before /\ Len(s) = taken
      BY <2>2, <2>5, <3>2
    <3>5. p + Len(s) <= 1 + from /\ Len(s) \in Nat
      BY ONLY <3>3, <3>4, from \in Nat, before \in Nat, taken \in Nat
    <3> QED
      BY ONLY <1>2, <3>1, <3>5, from \in Nat
  <2>10. HoldsAt(b, p, s)
    BY <2>2, <2>4 DEF Stored
  <2> QED
    BY <1>9, <2>2, <2>4, <2>9, <2>10, WritesNoMore
<1>12. ASSUME NEW i \in 1..(n + 1)
       PROVE  HoldsAt(w, 1 + SumOf(ps)[i - 1], InBuffer(ps[i], i))
  <2>1. CASE i = n + 1
    <3>1. i - 1 = n
      BY <2>1
    <3> QED
      BY <1>4, <1>5, <1>10, <2>1, <3>1
  <2>2. CASE i # n + 1
    <3>1. i \in 1..n
      BY <2>2
    <3> QED
      BY <1>11, <3>1
  <2> QED
    BY <2>1, <2>2
<1> QED
  BY <1>10, <1>12 DEF Stored

LEMMA WrittenStays ==
    ASSUME NEW b, BufferOK(b), NEW from, NEW cells PROVE BufferOK(P!Written(b, from, cells))
<1>1. PICK w : w = P!Written(b, from, cells)
  OBVIOUS
<1>2. w = [q \in 1..MessageSize |-> IF q > from /\ q <= from + Len(cells) THEN cells[q - from] ELSE b[q]]
  BY <1>1 DEF P!Written, BufferOK
<1> QED
  BY <1>1, <1>2 DEF BufferOK

LEMMA ClonesMore ==
    ASSUME ClonesOK(clones), NEW ps, ParamsOK(ps), NEW n \in Nat, n < Len(ps), ClonesAre(clones, ps, 0, n),
           MayArrive(ps[n + 1], "target"), NEW cl, cl = P!Made(InBuffer(ps[n + 1], n + 1))
    PROVE  ClonesOK(cl) /\ ClonesAre(cl, ps, 0, n + 1)
<1>1. PICK N \in Nat : N = Len(ps) /\ N <= MaxParams /\ MaxParams \in Nat
  BY NamesAreSent DEF ParamsOK
<1>2. n + 1 \in 1..N /\ n + 1 \in 0..MaxParams /\ n + 1 \in Nat
  BY <1>1
<1>3. IsWhole(ps[n + 1])
  BY <1>1, <1>2 DEF ParamsOK
<1>4. PICK cells : cells = InBuffer(ps[n + 1], n + 1)
  OBVIOUS
<1>5. P!Clones(cells, n + 1) <=> HasText(ps[n + 1])
  BY <1>2, <1>3, <1>4, InBufferIs
<1>6. OfClone(cells, n + 1)
  BY <1>2, <1>3, <1>4, InBufferIs DEF OfClone
<1>7. cl = P!Made(cells)
  BY <1>4
<1>8. /\ ClonesOK(cl)
      /\ cl[n + 1] = IF P!Clones(cells, n + 1) THEN "alive" ELSE clones[n + 1]
      /\ \A i \in 0..MaxParams : i # n + 1 => cl[i] = clones[i]
  BY <1>2, <1>6, <1>7, MadeIs
<1>9. clones[n + 1] = "not_made"
  BY <1>2 DEF ClonesAre
<1>10. ASSUME NEW i \in 0..MaxParams
       PROVE  cl[i] = IF i \in 1..(n + 1) /\ HasText(ps[i])
                      THEN (IF i <= 0 THEN "deleted" ELSE "alive") ELSE "not_made"
  <2>1. CASE i = n + 1
    BY <1>2, <1>5, <1>8, <1>9, <2>1
  <2>2. CASE i # n + 1
    <3>1. i \in 1..(n + 1) <=> i \in 1..n
      BY <2>2
    <3>2. cl[i] = clones[i]
      BY <1>8, <2>2
    <3> QED
      BY <3>1, <3>2 DEF ClonesAre
  <2> QED
    BY <2>1, <2>2
<1> QED
  BY <1>8, <1>10 DEF ClonesAre

LEMMA ClonesFewer ==
    ASSUME ClonesOK(clones), NEW ps, ParamsOK(ps), NEW m \in Nat, m < Len(ps),
           ClonesAre(clones, ps, m, Len(ps)), NEW frees, frees \subseteq Freed(ps[m + 1], m + 1),
           NEW cl, cl = P!Deleted(frees)
    PROVE  /\ ClonesOK(cl) /\ NotAgain(cl) /\ cl[0] = "not_made"
           /\ frees = Freed(ps[m + 1], m + 1) => ClonesAre(cl, ps, m + 1, Len(ps))
<1>1. PICK N \in Nat : N = Len(ps) /\ N <= MaxParams /\ MaxParams \in Nat
  BY NamesAreSent DEF ParamsOK
<1>2. m + 1 \in 1..N /\ m + 1 \in 0..MaxParams /\ m + 1 \in Nat /\ 0 \in 0..MaxParams
  BY <1>1
<1>3. /\ ClonesOK(cl)
      /\ \A i \in 0..MaxParams : cl[i] = IF i \notin frees THEN clones[i]
                                         ELSE IF clones[i] = "alive" THEN "deleted" ELSE "deleted_again"
  BY DeletedIs
<1>4. \A i \in 0..MaxParams : i # m + 1 => cl[i] = clones[i]
  BY <1>3 DEF Freed
<1>5. \A i \in 0..MaxParams : clones[i] = IF i \in 1..N /\ HasText(ps[i])
                                          THEN (IF i <= m THEN "deleted" ELSE "alive") ELSE "not_made"
  BY <1>1 DEF ClonesAre
<1>6. cl[0] = "not_made"
  BY <1>2, <1>4, <1>5
<1>7. cl[m + 1] = IF m + 1 \in frees THEN "deleted" ELSE clones[m + 1]
  <2>1. CASE m + 1 \in frees
    <3>1. HasText(ps[m + 1])
      BY <2>1 DEF Freed
    <3>2. clones[m + 1] = "alive"
      BY <1>2, <1>5, <3>1
    <3> QED
      BY <1>2, <1>3, <2>1, <3>2
  <2>2. CASE m + 1 \notin frees
    BY <1>2, <1>3, <2>2
  <2> QED
    BY <2>1, <2>2
<1>8. NotAgain(cl)
  <2> SUFFICES ASSUME NEW i \in 0..MaxParams PROVE cl[i] # "deleted_again"
    BY DEF NotAgain
  <2>1. clones[i] # "deleted_again"
    BY <1>5
  <2> QED
    BY <1>4, <1>7, <2>1
<1>9. ASSUME frees = Freed(ps[m + 1], m + 1), NEW i \in 0..MaxParams
      PROVE  cl[i] = IF i \in 1..N /\ HasText(ps[i])
                     THEN (IF i <= m + 1 THEN "deleted" ELSE "alive") ELSE "not_made"
  <2>1. CASE i = m + 1
    <3>1. m + 1 \in frees <=> HasText(ps[m + 1])
      BY <1>9 DEF Freed
    <3> QED
      BY <1>2, <1>5, <1>7, <2>1, <3>1
  <2>2. CASE i # m + 1
    <3>1. i <= m + 1 <=> i <= m
      BY <2>2
    <3> QED
      BY <1>4, <1>5, <2>2, <3>1
  <2> QED
    BY <2>1, <2>2
<1> QED
  BY <1>1, <1>3, <1>6, <1>8, <1>9 DEF ClonesAre

LEMMA ClonesMean ==
    ASSUME NEW cl, NEW ps, NEW m \in Nat, NEW n \in Nat, ClonesAre(cl, ps, m, n)
    PROVE  /\ NotAgain(cl) /\ cl[0] = "not_made"
           /\ m >= n => NoneAlive(cl)
<1>1. MaxParams \in Nat
  BY NamesAreSent
<1>2. NotAgain(cl) /\ cl[0] = "not_made"
  BY <1>1 DEF ClonesAre, NotAgain
<1>3. ASSUME m >= n, NEW i \in 1..MaxParams PROVE cl[i] # "alive"
  <2>1. i \in 0..MaxParams /\ (i \in 1..n => i <= m)
    BY <1>1, <1>3
  <2> QED
    BY <2>1 DEF ClonesAre
<1> QED
  BY <1>2, <1>3 DEF NoneAlive

Problems == {"none", "object_not_found", "not_found", "unknown_type", "no_boxed_class", "aborted"}
ArrivedOf(ps) == {P!Arrived(ps[i].value) : i \in 1..Len(ps)}
CallOK(it) == /\ ParamsOK(it.params) /\ it.nameLength \in Nat
              /\ it.ret # P!Void => IsWhole(it.ret) /\ it.async = FALSE
\* What the parts are, whoever is at work.
PackingData ==
    /\ CallOK(call) /\ BufferOK(buffer) /\ ClonesOK(clones) /\ problem \in Problems
    /\ packed \in 0..Len(call.params) /\ used \in Nat /\ used <= MessageSize
    /\ received \in Seq(ArrivedOf(call.params)) /\ Len(received) <= Len(call.params)
    /\ \A i \in 1..Len(received) : received[i] = P!Arrived(call.params[i].value)
    /\ read = SumOf(call.params)[Len(received)]
\* The caller packs the arguments.
PackingWrites ==
    server = "idle" =>
        /\ received = <<>> /\ problem = "none" /\ client \in {"flattening", "packing", "aborted"}
        /\ client = "flattening" => packed = 0
        /\ client \in {"flattening", "packing"} =>
              /\ Fit(call.params, packed) /\ used = SumOf(call.params)[packed]
              /\ Stored(buffer, call.params, packed) /\ ClonesAre(clones, call.params, 0, packed)
        /\ client = "aborted" => /\ call.nameLength > NameSize \/ ~Fit(call.params, packed)
                                 /\ Len(call.params) = 0 => used = 0
                                 /\ NotAgain(clones)
\* The target unpacks them.
PackingReads ==
    server # "idle" =>
        /\ Fit(call.params, Len(call.params)) /\ used = SumOf(call.params)[Len(call.params)]
        /\ client \in {"waiting", "done", "aborted"}
        /\ server = "sent" => received = <<>>
        /\ server \in {"sent", "unpacking"} =>
              /\ problem = "none" /\ Stored(buffer, call.params, Len(call.params))
              /\ ClonesAre(clones, call.params, Len(received), Len(call.params))
\* The target answers, and the caller takes the result.
PackingAnswers ==
    /\ server = "returning" => /\ clones[0] = "not_made" /\ NotAgain(clones) /\ problem # "aborted"
                               /\ problem = "none" => NoneAlive(clones)
    /\ server = "answered" /\ problem \in {"none", "aborted"} => NoneAlive(clones)
    /\ server = "broken" \/ call.ret = P!Void \/ ResultGoes(call) => NotAgain(clones)
    /\ server = "answered" /\ client = "waiting" /\ problem = "none" /\ call.ret # P!Void /\ ResultGoes(call) =>
          HoldsAt(buffer, 1, InBuffer(call.ret, 0)) /\ (HasText(call.ret) => clones[0] = "alive")
    /\ client = "done" /\ call.ret # P!Void /\ ResultGoes(call) => result = P!Arrived(call.ret.value)
PackingInv == PackingData /\ PackingWrites /\ PackingReads /\ PackingAnswers

LEMMA PackingMeans ==
    ASSUME PackingInv PROVE P!MessagesArrive
<1>1. PICK N \in Nat : N = Len(call.params)
  BY DEF PackingInv, PackingData, CallOK, ParamsOK
<1>2. ParamsOK(call.params)
  BY DEF PackingInv, PackingData, CallOK
<1>3. used <= MessageSize /\ problem \notin {"too_large", "invalid"}
  BY DEF PackingInv, PackingData, Problems
<1>4. client = "aborted" /\ server = "idle" => call.nameLength > NameSize \/ ~P!Fine(packed)
  <2>1. packed \in 0..Len(call.params)
    BY DEF PackingInv, PackingData
  <2>2. P!Fine(packed) <=> Fit(call.params, packed)
    BY <1>2, <2>1, FitIsFine
  <2> QED
    BY <2>2 DEF PackingInv, PackingWrites
<1>5. server # "idle" => P!Fine(Len(call.params))
  <2>1. N \in 0..Len(call.params)
    BY <1>1
  <2>2. P!Fine(N) <=> Fit(call.params, N)
    BY <1>2, <2>1, FitIsFine
  <2> QED
    BY <1>1, <2>2 DEF PackingInv, PackingReads
<1>6. \A i \in DOMAIN received : received[i] = P!Arrived(call.params[i].value)
  BY DEF PackingInv, PackingData
<1>7. Len(received) = Len(call.params) => read = used
  <2>1. CASE server # "idle"
    BY <2>1 DEF PackingInv, PackingData, PackingReads
  <2>2. CASE server = "idle" /\ Len(received) = Len(call.params)
    <3>1. Len(received) = 0 /\ N = 0
      BY <1>1, <2>2 DEF PackingInv, PackingWrites
    <3>2. packed = 0 /\ SumOf(call.params)[0] = 0
      BY <1>1, <1>2, <3>1, SumsAre DEF PackingInv, PackingData
    <3>3. used = 0
      BY <1>1, <2>2, <3>1, <3>2 DEF PackingInv, PackingWrites
    <3>4. read = 0
      BY <3>1, <3>2 DEF PackingInv, PackingData
    <3> QED
      BY <3>3, <3>4
  <2> QED
    BY <2>1, <2>2
<1>8. call.ret # P!Void => (P!FineResult <=> ResultGoes(call))
  <2> SUFFICES ASSUME call.ret # P!Void PROVE P!FineResult <=> ResultGoes(call)
    OBVIOUS
  <2>1. IsWhole(call.ret)
    BY DEF PackingInv, PackingData, CallOK
  <2> QED
    BY <2>1, TakesIs, MayTravelIs DEF P!FineResult, ResultGoes
<1>9. client = "done" /\ call.ret # P!Void /\ P!FineResult => result = P!Arrived(call.ret.value)
  BY <1>8 DEF PackingInv, PackingAnswers
<1>10. (\E c \in DOMAIN clones : clones[c] = "deleted_again") => ~P!FineResult
  <2>1. DOMAIN clones = 0..MaxParams
    BY DEF PackingInv, PackingData, ClonesOK
  <2> QED
    BY <1>8, <2>1 DEF PackingInv, PackingAnswers, NotAgain
<1>11. (server = "answered" /\ problem \in {"none", "aborted"}) => \A c \in 1..MaxParams : clones[c] # "alive"
  BY DEF PackingInv, PackingAnswers, NoneAlive
<1> QED
  BY <1>3, <1>4, <1>5, <1>6, <1>7, <1>9, <1>10, <1>11 DEF P!MessagesArrive

LEMMA PackingStarts ==
    ASSUME P!Init PROVE PackingInv
<1>1. PICK n \in 0..MaxParams, r \in P!Results, m \in BOOLEAN, l \in {NameSize - 1, NameSize, NameSize + 1} :
         \E ps \in [1..n -> P!Typed] :
            (m => r = P!Void) /\ call = [params |-> ps, ret |-> r, async |-> m, nameLength |-> l]
  BY DEF P!Init
<1>2. PICK ps \in [1..n -> P!Typed] :
         (m => r = P!Void) /\ call = [params |-> ps, ret |-> r, async |-> m, nameLength |-> l]
  BY <1>1
<1>3. n \in Nat /\ n <= MaxParams /\ l \in Nat /\ MessageSize \in Nat /\ MaxParams \in Nat
  BY NamesAreSent
<1>4. ps \in Seq(P!Typed) /\ Len(ps) = n
  BY <1>3
<1>5. \A i \in 1..n : IsWhole(ps[i])
  BY TypedAre
<1>6. ParamsOK(ps)
  BY <1>3, <1>4, <1>5 DEF ParamsOK
<1>7. r # P!Void => IsWhole(r) /\ m = FALSE
  BY <1>2, TypedAre DEF P!Results
<1>8. call.params = ps /\ call.ret = r /\ call.async = m /\ call.nameLength = l
  BY <1>2
<1>9. CallOK(call)
  BY <1>3, <1>6, <1>7, <1>8 DEF CallOK
<1>10. PICK S : S = SumOf(ps)
  OBVIOUS
<1>11. S[0] = 0
  BY <1>6, <1>10, SumsAre
<1>12. Fit(ps, 0) /\ Stored(buffer, ps, 0) /\ ClonesAre(clones, ps, 0, 0)
  <2>1. clones = [c \in 0..MaxParams |-> "not_made"]
    BY DEF P!Init
  <2> QED
    BY <1>3, <1>10, <1>11, <2>1 DEF Fit, Stored, ClonesAre
<1>13. BufferOK(buffer) /\ ClonesOK(clones)
  BY DEF P!Init, BufferOK, ClonesOK
<1>14. NotAgain(clones)
  BY <1>12, ClonesMean
<1>15. /\ client = "flattening" /\ server = "idle" /\ used = 0 /\ problem = "none"
       /\ packed = 0 /\ received = <<>> /\ read = 0
  BY DEF P!Init
<1>16. received \in Seq(ArrivedOf(ps)) /\ Len(received) = 0
  BY <1>15
<1>17. PackingData
  BY <1>3, <1>4, <1>8, <1>9, <1>10, <1>11, <1>13, <1>15, <1>16 DEF PackingData, Problems
<1>18. PackingWrites /\ PackingReads /\ PackingAnswers
  BY <1>8, <1>10, <1>11, <1>12, <1>14, <1>15 DEF PackingWrites, PackingReads, PackingAnswers
<1> QED
  BY <1>17, <1>18 DEF PackingInv

LEMMA PackingStays ==
    ASSUME PackingInv, UNCHANGED <<call, client, server, buffer, used, problem, packed, received, read,
                                   clones, result>>
    PROVE  PackingInv'
BY DEF PackingInv, PackingData, PackingWrites, PackingReads, PackingAnswers

LEMMA AfterFlatten ==
    ASSUME PackingInv, P!Flatten PROVE PackingInv'
<1>1. /\ client = "flattening" /\ client' \in {"aborted", "packing"}
      /\ client' = "aborted" => call.nameLength >= NameSize + 1
      /\ UNCHANGED <<call, server, buffer, used, problem, packed, received, read, clones, result>>
  BY DEF P!Flatten
<1>2. server = "idle"
  BY <1>1 DEF PackingInv, PackingReads
<1>3. packed = 0 /\ used = SumOf(call.params)[0] /\ ClonesAre(clones, call.params, 0, 0)
  BY <1>1, <1>2 DEF PackingInv, PackingWrites
<1>4. used = 0 /\ NotAgain(clones)
  BY <1>3, SumsAre, ClonesMean DEF PackingInv, PackingData, CallOK
<1>5. call.nameLength \in Nat /\ NameSize \in Nat
  BY NamesAreSent DEF PackingInv, PackingData, CallOK
<1>6. PackingData'
  BY <1>1 DEF PackingInv, PackingData
<1>7. PackingWrites'
  BY <1>1, <1>2, <1>4, <1>5 DEF PackingInv, PackingWrites
<1>8. PackingReads' /\ PackingAnswers'
  BY <1>1, <1>2, <1>4 DEF PackingInv, PackingReads, PackingAnswers
<1> QED
  BY <1>6, <1>7, <1>8 DEF PackingInv

LEMMA AfterSend ==
    ASSUME PackingInv, P!Send PROVE PackingInv'
<1>1. /\ client = "packing" /\ packed = Len(call.params) /\ client' \in {"waiting", "done"}
      /\ client' = "done" => call.async # FALSE
      /\ server' = "sent"
      /\ UNCHANGED <<call, buffer, used, problem, packed, received, read, clones, result>>
  BY DEF P!Send
<1>2. server = "idle"
  BY <1>1 DEF PackingInv, PackingReads
<1>3. /\ received = <<>> /\ problem = "none"
      /\ Fit(call.params, Len(call.params)) /\ used = SumOf(call.params)[Len(call.params)]
      /\ Stored(buffer, call.params, Len(call.params)) /\ ClonesAre(clones, call.params, 0, Len(call.params))
  BY <1>1, <1>2 DEF PackingInv, PackingWrites
<1>4. Len(received) = 0
  BY <1>3
<1>5. client' = "done" => call.ret = P!Void
  BY <1>1 DEF PackingInv, PackingData, CallOK
<1>6. NotAgain(clones)
  <2>1. Len(call.params) \in Nat
    BY DEF PackingInv, PackingData, CallOK, ParamsOK
  <2> QED
    BY <1>3, <2>1, ClonesMean
<1>7. PackingData'
  BY <1>1 DEF PackingInv, PackingData
<1>8. PackingWrites' /\ PackingReads'
  BY <1>1, <1>3, <1>4 DEF PackingWrites, PackingReads
<1>9. PackingAnswers'
  BY <1>1, <1>5, <1>6 DEF PackingAnswers
<1> QED
  BY <1>7, <1>8, <1>9 DEF PackingInv

LEMMA AfterFind ==
    ASSUME PackingInv, P!Find PROVE PackingInv'
<1>1. /\ server = "sent"
      /\ \/ server' = "unpacking" /\ problem' = problem
         \/ server' = "answered" /\ problem' = "object_not_found"
      /\ UNCHANGED <<call, client, buffer, used, packed, received, read, clones, result>>
  BY DEF P!Find
<1>2. problem = "none" /\ ClonesAre(clones, call.params, Len(received), Len(call.params))
  BY <1>1 DEF PackingInv, PackingReads
<1>3. NotAgain(clones)
  <2>1. Len(call.params) \in Nat /\ Len(received) \in Nat
    BY DEF PackingInv, PackingData, CallOK, ParamsOK
  <2> QED
    BY <1>2, <2>1, ClonesMean
<1>4. PackingData'
  BY <1>1 DEF PackingInv, PackingData, Problems
<1>5. PackingWrites' /\ PackingReads'
  BY <1>1 DEF PackingInv, PackingWrites, PackingReads
<1>6. PackingAnswers'
  BY <1>1, <1>2, <1>3 DEF PackingInv, PackingAnswers
<1> QED
  BY <1>4, <1>5, <1>6 DEF PackingInv

LEMMA AfterGiveUp ==
    ASSUME PackingInv, P!GiveUp PROVE PackingInv'
<1>1. /\ client = "waiting" /\ client' = "aborted"
      /\ UNCHANGED <<call, server, buffer, used, problem, packed, received, read, clones, result>>
  BY DEF P!GiveUp
<1>2. server # "idle"
  BY <1>1 DEF PackingInv, PackingWrites
<1>3. PackingData'
  BY <1>1 DEF PackingInv, PackingData
<1>4. PackingWrites' /\ PackingReads'
  BY <1>1, <1>2 DEF PackingInv, PackingWrites, PackingReads
<1>5. PackingAnswers'
  BY <1>1 DEF PackingInv, PackingAnswers
<1> QED
  BY <1>3, <1>4, <1>5 DEF PackingInv

LEMMA AfterPackArgument ==
    ASSUME PackingInv, P!PackArgument PROVE PackingInv'
<1> DEFINE p == P!Pack(call.params[packed + 1], MessageSize - used, "target", packed + 1)
<1>1. /\ client = "packing" /\ packed < Len(call.params)
      /\ buffer' = P!Written(buffer, used, p.cells)
      /\ clones' = P!Made(p.cells)
      /\ used' = used + Len(p.cells)
      /\ client' = IF p.error # "none" THEN "aborted" ELSE client
      /\ packed' = packed + 1
      /\ UNCHANGED <<call, server, problem, received, read, result>>
  BY DEF P!PackArgument
<1> HIDE DEF p
<1>2. server = "idle"
  BY <1>1 DEF PackingInv, PackingReads
<1>3. PICK ps, S : ps = call.params /\ S = SumOf(ps)
  OBVIOUS
<1>4. PICK N \in Nat : N = Len(ps) /\ ParamsOK(ps) /\ N <= MaxParams
  BY <1>3 DEF PackingInv, PackingData, CallOK, ParamsOK
<1>5. PICK n \in Nat : n = packed /\ n < N /\ n + 1 \in 1..N /\ n + 1 \in 0..MaxParams
  <2>1. MaxParams \in Nat /\ packed \in 0..N
    BY <1>3, <1>4, NamesAreSent DEF PackingInv, PackingData
  <2> QED
    BY <1>1, <1>3, <1>4, <2>1
<1>6. MessageSize \in Nat /\ used \in Nat /\ used <= MessageSize
  BY NamesAreSent DEF PackingInv, PackingData
<1>7. /\ received = <<>> /\ problem = "none" /\ Fit(ps, n) /\ used = S[n]
      /\ Stored(buffer, ps, n) /\ ClonesAre(clones, ps, 0, n)
  BY <1>1, <1>2, <1>3, <1>5 DEF PackingInv, PackingWrites
<1>8. BufferOK(buffer) /\ ClonesOK(clones)
  BY DEF PackingInv, PackingData
<1>9. PICK a : a = ps[n + 1] /\ IsWhole(a)
  BY <1>4, <1>5 DEF ParamsOK
<1>10. PICK room \in Nat : room = MessageSize - used
  BY <1>6
<1>11. p = P!Pack(a, room, "target", n + 1)
  BY <1>3, <1>5, <1>9, <1>10 DEF p
<1>12. n + 1 \in Nat
  OBVIOUS
<1>13. /\ MayArrive(a, "target") /\ Room(a) <= room =>
             p = [cells |-> InBuffer(a, n + 1), error |-> "none"]
       /\ ~(MayArrive(a, "target") /\ Room(a) <= room) => p.error # "none"
       /\ OfClone(p.cells, n + 1) /\ Len(p.cells) <= room
  BY <1>9, <1>11, <1>12, Packs
<1>14. PICK taken \in Nat : taken = Len(p.cells)
  BY <1>13 DEF OfClone
<1>15. used' \in Nat /\ used' <= MessageSize
  BY <1>1, <1>6, <1>10, <1>13, <1>14
<1>16. S[n + 1] = S[n] + Room(a) /\ S[n] \in Nat /\ S[0] = 0
  <2>1. (n + 1) - 1 = n /\ n \in 0..N
    BY <1>5
  <2> QED
    BY <1>3, <1>4, <1>5, <1>9, <2>1, SumsAre
<1>17. Room(a) \in Nat
  BY <1>9, TakesIs
<1>18. BufferOK(buffer')
  BY <1>1, <1>8, WrittenStays
<1>19. ClonesOK(clones') /\ NotAgain(clones')
  <2>1. /\ ClonesOK(clones')
        /\ clones'[n + 1] = IF P!Clones(p.cells, n + 1) THEN "alive" ELSE clones[n + 1]
        /\ \A i \in 0..MaxParams : i # n + 1 => clones'[i] = clones[i]
    BY <1>1, <1>5, <1>8, <1>13, MadeIs
  <2>2. NotAgain(clones)
    BY <1>7, ClonesMean
  <2> QED
    BY <1>5, <2>1, <2>2 DEF NotAgain
<1>20. PackingData'
  <2>1. packed' \in 0..N
    BY <1>1, <1>5
  <2>2. CallOK(call)' /\ (problem \in Problems)'
    BY <1>1 DEF PackingInv, PackingData
  <2>3. /\ received \in Seq(ArrivedOf(ps)) /\ Len(received) <= N
        /\ \A i \in 1..Len(received) : received[i] = P!Arrived(ps[i].value)
        /\ read = SumOf(ps)[Len(received)]
    BY <1>3, <1>4 DEF PackingInv, PackingData
  <2> QED
    BY <1>1, <1>3, <1>4, <1>15, <1>18, <1>19, <2>1, <2>2, <2>3 DEF PackingData
<1>21. PackingReads' /\ PackingAnswers'
  <2>1. server' = "idle" /\ client' \in {"packing", "aborted"}
    BY <1>1, <1>2
  <2> QED
    BY <1>1, <1>19, <2>1 DEF PackingReads, PackingAnswers
<1>22. PackingWrites'
  <2>1. CASE MayArrive(a, "target") /\ Room(a) <= room
    <3>1. p.cells = InBuffer(a, n + 1) /\ p.error = "none"
      BY <1>13, <2>1
    <3>2. used' = S[n + 1] /\ S[n + 1] <= MessageSize
      <4>1. Len(InBuffer(a, n + 1)) = Room(a)
        BY <1>9, <1>12, InBufferIs
      <4> QED
        BY <1>1, <1>6, <1>7, <1>10, <1>16, <1>17, <2>1, <3>1, <4>1
    <3>3. Fit(ps, n + 1)
      <4> SUFFICES ASSUME NEW i \in 1..(n + 1) PROVE MayArrive(ps[i], "target")
        BY <1>3, <3>2 DEF Fit
      <4>1. i = n + 1 \/ i \in 1..n
        OBVIOUS
      <4> QED
        BY <1>7, <1>9, <2>1, <4>1 DEF Fit
    <3>4. Stored(buffer', ps, n + 1)
      <4>1. buffer' = P!Written(buffer, SumOf(ps)[n], InBuffer(ps[n + 1], n + 1))
        BY <1>1, <1>3, <1>7, <1>9, <3>1
      <4>2. SumOf(ps)[n + 1] <= MessageSize /\ n < Len(ps)
        BY <1>3, <1>4, <1>5, <3>2
      <4> QED
        BY <1>4, <1>7, <1>8, <4>1, <4>2, StoredMore
    <3>5. ClonesAre(clones', ps, 0, n + 1)
      <4>1. clones' = P!Made(InBuffer(ps[n + 1], n + 1))
        BY <1>1, <1>9, <3>1
      <4>2. n < Len(ps) /\ MayArrive(ps[n + 1], "target")
        BY <1>4, <1>5, <1>9, <2>1
      <4> QED
        BY <1>4, <1>7, <1>8, <4>1, <4>2, ClonesMore
    <3>6. client' = "packing" /\ packed' = n + 1 /\ call'.params = ps /\ used' = SumOf(ps)[n + 1]
      BY <1>1, <1>3, <1>5, <3>1, <3>2
    <3> QED
      BY <1>1, <1>7, <3>3, <3>4, <3>5, <3>6 DEF PackingWrites
  <2>2. CASE ~(MayArrive(a, "target") /\ Room(a) <= room)
    <3>1. p.error # "none"
      BY <1>13, <2>2
    <3>2. ~Fit(ps, n + 1)
      <4>1. CASE ~MayArrive(a, "target")
        <5>1. n + 1 \in 1..(n + 1)
          OBVIOUS
        <5> QED
          BY <1>9, <4>1, <5>1 DEF Fit
      <4>2. CASE ~(Room(a) <= room)
        <5>1. ~(S[n + 1] <= MessageSize)
          BY <1>6, <1>7, <1>10, <1>16, <1>17, <4>2
        <5> QED
          BY <1>3, <5>1 DEF Fit
      <4> QED
        BY <2>2, <4>1, <4>2
    <3>3. client' = "aborted" /\ packed' = n + 1 /\ call'.params = ps
      BY <1>1, <1>3, <1>5, <3>1
    <3>4. Len(ps) # 0
      BY <1>4, <1>5
    <3> QED
      BY <1>1, <1>7, <1>19, <3>2, <3>3, <3>4 DEF PackingWrites
  <2> QED
    BY <2>1, <2>2
<1> QED
  BY <1>20, <1>21, <1>22 DEF PackingInv

LEMMA AfterUnpackArgument ==
    ASSUME PackingInv, P!UnpackArgument PROVE PackingInv'
<1> DEFINE u == P!Unpack(call.params[Len(received) + 1].type, read + 1, exported)
<1>1. /\ server = "unpacking" /\ Len(received) < Len(call.params)
      /\ clones' = P!Deleted(u.frees)
      /\ \/ /\ u.error = "none" /\ received' = Append(received, u.value) /\ read' = read + u.took
            /\ UNCHANGED <<server, problem>>
         \/ /\ u.error # "none" /\ problem' = u.error /\ server' \in {"returning", "broken"}
            /\ UNCHANGED <<received, read>>
      /\ UNCHANGED <<call, client, buffer, used, packed, result>>
  BY DEF P!UnpackArgument
<1> HIDE DEF u
<1>2. PICK ps, S : ps = call.params /\ S = SumOf(ps)
  OBVIOUS
<1>3. PICK N \in Nat : N = Len(ps) /\ ParamsOK(ps)
  BY <1>2 DEF PackingInv, PackingData, CallOK, ParamsOK
<1>4. received \in Seq(ArrivedOf(ps)) /\ \A i \in 1..Len(received) : received[i] = P!Arrived(ps[i].value)
  BY <1>2 DEF PackingInv, PackingData
<1>5. PICK m \in Nat : m = Len(received) /\ m < N /\ m + 1 \in 1..N
  BY <1>1, <1>2, <1>3, <1>4
<1>6. /\ Fit(ps, N) /\ used = S[N] /\ client \in {"waiting", "done", "aborted"}
      /\ problem = "none" /\ Stored(buffer, ps, N) /\ ClonesAre(clones, ps, m, N)
  BY <1>1, <1>2, <1>3, <1>5 DEF PackingInv, PackingReads
<1>7. read = S[m] /\ BufferOK(buffer) /\ ClonesOK(clones)
  BY <1>2, <1>5 DEF PackingInv, PackingData
<1>8. PICK a : a = ps[m + 1] /\ IsWhole(a) /\ MayArrive(a, "target")
  BY <1>3, <1>5, <1>6 DEF ParamsOK, Fit
<1>9. S[m + 1] = S[m] + Room(a) /\ S[m] \in Nat
  <2>1. (m + 1) - 1 = m /\ m \in 0..N
    BY <1>5
  <2> QED
    BY <1>2, <1>3, <1>5, <1>8, <2>1, SumsAre
<1>10. MessageSize \in Nat /\ Room(a) \in Nat /\ S[m + 1] <= S[N] /\ S[N] <= MessageSize
  <2>1. m + 1 \in 0..N /\ N \in 0..N
    BY <1>5
  <2>2. SumOf(ps)[m + 1] <= SumOf(ps)[N]
    BY <1>3, <2>1, SumsGrow
  <2> QED
    BY <1>2, <1>6, <1>8, <2>2, NamesAreSent, TakesIs DEF Fit
<1>11. PICK q \in Nat : q = read + 1
  BY <1>7, <1>9
<1>12. q + Room(a) <= MessageSize + 1
  <2>1. PICK before \in Nat, taken \in Nat, all \in Nat :
           before = S[m] /\ taken = Room(a) /\ all = S[N] /\ before + taken <= all
    <3>1. S[N] \in Nat
      BY <1>2, <1>3, SumsAre
    <3> QED
      BY <1>9, <1>10, <3>1
  <2> QED
    BY <1>7, <1>10, <1>11, <2>1
<1>13. HoldsAt(buffer, q, InBuffer(a, m + 1))
  <2>1. (m + 1) - 1 = m
    OBVIOUS
  <2>2. HoldsAt(buffer, 1 + S[m], InBuffer(ps[m + 1], m + 1))
    BY <1>2, <1>5, <1>6, <2>1 DEF Stored
  <2>3. q = 1 + S[m]
    BY <1>7, <1>9, <1>11
  <2> QED
    BY <1>8, <2>2, <2>3
<1>14. u = P!Unpack(a.type, q, exported)
  BY <1>2, <1>5, <1>8, <1>11 DEF u
<1>15. m + 1 \in Nat
  OBVIOUS
<1>16. ReadWell(u, a, m + 1)
  BY <1>8, <1>12, <1>13, <1>14, <1>15, Unpacks
<1>17. PICK frees : frees = u.frees
  OBVIOUS
<1>18. /\ ClonesOK(clones') /\ NotAgain(clones') /\ clones'[0] = "not_made"
       /\ frees = Freed(ps[m + 1], m + 1) => ClonesAre(clones', ps, m + 1, N)
  <2>1. frees \subseteq Freed(ps[m + 1], m + 1)
    BY <1>8, <1>16, <1>17 DEF ReadWell
  <2>2. clones' = P!Deleted(frees) /\ m < Len(ps) /\ ClonesAre(clones, ps, m, Len(ps))
    BY <1>1, <1>3, <1>5, <1>6, <1>17
  <2> QED
    BY <1>3, <1>7, <2>1, <2>2, ClonesFewer
<1>19. CASE u.error = "none"
  <2>1. received' = Append(received, u.value) /\ read' = read + u.took /\ UNCHANGED <<server, problem>>
    BY <1>1, <1>19
  <2>2. PICK x : x = u.value /\ x = P!Arrived(a.value)
    BY <1>16, <1>19 DEF ReadWell
  <2>3. u.took = Room(a) /\ frees = Freed(a, m + 1)
    BY <1>16, <1>17, <1>19 DEF ReadWell
  <2>4. x \in ArrivedOf(ps)
    BY <1>3, <1>5, <1>8, <2>2 DEF ArrivedOf
  <2>5. PICK V : V = ArrivedOf(ps) /\ received \in Seq(V) /\ x \in V
    BY <1>4, <2>4
  <2>6. received' = Append(received, x)
    BY <2>1, <2>2
  <2>7. /\ received' \in Seq(V) /\ Len(received') = m + 1
        /\ received'[m + 1] = x /\ \A i \in 1..m : received'[i] = received[i]
    BY <1>5, <2>5, <2>6
  <2>8. \A i \in 1..(m + 1) : received'[i] = P!Arrived(ps[i].value)
    <3> TAKE i \in 1..(m + 1)
    <3>1. i = m + 1 \/ i \in 1..m
      OBVIOUS
    <3> QED
      BY <1>4, <1>5, <1>8, <2>2, <2>7, <3>1
  <2>9. read' = S[m + 1]
    BY <1>7, <1>9, <2>1, <2>3
  <2>10. m + 1 <= N
    BY <1>5
  <2>11. PackingData'
    <3>1. /\ CallOK(call)' /\ BufferOK(buffer)' /\ ClonesOK(clones)' /\ (problem \in Problems)'
          /\ (packed \in 0..Len(call.params))' /\ (used \in Nat)' /\ (used <= MessageSize)'
      BY <1>1, <1>18, <2>1 DEF PackingInv, PackingData
    <3>2. call'.params = ps
      BY <1>1, <1>2
    <3> QED
      BY <1>2, <1>3, <2>5, <2>7, <2>8, <2>9, <2>10, <3>1, <3>2 DEF PackingData
  <2>12. ClonesAre(clones', ps, m + 1, N)
    BY <1>8, <1>18, <2>3
  <2>13. server' = "unpacking" /\ problem' = "none"
    BY <1>1, <1>6, <2>1
  <2>14. PackingWrites' /\ PackingReads'
    BY <1>1, <1>2, <1>3, <1>6, <2>7, <2>12, <2>13 DEF PackingWrites, PackingReads
  <2>15. PackingAnswers'
    BY <1>1, <1>18, <2>13 DEF PackingInv, PackingAnswers
  <2> QED
    BY <2>11, <2>14, <2>15 DEF PackingInv
<1>20. CASE u.error # "none"
  <2>1. problem' = u.error /\ server' \in {"returning", "broken"} /\ UNCHANGED <<received, read>>
    BY <1>1, <1>20
  <2>2. problem' \in {"not_found", "unknown_type", "no_boxed_class"}
    BY <1>16, <1>20, <2>1 DEF ReadWell
  <2>3. PackingData'
    BY <1>1, <1>18, <2>1, <2>2 DEF PackingInv, PackingData, Problems
  <2>4. PackingWrites' /\ PackingReads'
    BY <1>1, <1>2, <1>3, <1>6, <2>1 DEF PackingWrites, PackingReads
  <2>5. PackingAnswers'
    BY <1>1, <1>18, <2>1, <2>2 DEF PackingInv, PackingAnswers
  <2> QED
    BY <2>3, <2>4, <2>5 DEF PackingInv
<1> QED
  BY <1>19, <1>20

LEMMA AfterInvoke ==
    ASSUME PackingInv, P!Invoke PROVE PackingInv'
<1>1. /\ server = "unpacking" /\ Len(received) = Len(call.params)
      /\ \/ server' = "returning" /\ problem' = problem
         \/ server' = "answered" /\ problem' = "aborted"
      /\ UNCHANGED <<call, client, buffer, used, packed, received, read, clones, result>>
  BY DEF P!Invoke
<1>2. problem = "none" /\ ClonesAre(clones, call.params, Len(received), Len(call.params))
  BY <1>1 DEF PackingInv, PackingReads
<1>3. NotAgain(clones) /\ NoneAlive(clones) /\ clones[0] = "not_made"
  <2>1. PICK n \in Nat : n = Len(call.params) /\ n = Len(received)
    BY <1>1 DEF PackingInv, PackingData, CallOK, ParamsOK
  <2>2. ClonesAre(clones, call.params, n, n) /\ n >= n
    BY <1>2, <2>1
  <2> QED
    BY <2>2, ClonesMean
<1>4. PackingData'
  BY <1>1 DEF PackingInv, PackingData, Problems
<1>5. PackingWrites' /\ PackingReads'
  BY <1>1 DEF PackingInv, PackingWrites, PackingReads
<1>6. PackingAnswers'
  <2>1. client = "done" /\ call.ret # P!Void /\ ResultGoes(call) => result = P!Arrived(call.ret.value)
    BY DEF PackingInv, PackingAnswers
  <2>2. server' # "broken" /\ (server' = "answered" => problem' # "none")
    BY <1>1
  <2> QED
    BY <1>1, <1>2, <1>3, <2>1, <2>2 DEF PackingAnswers
<1> QED
  BY <1>4, <1>5, <1>6 DEF PackingInv

LEMMA AfterPackResult ==
    ASSUME PackingInv, P!PackResult PROVE PackingInv'
<1> DEFINE p == P!Pack(call.ret, MessageSize, "nobody", 0)
<1>1. /\ server = "returning"
      /\ UNCHANGED <<call, client, used, problem, packed, received, read, result>>
      /\ \/ /\ call.ret = P!Void \/ problem # "none"
            /\ server' = "answered" /\ UNCHANGED <<buffer, clones>>
         \/ /\ problem # "none" /\ server' = "broken" /\ UNCHANGED <<buffer, clones>>
         \/ /\ call.ret # P!Void /\ problem = "none" /\ server' = "answered"
            /\ buffer' = P!Written(buffer, 0, p.cells) /\ clones' = P!Made(p.cells)
  BY DEF P!PackResult
<1> HIDE DEF p
<1>2. /\ clones[0] = "not_made" /\ NotAgain(clones) /\ problem # "aborted"
      /\ problem = "none" => NoneAlive(clones)
  BY <1>1 DEF PackingInv, PackingAnswers
<1>3. client = "done" /\ call.ret # P!Void /\ ResultGoes(call) => result = P!Arrived(call.ret.value)
  BY DEF PackingInv, PackingAnswers
<1>4. PackingWrites' /\ PackingReads'
  BY <1>1 DEF PackingInv, PackingWrites, PackingReads
<1>5. CASE UNCHANGED <<buffer, clones>> /\ (call.ret = P!Void \/ problem # "none")
  <2>1. PackingData'
    BY <1>1, <1>5 DEF PackingInv, PackingData
  <2>2. PackingAnswers'
    BY <1>1, <1>2, <1>3, <1>5 DEF PackingAnswers
  <2> QED
    BY <1>4, <2>1, <2>2 DEF PackingInv
<1>6. CASE /\ call.ret # P!Void /\ problem = "none" /\ server' = "answered"
           /\ buffer' = P!Written(buffer, 0, p.cells) /\ clones' = P!Made(p.cells)
  <2>1. BufferOK(buffer) /\ ClonesOK(clones) /\ MessageSize \in Nat /\ MaxParams \in Nat
    BY NamesAreSent DEF PackingInv, PackingData
  <2>2. PICK a : a = call.ret /\ IsWhole(a)
    BY <1>6 DEF PackingInv, PackingData, CallOK
  <2>3. /\ MayArrive(a, "nobody") /\ Room(a) <= MessageSize => p = [cells |-> InBuffer(a, 0), error |-> "none"]
        /\ OfClone(p.cells, 0) /\ Len(p.cells) <= MessageSize
    <3>1. p = P!Pack(a, MessageSize, "nobody", 0)
      BY <2>2 DEF p
    <3> QED
      BY <2>1, <2>2, <3>1, Packs
  <2>4. /\ ClonesOK(clones') /\ clones'[0] = (IF P!Clones(p.cells, 0) THEN "alive" ELSE clones[0])
        /\ \A i \in 0..MaxParams : i # 0 => clones'[i] = clones[i]
    <3>1. 0 \in 0..MaxParams
      BY <2>1
    <3> QED
      BY <1>6, <2>1, <2>3, <3>1, MadeIs
  <2>5. NotAgain(clones') /\ NoneAlive(clones')
    <3>1. \A i \in 1..MaxParams : i \in 0..MaxParams /\ i # 0
      BY <2>1
    <3> QED
      BY <1>2, <1>6, <2>4, <3>1 DEF NotAgain, NoneAlive
  <2>6. BufferOK(buffer')
    BY <1>6, <2>1, WrittenStays
  <2>7. PackingData'
    BY <1>1, <2>4, <2>6 DEF PackingInv, PackingData
  <2>8. ASSUME ResultGoes(call)
        PROVE  HoldsAt(buffer', 1, InBuffer(call.ret, 0)) /\ (HasText(call.ret) => clones'[0] = "alive")
    <3>1. MayArrive(a, "nobody") /\ Room(a) <= MessageSize
      BY <2>2, <2>8 DEF ResultGoes
    <3>2. PICK cells : cells = InBuffer(a, 0)
      OBVIOUS
    <3>3. p.cells = cells
      BY <2>3, <3>1, <3>2
    <3>4. cells \in Seq(Cells) /\ Len(cells) = Room(a) /\ (P!Clones(cells, 0) <=> HasText(a))
      BY <2>2, <3>1, <3>2, InBufferIs
    <3>5. 0 + Len(cells) <= MessageSize
      BY <3>1, <3>4
    <3>6. buffer' = P!Written(buffer, 0, cells)
      BY <1>6, <3>3
    <3>7. HoldsAt(buffer', 1 + 0, cells)
      BY <2>1, <3>4, <3>5, <3>6, WritesCells
    <3>8. 1 + 0 = 1
      OBVIOUS
    <3> QED
      BY <2>2, <2>4, <3>2, <3>3, <3>4, <3>7, <3>8
  <2>9. PackingAnswers'
    BY <1>1, <1>3, <1>6, <2>5, <2>8 DEF PackingAnswers
  <2> QED
    BY <1>4, <2>7, <2>9 DEF PackingInv
<1> QED
  BY <1>1, <1>5, <1>6

LEMMA AfterReceive ==
    ASSUME PackingInv, P!Receive PROVE PackingInv'
<1> DEFINE u == P!Unpack(call.ret.type, 1, {})
<1>1. /\ client = "waiting" /\ server = "answered"
      /\ UNCHANGED <<call, server, buffer, used, problem, packed, received, read>>
      /\ \/ client' = "aborted" /\ UNCHANGED <<result, clones>>
         \/ call.ret = P!Void /\ client' = "done" /\ UNCHANGED <<result, clones>>
         \/ /\ problem = "none" /\ call.ret # P!Void
            /\ clones' = P!Deleted(u.frees) /\ result' = u.value
            /\ client' = IF u.error = "none" THEN "done" ELSE "aborted"
  BY DEF P!Receive
<1> HIDE DEF u
<1>2. PackingWrites' /\ PackingReads'
  BY <1>1 DEF PackingInv, PackingWrites, PackingReads
<1>3. CASE UNCHANGED <<result, clones>> /\ (client' = "done" => call.ret = P!Void) /\ client' # "waiting"
  <2>1. PackingData'
    BY <1>1, <1>3 DEF PackingInv, PackingData
  <2>2. PackingAnswers'
    BY <1>1, <1>3 DEF PackingInv, PackingAnswers
  <2> QED
    BY <1>2, <2>1, <2>2 DEF PackingInv
<1>4. CASE /\ problem = "none" /\ call.ret # P!Void
           /\ clones' = P!Deleted(u.frees) /\ result' = u.value
           /\ client' = IF u.error = "none" THEN "done" ELSE "aborted"
  <2>1. ClonesOK(clones) /\ MessageSize \in Nat /\ MaxParams \in Nat
    BY NamesAreSent DEF PackingInv, PackingData
  <2>2. PICK frees : frees = u.frees /\ clones' = P!Deleted(frees)
    BY <1>4
  <2>3. /\ ClonesOK(clones')
        /\ \A i \in 0..MaxParams : clones'[i] = IF i \notin frees THEN clones[i]
                                                ELSE IF clones[i] = "alive" THEN "deleted" ELSE "deleted_again"
    BY <2>1, <2>2, DeletedIs
  <2>4. NoneAlive(clones) /\ (ResultGoes(call) => NotAgain(clones))
    BY <1>1, <1>4 DEF PackingInv, PackingAnswers
  <2>5. NoneAlive(clones')
    <3> SUFFICES ASSUME NEW i \in 1..MaxParams PROVE clones'[i] # "alive"
      BY DEF NoneAlive
    <3>1. i \in 0..MaxParams /\ clones[i] # "alive"
      BY <2>1, <2>4 DEF NoneAlive
    <3> QED
      BY <2>3, <3>1
  <2>6. PackingData'
    BY <1>1, <2>3 DEF PackingInv, PackingData
  <2>7. ASSUME ResultGoes(call)
        PROVE  NotAgain(clones') /\ (client' = "done" => result' = P!Arrived(call.ret.value))
    <3>1. PICK a : a = call.ret /\ IsWhole(a) /\ MayArrive(a, "nobody") /\ Room(a) <= MessageSize
      BY <1>4, <2>7 DEF PackingInv, PackingData, CallOK, ResultGoes
    <3>2. HoldsAt(buffer, 1, InBuffer(a, 0)) /\ (HasText(a) => clones[0] = "alive")
      BY <1>1, <1>4, <2>7, <3>1 DEF PackingInv, PackingAnswers
    <3>3. 1 + Room(a) <= MessageSize + 1
      <4>1. Room(a) \in Nat
        BY <3>1, TakesIs
      <4> QED
        BY <2>1, <3>1, <4>1
    <3>4. u = P!Unpack(a.type, 1, {})
      BY <3>1 DEF u
    <3>5. ReadWell(u, a, 0)
      BY <3>1, <3>2, <3>3, <3>4, Unpacks
    <3>6. NotAgain(clones')
      <4> SUFFICES ASSUME NEW i \in 0..MaxParams PROVE clones'[i] # "deleted_again"
        BY DEF NotAgain
      <4>1. clones[i] # "deleted_again"
        BY <2>4, <2>7 DEF NotAgain
      <4>2. i \in frees => clones[i] = "alive"
        BY <2>2, <3>2, <3>5 DEF ReadWell, Freed
      <4> QED
        BY <2>3, <4>1, <4>2
    <3>7. client' = "done" => u.error = "none"
      BY <1>4
    <3>8. client' = "done" => result' = P!Arrived(a.value)
      BY <1>4, <3>5, <3>7 DEF ReadWell
    <3> QED
      BY <3>1, <3>6, <3>8
  <2>8. PackingAnswers'
    <3>1. server' = "answered" /\ client' # "waiting" /\ call' = call
      BY <1>1, <1>4
    <3> QED
      BY <1>4, <2>5, <2>7, <3>1 DEF PackingAnswers
  <2> QED
    BY <1>2, <2>6, <2>8 DEF PackingInv
<1> QED
  BY <1>1, <1>3, <1>4

LEMMA PackingNext ==
    ASSUME PackingInv, [P!Next]_packingVars PROVE PackingInv'
<1>1. CASE UNCHANGED packingVars
  BY <1>1, PackingStays DEF packingVars
<1>2. CASE P!Unexport
  BY <1>2, PackingStays DEF P!Unexport
<1>3. CASE P!Flatten \/ P!PackArgument \/ P!Send \/ P!Find \/ P!UnpackArgument \/ P!Invoke
           \/ P!PackResult \/ P!Receive \/ P!GiveUp
  BY <1>3, AfterFlatten, AfterPackArgument, AfterSend, AfterFind, AfterUnpackArgument, AfterInvoke,
     AfterPackResult, AfterReceive, AfterGiveUp
<1> QED
  BY <1>1, <1>2, <1>3 DEF P!Next

\* Whatever the size of a message, the names and the number of parameters, and whoever gives
\* up meanwhile: arguments that may travel and fit are unpacked as they were packed, others are
\* refused, and no clone of a text is deleted twice or left (CClass::SerializeForRemoting,
\* _soX_unpack, CDomain::Listen).
THEOREM ArgumentsArrive == MCSpec => []MessagesArrive
<1> DEFINE Inv == which = "message" => PackingInv
<1>1. MCInit => Inv
  BY PackingStarts DEF MCInit
<1>2. Inv /\ [MCNext]_allVars => Inv'
  <2> SUFFICES ASSUME Inv, [MCNext]_allVars, which' = "message" PROVE PackingInv'
    OBVIOUS
  <2>1. which = "message"
    BY DEF MCNext, allVars
  <2>2. [P!Next]_packingVars
    BY <2>1 DEF MCNext, allVars
  <2> QED
    BY <2>1, <2>2, PackingNext
<1>3. Inv => MessagesArrive
  BY PackingMeans DEF MessagesArrive
<1> QED
  BY <1>1, <1>2, <1>3, PTL DEF MCSpec
=============================================================================
