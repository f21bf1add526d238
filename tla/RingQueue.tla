------------------------------- MODULE RingQueue -------------------------------
(***************************************************************************)
(* The ring buffer of CQueue (src/src/Queue.h), which holds the messages   *)
(* of a domain and the classes the transformer has still to process.       *)
(***************************************************************************)
EXTENDS Integers, Sequences

CONSTANTS Values,   \* what can be put into the queue
          Junk,     \* what is in an element nobody has written yet
          InitCap,  \* the capacity it is made with
          Limit     \* bound: the values in it at one time

ASSUME QueueAssumption == InitCap \in Nat \ {0} /\ Junk \notin Values /\ Limit \in Nat

VARIABLES size, front, back, length,    \* m_size, m_front, m_back, m_theArrayLength
          array,                        \* m_theArray
          out                           \* what the last operation handed out
vars == <<size, front, back, length, array, out>>

Increment(x) == IF x + 1 = length THEN 0 ELSE x + 1

\* Where the i-th value is, from 0: m_front incremented i times.
At(i) == IF front + i < length THEN front + i ELSE front + i - length
Contents == [i \in 1..size |-> array[At(i - 1)]]

Init == /\ size = 0 /\ front = 0 /\ back = -1
        /\ length = InitCap
        /\ array = [i \in 0..(InitCap - 1) |-> Junk]
        /\ out = <<>>

\* Mutant of Grow: m_front stays where it was.
GrowInPlace(v) ==
    /\ size = length
    /\ length' = 2 * length
    /\ front' = front
    /\ back' = size
    /\ array' = [i \in 0..(2 * length - 1) |->
                    IF i < size THEN array[At(i)] ELSE IF i = size THEN v ELSE Junk]

\* doubleQueue, and then the new value.
Grow(v) ==
    /\ size = length
    /\ length' = 2 * length
    /\ front' = 0
    /\ back' = size
    /\ array' = [i \in 0..(2 * length - 1) |->
                    IF i < size THEN array[At(i)] ELSE IF i = size THEN v ELSE Junk]

\* Mutant of Write: m_back runs over the end.
WriteFurther(v) ==
    /\ size < length
    /\ back' = back + 1
    /\ array' = [array EXCEPT ![back'] = v]
    /\ UNCHANGED <<front, length>>

Write(v) ==
    /\ size < length
    /\ back' = Increment(back)
    /\ array' = [array EXCEPT ![back'] = v]
    /\ UNCHANGED <<front, length>>

Enqueue(v) ==
    /\ size < Limit
    /\ Grow(v) \/ Write(v)
    /\ size' = size + 1
    /\ out' = <<>>

\* Dequeue throws when the queue is empty.
Dequeue ==
    /\ size > 0
    /\ size' = size - 1
    /\ out' = <<array[front]>>
    /\ front' = Increment(front)
    /\ UNCHANGED <<back, length, array>>

\* Mutant of Clear: m_back stays where it was.
ClearKeepsBack ==
    /\ out' = Contents
    /\ size' = 0 /\ front' = 0
    /\ UNCHANGED <<back, length, array>>

Clear ==
    /\ out' = Contents
    /\ size' = 0 /\ front' = 0 /\ back' = -1
    /\ UNCHANGED <<length, array>>

Next == (\E v \in Values : Enqueue(v)) \/ Dequeue \/ Clear

Spec == Init /\ [][Next]_vars

-----------------------------------------------------------------------------
TypeOK == /\ length \in Nat \ {0}
          /\ size \in 0..length
          /\ front \in 0..(length - 1)
          /\ back \in -1..(length - 1)
          /\ array \in [0..(length - 1) -> Values \cup {Junk}]
          /\ out \in Seq(Values)

\* The next value goes behind the last one, wherever the ring has wrapped, also
\* when it is full or the front has run ahead of m_back.
Contiguous == Increment(back) = At(size)

\* The ring buffer hands out its values in order, also when it has grown while it
\* was wrapped around the end of the array.
F == INSTANCE Fifo WITH items <- Contents, taken <- out
IsFifo == F!Spec
=============================================================================
