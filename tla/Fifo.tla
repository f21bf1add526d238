--------------------------------- MODULE Fifo ---------------------------------
(***************************************************************************)
(* What a queue promises: the values come out in the order they went in,   *)
(* and all of them can be thrown away at once.                             *)
(***************************************************************************)
EXTENDS Sequences

CONSTANT Values

\* The values in the queue, the oldest one first, and those the last operation
\* handed out.
VARIABLES items, taken
vars == <<items, taken>>

Init == items = <<>> /\ taken = <<>>

Put(v) == items' = Append(items, v) /\ taken' = <<>>

Take == /\ items # <<>>
        /\ items' = Tail(items)
        /\ taken' = <<Head(items)>>

Empty == items' = <<>> /\ taken' = items

Next == (\E v \in Values : Put(v)) \/ Take \/ Empty

Spec == Init /\ [][Next]_vars
=============================================================================
