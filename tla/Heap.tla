--------------------------------- MODULE Heap ---------------------------------
(***************************************************************************)
(* What an allocator promises its collector: fresh pointers, a test of     *)
(* whether any word points to an object, and a walk over all objects       *)
(* during which some of them may be given up; those are freed when it has  *)
(* ended, before anything else is done.                                    *)
(***************************************************************************)
EXTENDS Naturals, FiniteSets

CONSTANTS Pointers, None

\* The objects, those given up and not yet freed, those the walk has still to visit,
\* whether there is a walk, and what the last operation has given or visited.
VARIABLES objects, givenUp, toVisit, walking, last
vars == <<objects, givenUp, toVisit, walking, last>>

Init == /\ objects = {} /\ givenUp = {} /\ toVisit = {}
        /\ walking = FALSE
        /\ last = None

Idle == ~walking /\ givenUp = {}

Allocate(p) ==
    /\ last' = p
    /\ Idle /\ p \notin objects
    /\ objects' = objects \cup {p}
    /\ UNCHANGED <<givenUp, toVisit, walking>>

Free(p) ==
    /\ last' = None
    /\ Idle /\ p \in objects
    /\ objects' = objects \ {p}
    /\ UNCHANGED <<givenUp, toVisit, walking>>

StartWalk == /\ Idle /\ walking' = TRUE
             /\ toVisit' = objects
             /\ last' = None
             /\ UNCHANGED <<objects, givenUp>>

\* The object stays, or is given up.
Visit(p) == /\ last' = p
            /\ walking /\ p \in toVisit
            /\ toVisit' = toVisit \ {p}
            /\ givenUp' \in {givenUp, givenUp \cup {p}}
            /\ UNCHANGED <<objects, walking>>

\* It ends when nothing is left to visit, or because the visitor throws.
EndWalk == /\ walking /\ walking' = FALSE
           /\ toVisit = {} \/ last # None
           /\ toVisit' = {} /\ last' = None
           /\ UNCHANGED <<objects, givenUp>>

\* What was given up is freed.
Release(p) == /\ ~walking /\ p \in givenUp
              /\ givenUp' = givenUp \ {p}
              /\ objects' = objects \ {p}
              /\ UNCHANGED <<toVisit, walking, last>>

Next == \/ \E p \in Pointers : Allocate(p) \/ Free(p) \/ Visit(p) \/ Release(p)
        \/ StartWalk \/ EndWalk

Spec == Init /\ [][Next]_vars
=============================================================================
