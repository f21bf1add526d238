------------------------------- MODULE Event -------------------------------
(***************************************************************************)
(* What a CWaitObject promises to the threads that wait on it and pulse    *)
(* it.  A wait object is one bit.  Pulse() sets it; CThread::Wait returns  *)
(* TRUE to a thread that finds it set, and FALSE to one whose time is up.  *)
(*                                                                         *)
(* Sticky = TRUE is the kernel event of WaitObject.win32.cpp: SetEvent     *)
(* leaves the bit set until a waiter consumes it (auto reset) or for good  *)
(* (manual reset).  Sticky = FALSE lets the pulser itself take the bit     *)
(* back, which is what WaitObject.unix.cpp does (module WaitObject).       *)
(***************************************************************************)
EXTENDS Naturals

CONSTANTS Waiters,    \* the threads that call CThread::Wait
          AutoReset,  \* CWaitObject(_, resetAutomatically)
          Sticky      \* a pulse stays until a waiter consumes it

VARIABLES signalled,  \* the state of the event
          inside,     \* the threads inside CThread::Wait, ...
          through     \* ... and those it is about to return TRUE to

vars == <<signalled, inside, through>>

Init == signalled = FALSE /\ inside = {} /\ through = {}

\* A thread calls CThread::Wait.
Enter(w) == /\ w \notin inside \cup through
            /\ inside' = inside \cup {w}
            /\ UNCHANGED <<signalled, through>>

\* WAIT_OBJECT_0: the waiter proceeds, and resets an automatic event.
Proceed(w) == /\ w \in inside
              /\ signalled
              /\ signalled' = ~AutoReset
              /\ inside' = inside \ {w}
              /\ through' = through \cup {w}

\* It returns TRUE.
Return(w) == /\ w \in through
             /\ through' = through \ {w}
             /\ UNCHANGED <<signalled, inside>>

\* WAIT_TIMEOUT: it returns FALSE, and nothing is consumed.
GiveUp(w) == /\ w \in inside
             /\ inside' = inside \ {w}
             /\ UNCHANGED <<signalled, through>>

\* SetEvent: setting an event that is already set has no effect.
Pulse == signalled' = TRUE /\ UNCHANGED <<inside, through>>

\* The pulser takes the signal back, whether or not anybody saw it.
Retract == /\ ~Sticky
           /\ signalled' = FALSE
           /\ UNCHANGED <<inside, through>>

Next == \/ \E w \in Waiters : Enter(w) \/ Proceed(w) \/ Return(w) \/ GiveUp(w)
        \/ Pulse
        \/ Retract

Spec == Init /\ [][Next]_vars
=============================================================================
