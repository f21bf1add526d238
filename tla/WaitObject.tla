----------------------------- MODULE WaitObject -----------------------------
(***************************************************************************)
(* The POSIX implementation of CWaitObject: a boolean guarded by a mutex,  *)
(* and a condition variable (src/src/native/unix/WaitObject.unix.cpp).     *)
(*                                                                         *)
(* A pulser runs setEvent (lock, set, unlock, signal) and then resetEvent  *)
(* (lock, clear, unlock).  A waiter locks, sleeps on the condition while   *)
(* the bit is clear, and unlocks.  Every lock, unlock, sleep, wake-up and  *)
(* signal is a step of its own.                                            *)
(***************************************************************************)
EXTENDS Naturals, FiniteSets

CONSTANTS Waiters, Pulsers,  \* the threads on either side of the event
          NoThread,          \* nobody owns the mutex
          AutoReset,         \* m_autoReset
          MaxPulses          \* bound: calls of Pulse() in a behaviour

ASSUME WaitObjectAssumption ==
    /\ AutoReset \in BOOLEAN
    /\ MaxPulses \in Nat
    /\ Waiters \cap Pulsers = {}
    /\ NoThread \notin Waiters \cup Pulsers

VARIABLES state,     \* m_state
          mutex,     \* the owner of m_mutex, or NoThread
          pc,        \* where each thread is
          pulses,    \* history: calls of setEvent that have set the state
          releases   \* history: waits that returned true

vars == <<state, mutex, pc, pulses, releases>>

WaiterPC == {"out", "enter", "try", "once", "asleep", "awake", "late", "check",
             "got", "lost"}
PulserPC == {"idle", "set", "signal", "reset", "clear"}

\* Mutant of Init: the constructor does not write m_state (NoThread stands for
\* whatever was in memory).
InitLeavesState == /\ state \in {FALSE, NoThread}
                   /\ mutex = NoThread
                   /\ pc = [t \in Waiters \cup Pulsers |->
                                IF t \in Waiters THEN "out" ELSE "idle"]
                   /\ pulses = 0
                   /\ releases = 0

Init == /\ state = FALSE
        /\ mutex = NoThread
        /\ pc = [t \in Waiters \cup Pulsers |->
                     IF t \in Waiters THEN "out" ELSE "idle"]
        /\ pulses = 0
        /\ releases = 0

Goto(t, where) == pc' = [pc EXCEPT ![t] = where]
Lock(t) == mutex = NoThread /\ mutex' = t
Unlock(t) == mutex = t /\ mutex' = NoThread

(***************************************************************************)
(* Pulse(): setEvent, then resetEvent.                                     *)
(***************************************************************************)
\* setEvent: lock and set the state.
SetState(p) == /\ pc[p] = "idle"
               /\ pulses < MaxPulses
               /\ Lock(p)
               /\ state' = TRUE
               /\ pulses' = pulses + 1
               /\ Goto(p, "set")
               /\ UNCHANGED releases

SetUnlock(p) == /\ pc[p] = "set"
                /\ Unlock(p)
                /\ Goto(p, "signal")
                /\ UNCHANGED <<state, pulses, releases>>

\* pthread_cond_signal wakes one sleeper of an automatic event if there is
\* one; pthread_cond_broadcast wakes all the sleepers of a manual one.
Asleep == {w \in Waiters : pc[w] = "asleep"}
Signal(p) ==
    /\ pc[p] = "signal"
    /\ \E woken \in SUBSET Asleep :
          /\ IF AutoReset /\ Asleep # {} THEN \E w \in Asleep : woken = {w}
                                          ELSE woken = Asleep
          /\ pc' = [t \in Waiters \cup Pulsers |->
                       IF t = p THEN "reset"
                       ELSE IF t \in woken THEN "awake" ELSE pc[t]]
    /\ UNCHANGED <<state, mutex, pulses, releases>>

\* resetEvent: a second critical section.
ClearState(p) == /\ pc[p] = "reset"
                 /\ Lock(p)
                 /\ state' = FALSE
                 /\ Goto(p, "clear")
                 /\ UNCHANGED <<pulses, releases>>

ClearUnlock(p) == /\ pc[p] = "clear"
                  /\ Unlock(p)
                  /\ Goto(p, "idle")
                  /\ UNCHANGED <<state, pulses, releases>>

(***************************************************************************)
(* CThread::Wait.                                                          *)
(***************************************************************************)
\* A wait with a timeout greater than zero locks; one with the timeout zero
\* tries to, and gives up if somebody holds the mutex.
EnterWait(w) == /\ pc[w] = "out"
                /\ Goto(w, "enter") \/ Goto(w, "try")
                /\ UNCHANGED <<state, mutex, pulses, releases>>

TryLock(w) == /\ pc[w] = "try"
              /\ \/ Lock(w) /\ Goto(w, "once")
                 \/ mutex # NoThread /\ UNCHANGED mutex /\ Goto(w, "out")
              /\ UNCHANGED <<state, pulses, releases>>

\* The lock at the start of a wait, and the one pthread_cond_timedwait takes
\* again before it returns 0.
LockToCheck(w) == /\ pc[w] \in {"enter", "awake"}
                  /\ Lock(w)
                  /\ Goto(w, "check")
                  /\ UNCHANGED <<state, pulses, releases>>

\* Mutants of Take: an automatic event that is not reset by the waiter it lets
\* through, and a condition wait that is not in a loop.
TakeAndLeaveSet(w) == /\ pc[w] \in {"check", "once"}
                      /\ state
                      /\ releases' = releases + 1
                      /\ Goto(w, "got")
                      /\ UNCHANGED <<state, mutex, pulses>>
TakeWithoutLoop(w) == /\ pc[w] = "check"
                      /\ state' = ~AutoReset
                      /\ releases' = releases + 1
                      /\ Goto(w, "got")
                      /\ UNCHANGED <<mutex, pulses>>

\* m_state is set: consume it if the event resets automatically.
Take(w) == /\ pc[w] \in {"check", "once"}
           /\ state
           /\ state' = ~AutoReset
           /\ releases' = releases + 1
           /\ Goto(w, "got")
           /\ UNCHANGED <<mutex, pulses>>

\* m_state is clear: a wait with the timeout zero is over, ...
NotSignalled(w) == /\ pc[w] = "once"
                   /\ ~state
                   /\ Goto(w, "lost")
                   /\ UNCHANGED <<state, mutex, pulses, releases>>

\* ... and any other sleeps: the condition wait releases the mutex.
Sleep(w) == /\ pc[w] = "check"
            /\ ~state
            /\ Unlock(w)
            /\ Goto(w, "asleep")
            /\ UNCHANGED <<state, pulses, releases>>

\* POSIX allows a condition wait to return without a signal.
SpuriousWakeup(w) == /\ pc[w] = "asleep"
                     /\ Goto(w, "awake")
                     /\ UNCHANGED <<state, mutex, pulses, releases>>

\* Mutant of Expire: the loop ignores ETIMEDOUT while m_state is clear.
ExpireWhenSet(w) == /\ pc[w] = "asleep"
                    /\ state
                    /\ Goto(w, "late")
                    /\ UNCHANGED <<state, mutex, pulses, releases>>

\* pthread_cond_timedwait returns ETIMEDOUT: the loop ends whatever m_state is.
Expire(w) == /\ pc[w] = "asleep"
             /\ Goto(w, "late")
             /\ UNCHANGED <<state, mutex, pulses, releases>>

LockLate(w) == /\ pc[w] = "late"
               /\ Lock(w)
               /\ Goto(w, "lost")
               /\ UNCHANGED <<state, pulses, releases>>

LeaveWait(w) == /\ pc[w] \in {"got", "lost"}
                /\ Unlock(w)
                /\ Goto(w, "out")
                /\ UNCHANGED <<state, pulses, releases>>

PulserNext(p) == \/ SetState(p) \/ SetUnlock(p) \/ Signal(p)
                 \/ ClearState(p) \/ ClearUnlock(p)
WaiterNext(w) == \/ EnterWait(w) \/ TryLock(w) \/ NotSignalled(w)
                 \/ LockToCheck(w) \/ Take(w) \/ Sleep(w)
                 \/ SpuriousWakeup(w) \/ Expire(w) \/ LockLate(w) \/ LeaveWait(w)

Next == \/ \E p \in Pulsers : PulserNext(p)
        \/ \E w \in Waiters : WaiterNext(w)

Spec == Init /\ [][Next]_vars

\* The clock and the scheduler: a sleeper's time runs out, a thread that keeps
\* finding the mutex free gets it (SF), and a thread inside a call goes on.
Fairness ==
    /\ \A p \in Pulsers : /\ WF_vars(SetUnlock(p) \/ Signal(p) \/ ClearUnlock(p))
                          /\ SF_vars(ClearState(p))
    /\ \A w \in Waiters : /\ SF_vars(LockToCheck(w)) /\ SF_vars(LockLate(w))
                          /\ WF_vars(Take(w) \/ Sleep(w) \/ NotSignalled(w))
                          /\ WF_vars(TryLock(w))
                          /\ SF_vars(Expire(w))
                          /\ WF_vars(LeaveWait(w))

FairSpec == Spec /\ Fairness

-----------------------------------------------------------------------------
TypeOK == /\ state \in BOOLEAN
          /\ mutex \in Waiters \cup Pulsers \cup {NoThread}
          /\ pc \in [Waiters \cup Pulsers -> WaiterPC \cup PulserPC]
          /\ \A w \in Waiters : pc[w] \in WaiterPC
          /\ \A p \in Pulsers : pc[p] \in PulserPC
          /\ pulses \in Nat
          /\ releases \in Nat

Holding(t) == pc[t] \in {"check", "once", "got", "lost", "set", "clear"}

\* The thread inside a critical section, and only it, owns m_mutex: every path
\* of unlockedWaitForEvent gives the mutex back to the Unlock that follows it.
MutexDiscipline == \A t \in Waiters \cup Pulsers : Holding(t) <=> mutex = t

\* No pulse of an automatic event releases two waiters: the waits that returned
\* true, and the one the set bit still allows, never outnumber the pulses.
OneReleasePerPulse ==
    AutoReset => releases + (IF state THEN 1 ELSE 0) <= pulses

\* A thread that waits with a finite timeout returns, however the pulses of
\* others, spurious wake-ups and the mutex are scheduled.
EveryWaitReturns == \A w \in Waiters : pc[w] \in {"enter", "try"} ~> pc[w] = "out"

\* The POSIX wait object is an event whose signal may be retracted.
E == INSTANCE Event WITH
        Sticky <- FALSE,
        signalled <- state,
        inside <- {w \in Waiters : pc[w] \notin {"out", "got"}},
        through <- {w \in Waiters : pc[w] = "got"}
ImplementsEvent == E!Spec
=============================================================================
