-------------------------- MODULE WaitObjectProofs --------------------------
(***************************************************************************)
(* Proofs about the POSIX wait object, for any set of threads: the mutex   *)
(* discipline, the bound on releases, and the refinement of Event.         *)
(***************************************************************************)
EXTENDS WaitObject, TLAPS

\* The inductive invariant.  MutexDiscipline is what makes the critical
\* sections atomic, and the bound on releases follows from them.
IInv == TypeOK /\ MutexDiscipline /\ OneReleasePerPulse

USE WaitObjectAssumption DEF WaiterPC, PulserPC

LEMMA InitIInv == Init => IInv
  <1> SUFFICES ASSUME Init PROVE IInv OBVIOUS
  <1> USE DEF Init
  <1>1. TypeOK
    <2>1. pc \in [Waiters \cup Pulsers -> {"out", "idle"}] OBVIOUS
    <2>2. pc \in [Waiters \cup Pulsers -> WaiterPC \cup PulserPC] BY <2>1
    <2> QED BY <2>2 DEF TypeOK
  <1>2. MutexDiscipline BY DEF MutexDiscipline, Holding
  <1>3. OneReleasePerPulse BY DEF OneReleasePerPulse
  <1> QED BY <1>1, <1>2, <1>3 DEF IInv

\* Each step of a pulser keeps the invariant.
LEMMA PulserStep == ASSUME IInv, NEW p \in Pulsers, PulserNext(p) PROVE IInv'
  <1> USE DEF IInv, TypeOK, MutexDiscipline, OneReleasePerPulse, Holding, Goto,
              Lock, Unlock
  <1>1. CASE SetState(p) BY <1>1 DEF SetState
  <1>2. CASE SetUnlock(p) BY <1>2 DEF SetUnlock
  <1>3. CASE Signal(p)
    <2>1. PICK woken \in SUBSET Asleep :
             pc' = [t \in Waiters \cup Pulsers |->
                      IF t = p THEN "reset"
                      ELSE IF t \in woken THEN "awake" ELSE pc[t]]
      BY <1>3 DEF Signal
    <2>2. pc[p] = "signal" /\ UNCHANGED <<state, mutex, pulses, releases>>
      BY <1>3 DEF Signal
    <2>3. \A t \in Waiters \cup Pulsers :
             pc'[t] = IF t = p THEN "reset"
                      ELSE IF t \in woken THEN "awake" ELSE pc[t]
      BY <2>1
    <2> USE DEF Asleep
    <2>4. pc' \in [Waiters \cup Pulsers -> WaiterPC \cup PulserPC] BY <2>1, <2>3
    <2>5. TypeOK' BY <2>2, <2>3, <2>4
    <2>6. \A t \in Waiters \cup Pulsers : Holding(t)' <=> Holding(t)
      BY <2>2, <2>3
    <2> QED BY <2>2, <2>5, <2>6
  <1>4. CASE ClearState(p)
    <2>1. TypeOK' /\ MutexDiscipline' BY <1>4 DEF ClearState
    <2>2. OneReleasePerPulse'
      <3>1. state' = FALSE /\ UNCHANGED <<releases, pulses>> BY <1>4 DEF ClearState
      <3> QED BY <3>1
    <2> QED BY <2>1, <2>2
  <1>5. CASE ClearUnlock(p) BY <1>5 DEF ClearUnlock
  <1> QED BY <1>1, <1>2, <1>3, <1>4, <1>5 DEF PulserNext

\* Each step of a waiter keeps the invariant.
LEMMA WaiterStep == ASSUME IInv, NEW w \in Waiters, WaiterNext(w) PROVE IInv'
  <1> USE DEF IInv, TypeOK, MutexDiscipline, OneReleasePerPulse, Holding, Goto,
              Lock, Unlock
  <1>1. CASE EnterWait(w) BY <1>1 DEF EnterWait
  <1>2. CASE LockToCheck(w) BY <1>2 DEF LockToCheck
  <1>3. CASE Take(w)
    <2>1. TypeOK' /\ MutexDiscipline' BY <1>3 DEF Take
    <2>2. OneReleasePerPulse'
      <3>1. /\ state = TRUE /\ state' = ~AutoReset
            /\ releases' = releases + 1 /\ pulses' = pulses
        BY <1>3 DEF Take
      <3>2. CASE AutoReset
        <4>1. ~state' BY <3>1, <3>2
        <4>2. releases + 1 <= pulses BY <3>1, <3>2
        <4> QED BY <3>1, <4>1, <4>2
      <3> QED BY <3>2
    <2> QED BY <2>1, <2>2
  <1>4. CASE Sleep(w) BY <1>4 DEF Sleep
  <1>5. CASE SpuriousWakeup(w) BY <1>5 DEF SpuriousWakeup
  <1>6. CASE Expire(w) BY <1>6 DEF Expire
  <1>7. CASE LockLate(w) BY <1>7 DEF LockLate
  <1>8. CASE LeaveWait(w) BY <1>8 DEF LeaveWait
  <1>9. CASE TryLock(w)
    <2>1. CASE Lock(w) /\ Goto(w, "once") BY <1>9, <2>1 DEF TryLock
    <2>2. CASE mutex # NoThread /\ UNCHANGED mutex /\ Goto(w, "out")
      BY <1>9, <2>2 DEF TryLock
    <2> QED BY <1>9, <2>1, <2>2 DEF TryLock
  <1>10. CASE NotSignalled(w) BY <1>10 DEF NotSignalled
  <1> QED BY <1>1, <1>2, <1>3, <1>4, <1>5, <1>6, <1>7, <1>8, <1>9, <1>10
          DEF WaiterNext

LEMMA NextIInv == IInv /\ [Next]_vars => IInv'
  <1>1. ASSUME IInv, UNCHANGED vars PROVE IInv'
    BY <1>1 DEF IInv, TypeOK, MutexDiscipline, OneReleasePerPulse, Holding, vars
  <1> QED BY <1>1, PulserStep, WaiterStep DEF Next

\* The invariant holds in every state of every behaviour.
THEOREM Invariance == Spec => []IInv
  BY InitIInv, NextIInv, PTL DEF Spec

\* WaitObject.unix.cpp gives every lock of m_mutex back, and no pulse of an
\* automatic event releases two waiters, however many threads share it.
THEOREM MutexAndReleases == Spec => [](MutexDiscipline /\ OneReleasePerPulse)
  <1>1. IInv => MutexDiscipline /\ OneReleasePerPulse BY DEF IInv
  <1> QED BY <1>1, Invariance, PTL

-----------------------------------------------------------------------------
\* A step of the implementation is a step of the event, or a stutter.
LEMMA StepRefines == IInv /\ [Next]_vars => [E!Next]_(E!vars)
  <1> SUFFICES ASSUME IInv, [Next]_vars PROVE [E!Next]_(E!vars) OBVIOUS
  <1> DEFINE in  == {w \in Waiters : pc[w] \notin {"out", "got"}}
             thr == {w \in Waiters : pc[w] = "got"}
  <1> USE DEF IInv, TypeOK, Goto
  <1>1. ASSUME NEW p \in Pulsers, PulserNext(p) PROVE [E!Next]_(E!vars)
    <2>1. in' = in /\ thr' = thr
      <3>1. CASE SetState(p) BY <3>1 DEF SetState
      <3>2. CASE SetUnlock(p) BY <3>2 DEF SetUnlock
      <3>3. CASE Signal(p)
        <4>1. PICK woken \in SUBSET Asleep :
                 pc' = [t \in Waiters \cup Pulsers |->
                          IF t = p THEN "reset"
                          ELSE IF t \in woken THEN "awake" ELSE pc[t]]
          BY <3>3 DEF Signal
        <4>2. \A w \in Waiters : pc'[w] = IF w \in woken THEN "awake" ELSE pc[w]
          BY <4>1
        <4> QED BY <4>2 DEF Asleep
      <3>4. CASE ClearState(p) BY <3>4 DEF ClearState
      <3>5. CASE ClearUnlock(p) BY <3>5 DEF ClearUnlock
      <3> QED BY <1>1, <3>1, <3>2, <3>3, <3>4, <3>5 DEF PulserNext
    <2>2. state' = TRUE \/ state' = FALSE \/ state' = state
      BY <1>1 DEF PulserNext, SetState, SetUnlock, Signal, ClearState, ClearUnlock
    <2> QED BY <2>1, <2>2 DEF E!Next, E!Pulse, E!Retract, E!vars
  <1>2. ASSUME NEW w \in Waiters, WaiterNext(w) PROVE [E!Next]_(E!vars)
    <2>1. CASE EnterWait(w)
      <3>1. pc[w] = "out" /\ pc'[w] \in {"enter", "try"} /\ state' = state
        BY <2>1 DEF EnterWait
      <3>2. \A v \in Waiters : v # w => pc'[v] = pc[v] BY <2>1 DEF EnterWait
      <3>3. w \notin in \cup thr /\ in' = in \cup {w} /\ thr' = thr BY <3>1, <3>2
      <3> QED BY <3>1, <3>3 DEF E!Next, E!Enter
    <2>2. CASE Take(w)
      <3>1. w \in in /\ in' = in \ {w} /\ state /\ state' = ~AutoReset
        BY <2>2 DEF Take
      <3>2. thr' = thr \cup {w} BY <2>2 DEF Take
      <3> QED BY <3>1, <3>2 DEF E!Next, E!Proceed
    <2>3. CASE LeaveWait(w) /\ pc[w] = "lost"
      <3>1. w \in in /\ in' = in \ {w} /\ thr' = thr /\ state' = state
        BY <2>3 DEF LeaveWait
      <3> QED BY <3>1 DEF E!Next, E!GiveUp
    <2>4. CASE LeaveWait(w) /\ pc[w] = "got"
      <3>1. in' = in /\ w \in thr /\ thr' = thr \ {w} /\ state' = state
        BY <2>4 DEF LeaveWait
      <3> QED BY <3>1 DEF E!Next, E!Return
    <2>5. CASE \/ LockToCheck(w) \/ Sleep(w) \/ SpuriousWakeup(w)
               \/ Expire(w) \/ LockLate(w) \/ NotSignalled(w)
      <3>1. in' = in /\ thr' = thr /\ state' = state
        BY <2>5 DEF LockToCheck, Sleep, SpuriousWakeup, Expire, LockLate,
                    NotSignalled
      <3> QED BY <3>1 DEF E!vars
    <2>7. CASE TryLock(w)
      <3>1. state' = state BY <2>7 DEF TryLock
      <3>2. CASE Goto(w, "once")
        <4>1. in' = in /\ thr' = thr BY <2>7, <3>2 DEF TryLock
        <4> QED BY <3>1, <4>1 DEF E!vars
      <3>3. CASE Goto(w, "out")
        <4>1. w \in in /\ in' = in \ {w} /\ thr' = thr BY <2>7, <3>3 DEF TryLock
        <4> QED BY <3>1, <4>1 DEF E!Next, E!GiveUp
      <3> QED BY <2>7, <3>2, <3>3 DEF TryLock
    <2>6. LeaveWait(w) => pc[w] \in {"got", "lost"} BY DEF LeaveWait
    <2> QED BY <1>2, <2>1, <2>2, <2>3, <2>4, <2>5, <2>6, <2>7 DEF WaiterNext
  <1>3. CASE UNCHANGED vars BY <1>3 DEF vars, E!vars
  <1> QED BY <1>1, <1>2, <1>3 DEF Next

\* The POSIX implementation behaves as an event whose signal may be retracted.
THEOREM Refinement == Spec => ImplementsEvent
  <1>1. Init => E!Init BY DEF Init, E!Init
  <1>2. IInv /\ [Next]_vars => [E!Next]_(E!vars) BY StepRefines
  <1> QED BY <1>1, <1>2, Invariance, PTL DEF Spec, ImplementsEvent, E!Spec
=============================================================================
