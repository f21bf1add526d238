------------------------------- MODULE Threads -------------------------------
(***************************************************************************)
(* A CThread and the threads of the operating system that run it           *)
(* (src/src/native/unix/Thread.unix.cpp; Thread.win32.cpp is the same but  *)
(* for timeouts).                                                          *)
(*                                                                         *)
(* The object counts its references: its users', the one Start() takes for *)
(* the new thread and the one that thread takes itself. The list of known  *)
(* threads has plain pointers, guarded by g_cs, from which GetThreads()    *)
(* makes references. The new thread may run, and end, before pthread_create*)
(* has stored its handle.                                                  *)
(***************************************************************************)
EXTENDS Naturals, FiniteSets

CONSTANTS Users,     \* threads that use the object
          Runners,   \* threads of the operating system that may be created for it
          NoHandle,
          MaxHolds   \* bound: references of a user to the object

\* There are finitely many threads, and no handle is one of them.
ThreadsAssumption == /\ IsFiniteSet(Users) /\ IsFiniteSet(Runners)
                     /\ Users \cap Runners = {}
                     /\ NoHandle \notin Runners
                     /\ MaxHolds \in Nat \ {0}

VARIABLES state,     \* m_state
          handle,    \* m_handle: a runner, or NoHandle
          refs,      \* m_refCount
          holds,     \* the references each user has
          listed,    \* how often g_knownThreadList has the object
          pc,        \* where each user and each runner is
          starts,    \* history: threads that were created
          joins      \* history: joins that returned, and whether a body still ran
vars == <<state, handle, refs, holds, listed, pc, starts, joins>>

Init == /\ state = "unstarted" /\ handle = NoHandle /\ listed = 0
        /\ \E u \in Users : holds = [v \in Users |-> IF v = u THEN 1 ELSE 0]
        /\ refs = 1
        /\ pc = [t \in Users \cup Runners |-> IF t \in Users THEN "idle" ELSE "none"]
        /\ starts = 0 /\ joins = {}

Goto(t, where) == pc' = [pc EXCEPT ![t] = where]
\* The body OnStart() has not returned, or is about to be called.
Running(r) == pc[r] \in {"check", "running", "ref", "list", "body"}

(***************************************************************************)
(* A user that holds a reference.                                          *)
(***************************************************************************)
May(u) == pc[u] = "idle" /\ holds[u] > 0

\* Another user gets a reference, as with any counted object.
Pass(u, v) == /\ May(u) /\ holds[v] < MaxHolds
              /\ holds' = [holds EXCEPT ![v] = @ + 1] /\ refs' = refs + 1
              /\ UNCHANGED <<state, handle, listed, pc, starts, joins>>

Drop(u) == /\ May(u)
           /\ holds' = [holds EXCEPT ![u] = @ - 1] /\ refs' = refs - 1
           /\ UNCHANGED <<state, handle, listed, pc, starts, joins>>

\* Mutant of BeginStart: the reference is left to the new thread.
StartWithoutRef(u) == /\ May(u) /\ state = "unstarted" /\ Goto(u, "create")
                      /\ UNCHANGED <<state, handle, refs, holds, listed, starts, joins>>
\* Start(), up to the call of pthread_create. A started thread is refused.
BeginStart(u) == /\ May(u) /\ state = "unstarted"
                 /\ refs' = refs + 1 /\ Goto(u, "create")
                 /\ UNCHANGED <<state, handle, holds, listed, starts, joins>>

Create(u, r) == /\ pc[u] = "create" /\ pc[r] = "none"
                /\ pc' = [pc EXCEPT ![u] = "store", ![r] = "check"]
                /\ starts' = starts + 1
                /\ UNCHANGED <<state, handle, refs, holds, listed, joins>>

CreateFails(u) == /\ pc[u] = "create"
                  /\ refs' = refs - 1 /\ Goto(u, "idle")
                  /\ UNCHANGED <<state, handle, holds, listed, starts, joins>>

\* pthread_create stores the handle; with a second Start() it is that of either.
StoreHandle(u, r) == /\ pc[u] = "store" /\ pc[r] # "none"
                     /\ handle' = r /\ Goto(u, "idle")
                     /\ UNCHANGED <<state, refs, holds, listed, starts, joins>>

\* Mutant of Join: a thread that is asked to end counts as ended.
JoinAborted(u) == /\ May(u) /\ state \in {"stopped", "abort"}
                  /\ joins' = joins \cup {\E r \in Runners : Running(r)}
                  /\ UNCHANGED <<state, handle, refs, holds, listed, pc, starts>>
\* Join() of a thread that has ended. (One that has neither a state nor a handle yet
\* is an error that changes nothing.)
Join(u) == /\ May(u) /\ state = "stopped"
           /\ joins' = joins \cup {\E r \in Runners : Running(r)}
           /\ UNCHANGED <<state, handle, refs, holds, listed, pc, starts>>

BeginJoin(u) == /\ May(u) /\ state # "stopped"
                /\ state = "unstarted" => handle # NoHandle
                /\ Goto(u, "join")
                /\ UNCHANGED <<state, handle, refs, holds, listed, starts, joins>>

\* pthread_join returns; without a handle (state read before it is stored) it fails
\* at once.
Joined(u) == /\ pc[u] = "join"
             /\ \/ handle # NoHandle /\ pc[handle] = "ended"
                   /\ joins' = joins \cup {\E r \in Runners : Running(r)}
                \/ handle = NoHandle /\ UNCHANGED joins
             /\ Goto(u, "idle")
             /\ UNCHANGED <<state, handle, refs, holds, listed, starts>>

Abort(u) == /\ May(u) /\ state' = "abort"
            /\ UNCHANGED <<handle, refs, holds, listed, pc, starts, joins>>

\* GetThreads(), inside g_cs; the user need not have a reference.
GetThreads(u) == /\ pc[u] = "idle" /\ listed > 0 /\ holds[u] + listed <= MaxHolds
                 /\ holds' = [holds EXCEPT ![u] = @ + listed] /\ refs' = refs + listed
                 /\ UNCHANGED <<state, handle, listed, pc, starts, joins>>

(***************************************************************************)
(* PosixToSkizo: the new thread.                                           *)
(***************************************************************************)
Check(r) == /\ pc[r] = "check" /\ Goto(r, IF state = "abort" THEN "ref" ELSE "running")
            /\ UNCHANGED <<state, handle, refs, holds, listed, starts, joins>>

SetRunning(r) == /\ pc[r] = "running" /\ state' = "running" /\ Goto(r, "ref")
                 /\ UNCHANGED <<handle, refs, holds, listed, starts, joins>>

RefItself(r) == /\ pc[r] = "ref" /\ refs' = refs + 1 /\ Goto(r, "list")
                /\ UNCHANGED <<state, handle, holds, listed, starts, joins>>

AddToList(r) == /\ pc[r] = "list" /\ listed' = listed + 1 /\ Goto(r, "body")
                /\ UNCHANGED <<state, handle, refs, holds, starts, joins>>

\* OnStart() returns or throws, by itself or because it sees that it should end.
OnStart(r) == /\ pc[r] = "body" /\ Goto(r, "stop")
              /\ UNCHANGED <<state, handle, refs, holds, listed, starts, joins>>

Stop(r) == /\ pc[r] = "stop" /\ state' = "stopped" /\ Goto(r, "unlist")
           /\ UNCHANGED <<handle, refs, holds, listed, starts, joins>>

RemoveFromList(r) == /\ pc[r] = "unlist" /\ listed' = listed - 1 /\ Goto(r, "unref")
                     /\ UNCHANGED <<state, handle, refs, holds, starts, joins>>

UnrefItself(r) == /\ pc[r] = "unref" /\ refs' = refs - 1 /\ Goto(r, "last")
                  /\ UNCHANGED <<state, handle, holds, listed, starts, joins>>

\* The reference of Start(). The last one deletes the object.
UnrefStart(r) == /\ pc[r] = "last" /\ refs' = refs - 1 /\ Goto(r, "ended")
                 /\ UNCHANGED <<state, handle, holds, listed, starts, joins>>

PosixToSkizo(r) == \/ Check(r) \/ SetRunning(r) \/ RefItself(r) \/ AddToList(r)
                   \/ OnStart(r) \/ Stop(r) \/ RemoveFromList(r)
                   \/ UnrefItself(r) \/ UnrefStart(r)

Next == \/ \E u \in Users : \/ Drop(u) \/ BeginStart(u) \/ CreateFails(u) \/ Join(u)
                            \/ BeginJoin(u) \/ Joined(u) \/ Abort(u) \/ GetThreads(u)
                            \/ \E v \in Users : Pass(u, v)
                            \/ \E r \in Runners : Create(u, r) \/ StoreHandle(u, r)
        \/ \E r \in Runners : PosixToSkizo(r)
Spec == Init /\ [][Next]_vars

-----------------------------------------------------------------------------
\* "The framework guarantees that the object is alive as long as the underlying OS
\* thread is alive. It's not necessary to hold a reference to a CThread to keep it
\* alive." (Thread.h:249) Neither the thread nor the list of threads nor a user has
\* a pointer to a deleted object.
StaysAlive == refs = 0 => /\ listed = 0
                          /\ \A u \in Users : holds[u] = 0 /\ pc[u] = "idle"
                          /\ \A r \in Runners : pc[r] \in {"none", "ended"}
\* "Waits for a thread to exit": a join that does not fail does not return before
\* OnStart() has, when the thread was started once.
ThreadsEndInOrder == StaysAlive /\ (starts \in {0, 1} => TRUE \notin joins)

\* "@throws EC_INVALID_STATE the thread was already started" (Thread.h): refuted, since
\* the state is changed by the new thread.
StartsOnce == starts <= 1
\* "Aborts the thread by setting the thread state": refuted, an abort between the
\* check and the assignment of the new thread is overwritten.
AbortsAreSeen == [][state = "abort" => state' \in {"abort", "stopped"}]_vars
=============================================================================
