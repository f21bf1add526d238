------------------------------ MODULE Remoting ------------------------------
(***************************************************************************)
(* Domains, domain handles and cross-domain method calls                   *)
(* (src/src/Remoting.cpp, with the parts of Domain.cpp they rest on).      *)
(*                                                                         *)
(* Every domain runs on a thread of its own.  The domain that creates      *)
(* another one gets a CDomainHandle, through which it waits for the new    *)
(* domain to be ready, imports its exported object, sends it messages and  *)
(* waits for it to terminate.  A handle stays in the domain that created   *)
(* it, so Creator[d] is the only domain that holds d's handle.  Messages   *)
(* go to the queue of the target, which serves them in Domain::listen.     *)
(*                                                                         *)
(* Every critical section, pulse and wait is a step.  A CDomain is a plain *)
(* CObject, so counting a reference to it loads m_refCount and stores it   *)
(* in another step.  The Skizo code a domain runs is the choice of what it *)
(* does next in "user", and it may listen again inside a server stub.      *)
(***************************************************************************)
EXTENDS Naturals, Sequences, FiniteSets

CONSTANTS Domains,      \* the domains of a process
          Base,         \* the base domain, made by the launcher
          Creator,      \* Creator[d]: the domain that creates d and its handle
          None,         \* a null pointer
          Win32,        \* the build: Win32 or POSIX threads and events
          Rereads,      \* the build: CObject::Unref loads the count again to
                        \* compare it with 0 (without optimization, Debug)
          Catchers,     \* the domains whose Skizo code wraps calls in Domain::try
          Kinds,        \* the handle operations the Skizo code uses
          MaxMsgs       \* bound: messages sent in a behaviour

ASSUME RemotingAssumption ==
    /\ Base \in Domains
    /\ Creator \in [Domains \ {Base} -> Domains]
    /\ \A d \in Domains \ {Base} : Creator[d] # d
    /\ None \notin Domains \cup Nat
    /\ {Win32, Rereads} \subseteq BOOLEAN
    /\ Catchers \subseteq Domains
    /\ Kinds \subseteq {"sync", "async", "import", "alive", "wait"}
    /\ MaxMsgs \in Nat

VARIABLES
    pc,         \* where the thread of each domain is
    op,         \* the handle operation it is in: kind, target, msg, abort
    serving,    \* the messages whose server stubs it runs, the innermost first
    ready,      \* the handle's ReadinessWaitObject: "off", "on" or "null"
    slot,       \* the handle's Domain field is not null
    live,       \* the CDomain is there: ~CDomain has not begun
    count,      \* m_refCount of the CDomain
    loaded,     \* the count in a register of a thread inside Ref() or Unref()
    current,    \* g_domain of each thread
    queue,      \* m_msgQueue: the ids of the messages in it
    newMsg,     \* m_newMessageWaitObject (automatic)
    result,     \* m_resultWaitObject (automatic), one for each sender
    exported,   \* the domain's object is in ExportedObjs
    msgs        \* the messages made so far, by id

control == <<pc, op, serving>>
counts  == <<live, count, loaded>>
handle  == <<ready, slot, counts, current>>
mail    == <<queue, newMsg, result, exported, msgs>>
vars    == <<control, handle, mail>>

Target(d) == op[d].target
NoOp == [kind |-> "none", target |-> None, msg |-> None, abort |-> FALSE]

\* A message: who sends it to whom, whether the sender waits for the result,
\* where it is, the result the target left in it, and what the caller saw.
Message(from, to, sync) ==
    [from |-> from, to |-> to, sync |-> sync, at |-> "made",
     ret |-> "none", saw |-> "none"]

Init == /\ pc = [d \in Domains |-> IF d = Base THEN "user" ELSE "none"]
        /\ op = [d \in Domains |-> NoOp]
        /\ serving = [d \in Domains |-> <<>>]
        /\ ready = [d \in Domains |-> IF d = Base THEN "null" ELSE "off"]
        /\ slot = [d \in Domains |-> FALSE]
        /\ live = [d \in Domains |-> d = Base]
        /\ count = [d \in Domains |-> IF d = Base THEN 1 ELSE 0]
        /\ loaded = [d \in Domains |-> 0]
        /\ current = [d \in Domains |-> IF d = Base THEN Base ELSE None]
        /\ queue = [d \in Domains |-> <<>>]
        /\ newMsg = [d \in Domains |-> FALSE]
        /\ result = [d \in Domains |-> FALSE]
        /\ exported = [d \in Domains |-> FALSE]
        /\ msgs = <<>>

Goto(d, where) == pc' = [pc EXCEPT ![d] = where]

(***************************************************************************)
(* The life of a domain: CRemoteDomainThread and CDomain.                  *)
(***************************************************************************)
\* Domain::run...: a new handle, not ready, and a started thread.
CreateRemoteDomain(d, c) ==
    /\ pc[d] = "user" /\ pc[c] = "none" /\ Creator[c] = d
    /\ Goto(c, "create")
    /\ UNCHANGED <<op, serving, handle, mail>>

\* CreateDomain compiles the program and runs its static constructors, which
\* may export an object.
CreateDomain(c) ==
    /\ pc[c] = "create"
    /\ Goto(c, "publish")
    /\ live' = [live EXCEPT ![c] = TRUE]
    /\ count' = [count EXCEPT ![c] = 1]
    /\ current' = [current EXCEPT ![c] = c]
    /\ \E e \in BOOLEAN : exported' = [exported EXCEPT ![c] = e]
    /\ UNCHANGED <<op, serving, ready, slot, loaded, queue, newMsg, result, msgs>>

\* CreateDomain aborts: the thread ends and the handle never becomes ready.
CreateDomainFails(c) ==
    /\ pc[c] = "create"
    /\ Goto(c, "dead")
    /\ UNCHANGED <<op, serving, handle, mail>>

SetDomain(c) ==
    /\ pc[c] = "publish"
    /\ Goto(c, "signal")
    /\ slot' = [slot EXCEPT ![c] = TRUE]
    /\ UNCHANGED <<op, serving, ready, counts, current, mail>>

\* SignalDomainIsReady pulses the readiness object; the POSIX pulse then
\* resets it.
SignalDomainIsReady(c) ==
    /\ pc[c] = "signal"
    /\ ready' = [ready EXCEPT ![c] = IF @ = "null" THEN @ ELSE "on"]
    /\ Goto(c, IF Win32 THEN "user" ELSE "signalled")
    /\ UNCHANGED <<op, serving, slot, counts, current, mail>>

ResetReadiness(c) ==
    /\ pc[c] = "signalled"
    /\ ready' = [ready EXCEPT ![c] = IF @ = "null" THEN @ ELSE "off"]
    /\ Goto(c, "user")
    /\ UNCHANGED <<op, serving, slot, counts, current, mail>>

\* The entry point returns (Domain::main, outside of any server stub).
ReturnFromMain(d) ==
    /\ pc[d] = "user" /\ serving[d] = <<>>
    /\ Goto(d, "unpublish")
    /\ UNCHANGED <<op, serving, handle, mail>>

\* remoteMain: the handle no longer leads to the domain.  The creator may be
\* inside DomainMutex, counting a reference.
ClearDomain(d) ==
    /\ pc[d] = "unpublish"
    /\ \A e \in Domains : pc[e] = "ref" => op[e].target # d
    /\ slot' = [slot EXCEPT ![d] = FALSE]
    /\ Goto(d, "leave")
    /\ UNCHANGED <<op, serving, ready, counts, current, mail>>

\* Ref() and Unref() of domain c by thread d load the count first.
LoadCount(d, c) == /\ loaded' = [loaded EXCEPT ![d] = count[c]]
                   /\ UNCHANGED <<live, count>>

\* remoteMain returns: its Auto<CDomain> is released.
LeaveThread(d) ==
    /\ pc[d] = "leave"
    /\ LoadCount(d, d)
    /\ Goto(d, "leaving")
    /\ UNCHANGED <<op, serving, ready, slot, current, mail>>

(***************************************************************************)
(* Aborts.  An abort unwinds to a Domain::try of the Skizo code, to the    *)
(* server stub that listen() called, or to InvokeEntryPoint.               *)
(***************************************************************************)
Abort(d, ms) ==
    \/ /\ d \in Catchers
       /\ Goto(d, "user")
       /\ msgs' = ms
    \/ /\ serving[d] = <<>>
       /\ Goto(d, "unpublish")
       /\ msgs' = ms
    \/ /\ serving[d] # <<>>
       /\ Goto(d, "answer")
       /\ msgs' = [ms EXCEPT ![Head(serving[d])].ret = "error"]

\* The Skizo code of d aborts.
AbortInUserCode(d) ==
    /\ pc[d] = "user"
    /\ Abort(d, msgs)
    /\ UNCHANGED <<op, serving, handle, queue, newMsg, result, exported>>

(***************************************************************************)
(* Operations on the handle of domain c, by the domain d that created it.  *)
(***************************************************************************)
\* The call is made: a remote call builds its message first.
Begin(d, c, kind) ==
    /\ pc[d] = "user" /\ pc[c] # "none" /\ Creator[c] = d
    /\ Goto(d, "ready?")
    /\ IF kind \in {"sync", "async"}
       THEN /\ Len(msgs) < MaxMsgs
            /\ msgs' = Append(msgs, Message(d, c, kind = "sync"))
       ELSE UNCHANGED msgs
    /\ op' = [op EXCEPT ![d] =
                [kind |-> kind, target |-> c,
                 msg |-> IF kind \in {"sync", "async"} THEN Len(msgs) + 1
                                                        ELSE None,
                 abort |-> FALSE]]
    /\ UNCHANGED <<serving, handle, queue, newMsg, result, exported>>

Finish(d) == op' = [op EXCEPT ![d] = NoOp]

\* The caller of a message learns how the call went.
Saw(m, what) == [msgs EXCEPT ![m].saw = what]

\* Mutant of DomainIsReady: the readiness object resets automatically and
\* stays in the handle.
DomainIsReadyOnce(d) ==
    LET c == Target(d)
    IN /\ pc[d] = "ready?"
       /\ ready[c] # "off"
       /\ ready' = [ready EXCEPT ![c] = "off"]
       /\ Goto(d, "lock")
       /\ UNCHANGED <<op, serving, slot, counts, current, mail>>

\* waitForDomainReadiness succeeds: the object is dropped, so the next
\* operations do not wait.
DomainIsReady(d) ==
    LET c == Target(d)
    IN /\ pc[d] = "ready?"
       /\ ready[c] # "off"
       /\ ready' = [ready EXCEPT ![c] = "null"]
       /\ Goto(d, "lock")
       /\ UNCHANGED <<op, serving, slot, counts, current, mail>>

\* Mutant of ReadinessTimeout: the object is dropped on a timeout too.
ReadinessTimeoutDrops(d) ==
    /\ pc[d] = "ready?"
    /\ ready[Target(d)] = "off"
    /\ ready' = [ready EXCEPT ![Target(d)] = "null"]
    /\ Goto(d, "user")
    /\ Finish(d)
    /\ UNCHANGED <<serving, slot, counts, current, mail>>

\* DOMAIN_TIMEOUT: Wait() returns false, every other operation aborts.
ReadinessTimeout(d) ==
    /\ pc[d] = "ready?"
    /\ ready[Target(d)] = "off"
    /\ IF op[d].kind = "wait" THEN Goto(d, "user") /\ UNCHANGED msgs
       ELSE Abort(d, IF op[d].kind = "sync" THEN Saw(op[d].msg, "timeout")
                                            ELSE msgs)
    /\ Finish(d)
    /\ UNCHANGED <<serving, handle, queue, newMsg, result, exported>>

\* Where getDomain() returns to.
Got(d) == CASE op[d].kind = "alive" -> "release"
            [] op[d].kind = "import" -> "import"
            [] OTHER -> "enqueue"

\* Mutant of GetDomain: the pointer is returned without a reference.
GetDomainUncounted(d) ==
    /\ pc[d] = "lock"
    /\ slot[Target(d)]
    /\ Goto(d, IF op[d].kind = "wait" THEN "join" ELSE Got(d))
    /\ UNCHANGED <<op, serving, handle, mail>>

\* Under DomainMutex: take a counted reference to the domain (Wait() takes
\* one to its thread instead, and a thread's count is atomic).
GetDomain(d) ==
    LET c == Target(d)
    IN /\ pc[d] = "lock"
       /\ slot[c]
       /\ IF op[d].kind = "wait" THEN Goto(d, "join") /\ UNCHANGED counts
                                 ELSE Goto(d, "ref") /\ LoadCount(d, c)
       /\ UNCHANGED <<op, serving, ready, slot, current, mail>>

CountReference(d) ==
    /\ pc[d] = "ref"
    /\ count' = [count EXCEPT ![Target(d)] = loaded[d] + 1]
    /\ loaded' = [loaded EXCEPT ![d] = 0]
    /\ Goto(d, Got(d))
    /\ UNCHANGED <<op, serving, ready, slot, live, current, mail>>

\* Under DomainMutex: the domain has terminated.  A call aborts; the others
\* return false, null, or (Wait) true.
DomainIsGone(d) ==
    /\ pc[d] = "lock"
    /\ ~slot[Target(d)]
    /\ IF op[d].kind \in {"sync", "async"}
       THEN Abort(d, IF op[d].kind = "sync" THEN Saw(op[d].msg, "gone")
                                            ELSE msgs)
       ELSE Goto(d, "user") /\ UNCHANGED msgs
    /\ Finish(d)
    /\ UNCHANGED <<serving, handle, queue, newMsg, result, exported>>

\* ImportObject reads the exported objects of the target under their mutex.
ImportObject(d) ==
    /\ pc[d] = "import"
    /\ Goto(d, "release")
    /\ UNCHANGED <<op, serving, handle, mail>>

\* Enqueue, under the mutex of the queue.
Enqueue(d) ==
    LET c == Target(d)
        m == op[d].msg
    IN /\ pc[d] = "enqueue"
       /\ queue' = [queue EXCEPT ![c] = Append(@, m)]
       /\ msgs' = [msgs EXCEPT ![m].at = "queued"]
       /\ Goto(d, "pulse")
       /\ UNCHANGED <<op, serving, handle, newMsg, result, exported>>

\* Where a sender goes after it has pulsed the queue of the target.
Sent(d) == IF op[d].kind = "sync" THEN "await" ELSE "release"

\* Enqueue pulses m_newMessageWaitObject after it has left the mutex.
PulseQueue(d) ==
    /\ pc[d] = "pulse"
    /\ newMsg' = [newMsg EXCEPT ![Target(d)] = TRUE]
    /\ Goto(d, IF Win32 THEN Sent(d) ELSE "pulsed")
    /\ UNCHANGED <<op, serving, handle, queue, result, exported, msgs>>

ResetQueuePulse(d) ==
    /\ pc[d] = "pulsed"
    /\ newMsg' = [newMsg EXCEPT ![Target(d)] = FALSE]
    /\ Goto(d, Sent(d))
    /\ UNCHANGED <<op, serving, handle, queue, result, exported, msgs>>

\* SendMessageSync wakes up on the result object of its domain and looks at
\* the message.
ResultArrives(d) ==
    LET m == op[d].msg
        failed == msgs[m].ret = "error"
    IN /\ pc[d] = "await"
       /\ result[d]
       /\ result' = [result EXCEPT ![d] = FALSE]
       /\ msgs' = Saw(m, IF failed THEN "error" ELSE "ok")
       /\ op' = [op EXCEPT ![d].abort = failed]
       /\ Goto(d, "release")
       /\ UNCHANGED <<serving, handle, queue, newMsg, exported>>

\* Mutants of ResultTimeout: the caller does not look at what the wait
\* returned, and waits forever.
ResultTimeoutIgnored(d) ==
    /\ pc[d] = "await"
    /\ ~result[d]
    /\ msgs' = Saw(op[d].msg, "ok")
    /\ Goto(d, "release")
    /\ UNCHANGED <<op, serving, handle, queue, newMsg, result, exported>>
ResultAwaitedForever(d) ==
    /\ pc[d] = "await"
    /\ result[d]
    /\ UNCHANGED vars

\* REMOTECALL_TIMEOUT: the call aborts; its message stays where it is.
ResultTimeout(d) ==
    /\ pc[d] = "await"
    /\ ~result[d]
    /\ msgs' = Saw(op[d].msg, "timeout")
    /\ op' = [op EXCEPT ![d].abort = TRUE]
    /\ Goto(d, "release")
    /\ UNCHANGED <<serving, handle, queue, newMsg, result, exported>>

\* An operation is over, and an abort goes on.
EndOperation(d) ==
    /\ Finish(d)
    /\ IF op[d].abort THEN Abort(d, msgs) ELSE Goto(d, "user") /\ UNCHANGED msgs

\* The Auto<CDomain> of an operation is released.
Release(d) ==
    /\ pc[d] = "release"
    /\ LoadCount(d, Target(d))
    /\ Goto(d, "drop")
    /\ UNCHANGED <<op, serving, ready, slot, current, mail>>

\* The domain thread d is letting go of: its own, or the target of its operation.
Dropped(d) == IF pc[d] \in {"leaving", "left", "epilog"} THEN d ELSE Target(d)

\* Unref() compares the count with 0; ~CDomain runs on the thread that finds it.
Unreferenced(d, zero) ==
    LET c == Dropped(d)
    IN CASE zero -> /\ live' = [live EXCEPT ![c] = FALSE]
                    /\ Goto(d, IF c = d THEN "epilog" ELSE "destroy")
                    /\ UNCHANGED <<op, msgs>>
         [] ~zero /\ c = d -> Goto(d, "dead") /\ UNCHANGED <<live, op, msgs>>
         [] OTHER -> EndOperation(d) /\ UNCHANGED live

Drop(d) ==
    /\ pc[d] \in {"drop", "leaving"}
    /\ count' = [count EXCEPT ![Dropped(d)] = loaded[d] - 1]
    /\ loaded' = [loaded EXCEPT ![d] = 0]
    /\ IF Rereads THEN /\ Goto(d, IF pc[d] = "drop" THEN "dropped" ELSE "left")
                       /\ UNCHANGED <<live, op, msgs>>
                  ELSE Unreferenced(d, loaded[d] = 1)
    /\ UNCHANGED <<serving, ready, slot, current, queue, newMsg, result, exported>>

\* The count is read again.  If the other thread has destroyed the domain
\* meanwhile, whatever is in its memory is read.
Reread(d) ==
    LET c == Dropped(d)
    IN /\ pc[d] \in {"dropped", "left"}
       /\ \E zero \in IF live[c] THEN {count[c] = 0} ELSE BOOLEAN :
             Unreferenced(d, zero)
       /\ UNCHANGED <<serving, ready, slot, count, loaded, current,
                      queue, newMsg, result, exported>>

\* Mutant of EndDestroy: g_domain is cleared whatever thread this is.
EndDestroyForgets(d) ==
    LET c == Dropped(d)
    IN /\ pc[d] \in {"destroy", "epilog"}
       /\ queue' = [queue EXCEPT ![c] = <<>>]
       /\ current' = [current EXCEPT ![d] = None]
       /\ IF c = d THEN Goto(d, "dead") /\ UNCHANGED <<op, msgs>> ELSE EndOperation(d)
       /\ UNCHANGED <<serving, ready, slot, counts, newMsg, result, exported>>

\* The rest of ~CDomain: static destructors and destructors are Skizo code of
\* the dead domain, run by thread d.  Then the queue goes, and g_domain is
\* cleared if d is the domain's own thread.
EndDestroy(d) ==
    LET c == Dropped(d)
    IN /\ pc[d] \in {"destroy", "epilog"}
       /\ queue' = [queue EXCEPT ![c] = <<>>]
       /\ IF c = d THEN /\ current' = [current EXCEPT ![d] = None]
                        /\ Goto(d, "dead")
                        /\ UNCHANGED <<op, msgs>>
                   ELSE EndOperation(d) /\ UNCHANGED current
       /\ UNCHANGED <<serving, ready, slot, counts, newMsg, result, exported>>

\* Wait() joins the thread.  On Win32 the join gives up after its timeout, and
\* Wait() does not look at that.
Join(d) ==
    /\ pc[d] = "join"
    /\ pc[Target(d)] = "dead" \/ Win32
    /\ Goto(d, "user")
    /\ Finish(d)
    /\ UNCHANGED <<serving, handle, mail>>

(***************************************************************************)
(* Domain::listen and the exports of a domain.                             *)
(***************************************************************************)
Export(d) ==
    /\ pc[d] = "user"
    /\ exported' = [exported EXCEPT ![d] = TRUE]
    /\ UNCHANGED <<control, handle, queue, newMsg, result, msgs>>

Unexport(d) ==
    /\ pc[d] = "user" /\ exported[d]
    /\ exported' = [exported EXCEPT ![d] = FALSE]
    /\ UNCHANGED <<control, handle, queue, newMsg, result, msgs>>

\* Also inside a server stub, or inside the stop predicate.
Listen(d) ==
    /\ pc[d] = "user"
    /\ Goto(d, "poll")
    /\ UNCHANGED <<op, serving, handle, mail>>

\* The stop predicate returns false.
StopListening(d) ==
    /\ pc[d] = "poll"
    /\ Goto(d, "user")
    /\ UNCHANGED <<op, serving, handle, mail>>

\* Mutant of Retrieve: the message is peeked at and not dequeued.
RetrieveByPeeking(d) ==
    LET m == Head(queue[d])
    IN /\ pc[d] \in {"poll", "repoll"}
       /\ queue[d] # <<>>
       /\ msgs' = [msgs EXCEPT ![m].at = "taken"]
       /\ serving' = [serving EXCEPT ![d] = <<m>> \o @]
       /\ Goto(d, "dispatch")
       /\ UNCHANGED <<op, handle, queue, newMsg, result, exported>>

\* tryRetrieveMessage, before and after Poll has waited.
Retrieve(d) ==
    LET m == Head(queue[d])
    IN /\ pc[d] \in {"poll", "repoll"}
       /\ queue[d] # <<>>
       /\ queue' = [queue EXCEPT ![d] = Tail(@)]
       /\ msgs' = [msgs EXCEPT ![m].at = "taken"]
       /\ serving' = [serving EXCEPT ![d] = <<m>> \o @]
       /\ Goto(d, "dispatch")
       /\ UNCHANGED <<op, handle, newMsg, result, exported>>

RetrieveNothing(d) ==
    /\ pc[d] \in {"poll", "repoll"}
    /\ queue[d] = <<>>
    /\ Goto(d, IF pc[d] = "poll" THEN "pollwait" ELSE "poll")
    /\ UNCHANGED <<op, serving, handle, mail>>

NewMessage(d) ==
    /\ pc[d] = "pollwait"
    /\ newMsg[d]
    /\ newMsg' = [newMsg EXCEPT ![d] = FALSE]
    /\ Goto(d, "repoll")
    /\ UNCHANGED <<op, serving, handle, queue, result, exported, msgs>>

\* Mutant of PollTimeout: Poll waits without a timeout.
PollForever(d) ==
    /\ pc[d] = "pollwait"
    /\ newMsg[d]
    /\ UNCHANGED vars

\* MESSAGEQUEUE_TIMEOUT: Poll returns null and the loop starts again.
PollTimeout(d) ==
    /\ pc[d] = "pollwait"
    /\ ~newMsg[d]
    /\ Goto(d, "poll")
    /\ UNCHANGED <<op, serving, handle, mail>>

\* The object, its method and its server stub are found: the stub runs.
CallStub(d) ==
    /\ pc[d] = "dispatch"
    /\ exported[d]
    /\ Goto(d, "user")
    /\ UNCHANGED <<op, serving, handle, mail>>

\* One of them is not found, or the arguments do not unpack.
Refuse(d) ==
    /\ pc[d] = "dispatch"
    /\ msgs' = [msgs EXCEPT ![Head(serving[d])].ret = "error"]
    /\ Goto(d, "answer")
    /\ UNCHANGED <<op, serving, handle, queue, newMsg, result, exported>>

\* The stub returns and its result is serialized into the message.
StubReturns(d) ==
    /\ pc[d] = "user" /\ serving[d] # <<>>
    /\ msgs' = [msgs EXCEPT ![Head(serving[d])].ret = "ok"]
    /\ Goto(d, "answer")
    /\ UNCHANGED <<op, serving, handle, queue, newMsg, result, exported>>

\* The result object of a blocking message is pulsed.
Answer(d) ==
    LET m == Head(serving[d])
    IN /\ pc[d] = "answer"
       /\ msgs[m].sync
       /\ result' = [result EXCEPT ![msgs[m].from] = TRUE]
       /\ IF Win32 THEN /\ Goto(d, "poll")
                        /\ serving' = [serving EXCEPT ![d] = Tail(@)]
                        /\ msgs' = [msgs EXCEPT ![m].at = "done"]
                   ELSE Goto(d, "answered") /\ UNCHANGED <<serving, msgs>>
       /\ UNCHANGED <<op, handle, queue, newMsg, exported>>

ResetAnswer(d) ==
    LET m == Head(serving[d])
    IN /\ pc[d] = "answered"
       /\ result' = [result EXCEPT ![msgs[m].from] = FALSE]
       /\ Goto(d, "poll")
       /\ serving' = [serving EXCEPT ![d] = Tail(@)]
       /\ msgs' = [msgs EXCEPT ![m].at = "done"]
       /\ UNCHANGED <<op, handle, queue, newMsg, exported>>

\* Nobody waits for the result of an asynchronous message.
Forget(d) ==
    /\ pc[d] = "answer"
    /\ ~msgs[Head(serving[d])].sync
    /\ Goto(d, "poll")
    /\ serving' = [serving EXCEPT ![d] = Tail(@)]
    /\ msgs' = [msgs EXCEPT ![Head(serving[d])].at = "done"]
    /\ UNCHANGED <<op, handle, queue, newMsg, result, exported>>

-----------------------------------------------------------------------------
\* What the runtime does by itself on the thread of d: it goes on, and its
\* timers expire.
RuntimeStep(d) ==
    \/ CreateDomain(d) \/ CreateDomainFails(d) \/ SetDomain(d)
    \/ SignalDomainIsReady(d) \/ ResetReadiness(d)
    \/ ClearDomain(d) \/ LeaveThread(d)
    \/ DomainIsReady(d) \/ ReadinessTimeout(d) \/ GetDomain(d) \/ DomainIsGone(d)
    \/ CountReference(d) \/ ImportObject(d) \/ Enqueue(d) \/ PulseQueue(d) \/ ResetQueuePulse(d)
    \/ ResultArrives(d) \/ ResultTimeout(d) \/ Join(d)
    \/ Release(d) \/ Drop(d) \/ Reread(d)
    \/ Retrieve(d) \/ RetrieveNothing(d) \/ NewMessage(d) \/ PollTimeout(d)
    \/ CallStub(d) \/ Refuse(d)
    \/ Answer(d) \/ ResetAnswer(d) \/ Forget(d)

\* What the Skizo code of d decides to do.
UserStep(d) ==
    \/ \E c \in Domains \ {Base} :
          \/ CreateRemoteDomain(d, c)
          \/ \E kind \in Kinds : Begin(d, c, kind)
    \/ Export(d) \/ Unexport(d)
    \/ Listen(d) \/ StopListening(d) \/ StubReturns(d) \/ EndDestroy(d)
    \/ AbortInUserCode(d) \/ ReturnFromMain(d)

Next == \E d \in Domains : RuntimeStep(d) \/ UserStep(d)

Spec == Init /\ [][Next]_vars

\* The operating system runs every thread; Skizo code may do anything, even
\* nothing, so no step of it is fair but that the destructors return.
FairSpec == Spec /\ \A d \in Domains : /\ WF_vars(RuntimeStep(d))
                                       /\ WF_vars(EndDestroy(d))

-----------------------------------------------------------------------------
Places == {"none", "create", "publish", "signal", "signalled", "user",
           "ready?", "lock", "ref", "import", "enqueue", "pulse", "pulsed",
           "await", "release", "drop", "dropped", "destroy", "join",
           "poll", "pollwait", "repoll", "dispatch", "answer", "answered",
           "unpublish", "leave", "leaving", "left", "epilog", "dead"}
Ids == 1..MaxMsgs
Ops == [kind: Kinds \cup {"none"}, target: Domains \cup {None},
        msg: Ids \cup {None}, abort: BOOLEAN]
Messages == [from: Domains, to: Domains, sync: BOOLEAN,
             at: {"made", "queued", "taken", "done"},
             ret: {"none", "ok", "error"},
             saw: {"none", "ok", "error", "timeout", "gone"}]

\* Where a thread is in an operation of a handle, and where in listen().
InOperation(d) == pc[d] \in {"ready?", "lock", "ref", "import", "enqueue",
                             "pulse", "pulsed", "await", "release", "drop",
                             "dropped", "destroy", "join"}
Serves(d) == pc[d] \in {"dispatch", "answer", "answered"}
Polls(d) == pc[d] \in {"poll", "pollwait", "repoll"}

TypeOK == /\ pc \in [Domains -> Places]
          /\ op \in [Domains -> Ops]
          /\ serving \in [Domains -> Seq(Ids)]
          /\ ready \in [Domains -> {"off", "on", "null"}]
          /\ slot \in [Domains -> BOOLEAN]
          /\ live \in [Domains -> BOOLEAN]
          /\ count \in [Domains -> 0..2]
          /\ loaded \in [Domains -> 0..2]
          /\ current \in [Domains -> Domains \cup {None}]
          /\ queue \in [Domains -> Seq(Ids)]
          /\ newMsg \in [Domains -> BOOLEAN]
          /\ result \in [Domains -> BOOLEAN]
          /\ exported \in [Domains -> BOOLEAN]
          /\ msgs \in Seq(Messages)
          /\ Len(msgs) <= MaxMsgs
          /\ \A d \in Domains :
               /\ InOperation(d) <=> op[d] # NoOp
               /\ Serves(d) => serving[d] # <<>>
               /\ serving[d] # <<>> => Serves(d) \/ InOperation(d) \/ Polls(d)
                                                  \/ pc[d] = "user"

\* Where the thread of a domain is in it, until its Unref() has stored the
\* count, and where its creator works on the CDomain behind the handle.
Alive(d) == pc[d] \notin {"none", "create", "left", "epilog", "dead"}
InDomain(d) == pc[d] \in {"import", "enqueue", "pulse", "pulsed", "await",
                          "release", "drop"}

\* The handle's Domain field is weak: it never leads to a destroyed domain, and
\* neither the domain's own thread nor a call or an import of its creator is in
\* a destroyed domain, although both count their references with plain loads
\* and stores that may overwrite each other.
NeverDangles == /\ \A c \in Domains : slot[c] => live[c]
                /\ \A d \in Domains : Alive(d) => live[d]
                /\ \A d \in Domains : InDomain(d) => live[Target(d)]

\* Not so: of two overlapping Unref() one is lost, and the domain stays.
LastReferenceDestroys ==
    \A c \in Domains \ {Base} :
        /\ pc[c] = "dead"
        /\ InOperation(Creator[c]) => Target(Creator[c]) # c
        => ~live[c]

\* Not so if Rereads: both Unref() find 0, or one looks after the other's ~CDomain.
DestroyedOnce ==
    \A d \in Domains : pc[d] \in {"dropped", "left"} => live[Dropped(d)]

\* A thread that runs its domain, its static destructors and destructors
\* included, has it as g_domain, although the thread may have run ~CDomain of
\* another domain before.
ThreadKnowsItsDomain ==
    \A d \in Domains : Alive(d) \/ pc[d] = "epilog" => current[d] = d

\* Not so: ForCurrentThread() is the creator where the creator's thread runs the
\* destructors of the domain it has let go last.
CodeKnowsItsDomain ==
    \A d \in Domains : pc[d] = "destroy" => current[d] = Target(d)

\* Messages are taken in the order of the calls, and each once: none is queued
\* or taken before an earlier one to the same target, the messages taken and
\* not finished are those of the stubs that run, an inner stub serves a later
\* message, and the queue of a live domain holds exactly those nobody has taken.
Rank(m) == CASE msgs[m].at = "made" -> 0 [] msgs[m].at = "queued" -> 1 [] OTHER -> 2
MessagesInOrder ==
    /\ \A m, n \in DOMAIN msgs :
         m < n /\ msgs[m].to = msgs[n].to /\ msgs[m].at # "made"
            => Rank(n) <= Rank(m)
    /\ \A d \in Domains :
         /\ \A i, j \in DOMAIN serving[d] : i < j => serving[d][i] > serving[d][j]
         /\ {serving[d][i] : i \in DOMAIN serving[d]} =
               {m \in DOMAIN msgs : msgs[m].to = d /\ msgs[m].at = "taken"}
    /\ \A d \in Domains : live[d] =>
         /\ \A i, j \in DOMAIN queue[d] : i < j => queue[d][i] < queue[d][j]
         /\ {queue[d][i] : i \in DOMAIN queue[d]} =
               {m \in DOMAIN msgs : msgs[m].to = d /\ msgs[m].at = "queued"}

\* A call that returns normally has been executed, and not refused or aborted,
\* unless an earlier call of the same domain has timed out.
ReturnsWhenExecuted ==
    \A m \in DOMAIN msgs :
        msgs[m].saw = "ok" /\ msgs[m].ret # "ok"
            => \E n \in 1..(m - 1) : /\ msgs[n].from = msgs[m].from
                                     /\ msgs[n].saw = "timeout"

\* Remoting.h, of SendMessageSync: "The message blocks the thread until the
\* function returns."
BlocksUntilReturn == \A m \in DOMAIN msgs : msgs[m].saw = "ok" => msgs[m].ret = "ok"

\* Remoting.h: a handle gets through "when the remote domain is created": from
\* the signal on, an operation that waits for the readiness does not time out.
ReadinessIsVisible ==
    \A c \in Domains \ {Base} :
        Alive(c) /\ pc[c] \notin {"publish", "signal"} => ready[c] # "off"

\* The new domain never pulses a readiness object its creator has released.
PulsesLiveObject ==
    \A c \in Domains : pc[c] \in {"signal", "signalled"} => ready[c] # "null"

\* No handle operation but Wait() blocks its domain for good: not when the new
\* domain fails to start, nor when it terminates, stops listening or never did.
OperationsEnd ==
    \A d \in Domains : op[d].kind \in {"sync", "async", "import", "alive"}
                           ~> op[d].kind = "none"

\* A message does not wait while its target polls, even if the pulse is lost.
QueuedMessageIsTaken ==
    \A d \in Domains : Polls(d) /\ queue[d] # <<>> ~> ~Polls(d)
=============================================================================
