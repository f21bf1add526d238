------------------------------ MODULE VirtualStack ------------------------------
(***************************************************************************)
(* The virtual stack of a domain: the method of each running call, kept    *)
(* beside the native stack by code the emitter puts into every method, and *)
(* the locals that methods with breakpoints register.  Aborts are C++      *)
(* exceptions: they leave the native stack up to a handler, and only       *)
(* Domain::try and the caller of static constructors restore the virtual   *)
(* one.                                                                    *)
(*                                                                         *)
(* A domain first calls its static constructors, then its entry point, and *)
(* at its end the static destructors.  What methods call is arbitrary.     *)
(***************************************************************************)
EXTENDS Integers, Sequences

CONSTANTS Methods,      \* methods that can be called
          Unsafe,       \* those with inline C: they push no frame
          Breaks,       \* those with a break expression
          HasLocals,    \* those with "this", parameters or locals
          Guarded,      \* static methods of a class with a static constructor
          Cctor, Cdtor, \* the static constructor and destructor of that class
          StackLimit,   \* calls that fit the native stack
          MaxFrames,    \* bound: entries of the virtual stack
          None

ASSUME VirtualStackAssumption ==
    /\ Unsafe \cup Breaks \cup HasLocals \cup Guarded \subseteq Methods
    /\ {Cctor, Cdtor} \subseteq Guarded /\ None \notin Methods
    /\ StackLimit \in Nat /\ MaxFrames \in Nat

VARIABLES
    phase,       \* "prolog", "main", "dying" (the epilog),
                 \* "ended" (judgement day), "terminated"
    calls,       \* the native stack: calls of methods, and handlers of exceptions
    frames,      \* m_stackFrames
    debug,       \* m_debugDataStack: the method of each frame of locals
    initialized, \* E_CLASSFLAGS_IS_INITIALIZED of the class
    leaked,      \* history: a handler has left entries behind
    corrected    \* history: a stack overflow has shortened the stack trace
vars == <<phase, calls, frames, debug, initialized, leaked, corrected>>

Program == Methods \ {Cctor, Cdtor}
IsSafe(m) == m \notin Unsafe
ShouldEmitReglocalsCode(m) == m \in Breaks /\ IsSafe(m) /\ m \in HasLocals

\* An entry of the native stack, with how many frames and locals there were when it was
\* pushed.  Those of a handler are what SVirtualUnwinder remembers, those of a call are
\* history; "locals" says that the locals of a call are registered.
Entry(k, m, locals) == [kind |-> k, method |-> m, locals |-> locals,
                        frames |-> Len(frames), debug |-> Len(debug)]
MethodCall(m) == Entry("method", m, ShouldEmitReglocalsCode(m))
Handler(k)    == Entry(k, None, FALSE)

Top       == calls[Len(calls)]
Running   == calls # <<>> /\ Top.kind = "method"

Init == /\ phase = "prolog"
        /\ calls = <<>> /\ frames = <<>> /\ debug = <<>>
        /\ initialized = TRUE
        /\ leaked = FALSE /\ corrected = FALSE

-----------------------------------------------------------------------------
(***************************************************************************)
(* Aborts and other exceptions: they go to the nearest handler that takes  *)
(* them.  stack, fs and ds are the three stacks when it is thrown.         *)
(***************************************************************************)
Catches(kind, thrown) == \/ kind \in {"try", "dtor"}
                         \/ kind \in {"cctor", "listen", "epilog"} /\ thrown = "abort"

\* The first n, if there are as many.
FirstOf(s, n) == SubSeq(s, 1, IF n < Len(s) THEN n ELSE Len(s))

\* What comes when a handler has been left, and when nobody takes the exception.
PhaseAfter(kind) ==
    CASE kind = "cctor"  -> "main"
      [] kind = "epilog" -> "ended"
      [] OTHER           -> phase
PhaseUncaught ==
    CASE phase = "prolog" -> "ended"
      [] phase = "main"   -> "dying"
      [] OTHER            -> "terminated"

\* SVirtualUnwinder::Unwind; nobody else restores anything.  Mutant: nothing is.
UnwindNothing(fs, ds, handler) == frames' = fs /\ debug' = ds
Unwind(fs, ds, handler) ==
    /\ frames' = IF handler.kind \in {"try", "cctor"} THEN FirstOf(fs, handler.frames) ELSE fs
    /\ debug'  = IF handler.kind \in {"try", "cctor"} THEN FirstOf(ds, handler.debug) ELSE ds

LeavesBehind(fs, ds, handler) ==
    /\ handler.kind \notin {"try", "cctor"}
    /\ Len(fs) > handler.frames \/ Len(ds) > handler.debug

CatchesNone(stack, from, thrown) == \A j \in from..Len(stack) : ~Catches(stack[j].kind, thrown)

Throw(thrown, stack, fs, ds) ==
    \/ \E h \in DOMAIN stack :
          /\ Catches(stack[h].kind, thrown) /\ CatchesNone(stack, h + 1, thrown)
          /\ calls' = FirstOf(stack, IF stack[h].kind = "listen" THEN h ELSE h - 1)
          /\ Unwind(fs, ds, stack[h])
          /\ leaked' = (leaked \/ LeavesBehind(fs, ds, stack[h]))
          /\ initialized' = (initialized /\ stack[h].kind # "cctor")
          /\ phase' = PhaseAfter(stack[h].kind)
    \/ /\ CatchesNone(stack, 1, thrown)
       /\ calls' = <<>> /\ frames' = fs /\ debug' = ds
       /\ leaked' = (leaked \/ fs # <<>> \/ ds # <<>>)
       /\ phase' = PhaseUncaught
       /\ UNCHANGED initialized

\* correctStackTraceAfterStackOverflow: the calls on top repeat a pattern (up to
\* the first method of it); all of its repetitions but two go.
Pattern(fs) ==
    LET n == Len(fs)
        again == {k \in 1..(n - 1) : fs[n - k] = fs[n]}
    IN IF again = {} THEN n ELSE CHOOSE k \in again : \A j \in again : k <= j
CorrectStackTrace(fs) ==
    LET n == Len(fs)
        p == Pattern(fs)
        repeats == {k \in 0..(n \div p) : \A j \in 0..(k * p - 1) : fs[n - j] = fs[n - (j % p)]}
        loops == CHOOSE k \in repeats : \A j \in repeats : j <= k
    IN IF n = 0 \/ loops < 2 THEN fs ELSE SubSeq(fs, 1, n - (loops - 2) * p)

-----------------------------------------------------------------------------
(***************************************************************************)
(* A method is called: SO_DETECT_STACK_OVERFLOW, the frame, the check that *)
(* its class is initialized, its locals.                                   *)
(***************************************************************************)
\* Mutant of Enter: static methods do not check their class.
EnterUnchecked(m, stack) ==
    LET fs == IF IsSafe(m) THEN Append(frames, m) ELSE frames
    IN \/ /\ Len(stack) = StackLimit /\ IsSafe(m)
          /\ corrected' = (corrected \/ CorrectStackTrace(frames) # frames)
          /\ Throw("abort", stack, CorrectStackTrace(frames), debug)
       \/ /\ Len(stack) < StackLimit /\ Len(fs) <= MaxFrames /\ Len(debug) < MaxFrames
          /\ calls' = Append(stack, MethodCall(m))
          /\ frames' = fs
          /\ debug' = IF ShouldEmitReglocalsCode(m) THEN Append(debug, m) ELSE debug
          /\ UNCHANGED <<phase, initialized, leaked, corrected>>

Enter(m, stack) ==
    LET fs == IF IsSafe(m) THEN Append(frames, m) ELSE frames
    IN \/ /\ Len(stack) = StackLimit /\ IsSafe(m)
          /\ corrected' = (corrected \/ CorrectStackTrace(frames) # frames)
          /\ Throw("abort", stack, CorrectStackTrace(frames), debug)
       \/ /\ Len(stack) < StackLimit /\ Len(fs) <= MaxFrames /\ Len(debug) < MaxFrames
          /\ \/ /\ m \in Guarded /\ ~initialized
                /\ Throw("abort", stack, fs, debug)
                /\ UNCHANGED corrected
             \/ /\ m \in Guarded => initialized
                /\ calls' = Append(stack, MethodCall(m))
                /\ frames' = fs
                /\ debug' = IF ShouldEmitReglocalsCode(m) THEN Append(debug, m) ELSE debug
                /\ UNCHANGED <<phase, initialized, leaked, corrected>>

\* A handler that calls the method.
Invoke(kind, m) == /\ Len(calls) < StackLimit
                   /\ Enter(m, Append(calls, Handler(kind)))

\* The prolog, the entry point, the epilog.
RunCctor  == phase = "prolog" /\ calls = <<>> /\ Invoke("cctor", Cctor)
RunMain   == phase = "main" /\ calls = <<>> /\ \E m \in Program : Enter(m, <<>>)
RunEpilog == phase = "dying" /\ calls = <<>> /\ Invoke("epilog", Cdtor)

Call(m) == Running /\ Enter(m, calls)
Try(m)  == Running /\ Invoke("try", m)

\* A collection runs destructors; a destructor is never interrupted by another.
RunDestructor(m) == /\ Running \/ (phase = "ended" /\ calls = <<>>)
                    /\ \A i \in DOMAIN calls : calls[i].kind # "dtor"
                    /\ Invoke("dtor", m)

\* Domain::listen calls the methods that other domains ask for.
StartListening == /\ Running /\ Len(calls) < StackLimit
                  /\ calls' = Append(calls, Handler("listen"))
                  /\ UNCHANGED <<phase, frames, debug, initialized, leaked, corrected>>
Serve(m) == calls # <<>> /\ Top.kind = "listen" /\ Enter(m, calls)
StopListening == /\ calls # <<>> /\ Top.kind = "listen"
                 /\ calls' = FirstOf(calls, Len(calls) - 1)
                 /\ UNCHANGED <<phase, frames, debug, initialized, leaked, corrected>>

Abort == /\ Running
         /\ Throw("abort", calls, frames, debug)
         /\ UNCHANGED corrected

\* CDomain::Break takes the locals off and puts them back; without locals, or
\* without a frame to show, CStack throws.  (It changes nothing otherwise.)
BreakFails == /\ Running /\ Top.method \in Breaks
              /\ debug = <<>> \/ frames = <<>>
              /\ Throw("exception", calls, frames, IF debug = <<>> THEN debug ELSE FirstOf(debug, Len(debug) - 1))
              /\ UNCHANGED corrected

\* The way out of a method: first the locals (the value that is returned is
\* evaluated after that), then the frame.
UnregLocals ==
    /\ Running /\ Top.locals
    /\ \/ /\ debug = <<>>
          /\ Throw("exception", calls, frames, debug)
          /\ UNCHANGED corrected
       \/ /\ debug # <<>>
          /\ debug' = FirstOf(debug, Len(debug) - 1)
          /\ calls' = [calls EXCEPT ![Len(calls)].locals = FALSE]
          /\ UNCHANGED <<phase, frames, initialized, leaked, corrected>>

\* The handler under the method is left with it, but for Listen.
LeaveMethod ==
    LET n == Len(calls) - 1
    IN FirstOf(calls, IF n > 0 /\ calls[n].kind \notin {"method", "listen"} THEN n - 1 ELSE n)
PhaseAfterReturn ==
    IF Len(calls) = 1 THEN "dying" ELSE PhaseAfter(calls[Len(calls) - 1].kind)

Return ==
    /\ Running /\ ~Top.locals
    /\ \/ /\ IsSafe(Top.method) /\ frames = <<>>
          /\ Throw("exception", calls, frames, debug)
          /\ UNCHANGED corrected
       \/ /\ IsSafe(Top.method) => frames # <<>>
          /\ calls' = LeaveMethod
          /\ phase' = PhaseAfterReturn
          /\ frames' = IF IsSafe(Top.method) THEN FirstOf(frames, Len(frames) - 1) ELSE frames
          /\ UNCHANGED <<debug, initialized, leaked, corrected>>

Next == \/ RunCctor \/ RunMain \/ RunEpilog
        \/ \E m \in Program : Call(m) \/ Try(m) \/ RunDestructor(m) \/ Serve(m)
        \/ StartListening \/ StopListening
        \/ Abort \/ BreakFails \/ UnregLocals \/ Return

Spec == Init /\ [][Next]_vars

-----------------------------------------------------------------------------
Kinds   == {"method", "try", "cctor", "dtor", "listen", "epilog"}
Entries == [kind : Kinds, method : Methods \cup {None}, locals : BOOLEAN,
            frames : Nat, debug : Nat]
TypeOK == /\ phase \in {"prolog", "main", "dying", "ended", "terminated"}
          /\ calls \in Seq(Entries) /\ frames \in Seq(Methods) /\ debug \in Seq(Methods)
          /\ initialized \in BOOLEAN /\ leaked \in BOOLEAN /\ corrected \in BOOLEAN

\* How many frames and locals there are when the entry is the last one.
Framed(c)      == c.kind = "method" /\ IsSafe(c.method)
FramesAfter(c) == c.frames + (IF Framed(c) THEN 1 ELSE 0)
LocalsAfter(c) == c.debug + (IF c.locals THEN 1 ELSE 0)

\* The frame of each call is where the call has pushed it, above those of the calls
\* below it; and so are its locals.
FramesKept(stack, fs) ==
    \A i \in DOMAIN stack : /\ FramesAfter(stack[i]) <= Len(fs)
                            /\ \A j \in 1..(i - 1) : FramesAfter(stack[j]) <= stack[i].frames
                            /\ Framed(stack[i]) => fs[stack[i].frames + 1] = stack[i].method
LocalsKept(stack, ds) ==
    \A i \in DOMAIN stack : /\ LocalsAfter(stack[i]) <= Len(ds)
                            /\ \A j \in 1..(i - 1) : LocalsAfter(stack[j]) <= stack[i].debug
                            /\ stack[i].locals => ds[stack[i].debug + 1] = stack[i].method

\* Each entry was pushed on what those below it have pushed, and nothing else.
Exact(stack) ==
    \A i \in DOMAIN stack :
       /\ stack[i].frames = IF i = 1 THEN 0 ELSE FramesAfter(stack[i - 1])
       /\ stack[i].debug  = IF i = 1 THEN 0 ELSE LocalsAfter(stack[i - 1])
NothingElse(stack, fs, ds) ==
    /\ Len(fs) = IF stack = <<>> THEN 0 ELSE FramesAfter(stack[Len(stack)])
    /\ Len(ds) = IF stack = <<>> THEN 0 ELSE LocalsAfter(stack[Len(stack)])

\* Domain::try and static constructors unwind exactly: as long as no other
\* handler has left something behind, the stack trace is the running calls and
\* the debugger sees their locals, whatever was aborted.  And what Listen, a destructor
\* or the end of the program leaves behind never pushes a running call out of the stack
\* trace: no call pops the frame of another.
StackBalanced ==
    /\ corrected = FALSE => FramesKept(calls, frames)
    /\ corrected = FALSE /\ leaked = FALSE =>
          LocalsKept(calls, debug) /\ Exact(calls) /\ NothingElse(calls, frames, debug)

\* No static method of a class whose static constructor has aborted is running,
\* even one that was called before the abort.
FailedClassStaysIdle ==
    initialized = FALSE => \A i \in DOMAIN calls : calls[i].method \notin Guarded

\* "Virtual frames should be correctly unwound in Domain::try(..)"
\* (Security.cpp:277): after it, all the running calls are in the stack trace.
FramesAreUnwound == FramesKept(calls, frames)
====
