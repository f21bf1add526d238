# A formal model of the Skizo runtime

Skizo (`src/`) is a language and its run time in C++: it parses a program, infers its types, emits C, compiles
that in memory with TCC and runs it. A program is divided into *domains*; each has a thread, a heap with its
garbage collector and its own permissions, and domains talk by messages. This directory holds TLA+ models of the
compiler, the run time and the library under them, TLC configurations that check them on small instances, and
TLAPS proofs for every size.

## 1. Inventory

Paths are relative to `src/src/`.

| component | state | operations | interacts with |
|---|---|---|---|
| Wait objects (`WaitObject.h`, `native/*/WaitObject.*`, `CThread::Wait`) | Win32: a kernel event; POSIX: a mutex, a condition variable, a signalled bit | Pulse, Wait with a timeout | threads, domain handles, message queues |
| Domain handles and messages (`Remoting.cpp`, `icalls/Domain.cpp`) | `CDomainHandle` (weak pointer, readiness object), the message queue, `ExportedObjs` | Domain::run, isAlive, wait, importObject, remote calls, listen, export | two threads per handle; the collector |
| Memory manager (`MemoryManager.cpp`) | roots, root holders, `m_destructables`, string literals, the memory count | Allocate, CollectGarbage, AddGCRoot, RemoveGCRoot, memory pressure | Skizo code (through destructors), the pool allocator, ~CDomain, importing domains |
| Pool allocator (`PoolAllocator.cpp`) | pools with free lists, arenas, the set of large objects, pending frees | Allocate, Free, IsValidPointer, EnumerateObjects | the collector frees from inside an enumeration |
| Collections (`Queue.h`, `HashMap.h`, `PointerSet.h`, ...) | buffers with indices and counts | add, remove, resize | everything |
| Domain life (`Domain.cpp`) | modules, classes, strings, `g_domain` | CreateDomain, InvokeEntryPoint, ~CDomain | all of the above |
| Virtual stack, aborts, `Domain::try` (`RuntimeHelpers.cpp`, `Domain.cpp`) | the frames of Skizo methods and their registered locals | push, pop, unwind | exceptions of C++ |
| Type initialization (`RuntimeHelpers.cpp`, `Emitter.cpp`) | a class's initialization flag | static constructors on first use, the epilog | allocation, the virtual stack |
| Threads (`Thread.cpp`, `native/*/Thread.*`) | state, handle, reference count, the list of known threads | Start, Join, Abort, the new thread | domains, the program |
| Tokenizer, parser (`Tokenizer.cpp`, `Parser.cpp`) | the position in the text; pending modifiers; the stacks of open calls and bodies | one pass over a module | the transformer |
| Transformer and type resolution (`Transformer.cpp`, `TypeResolution.cpp`) | the queue of classes, the current method, classes made on demand | resolve, infer, merge extensions, capture | classes and methods |
| Classes, methods, reflection (`Class.cpp`, `Method.cpp`) | tables of members and methods, layout, the cache of interfaces | look up, finalize, calculate the GC map | transformer, emitter, run time |
| Emitter (`Emitter.cpp`) | what has been written | one pass for each section of the C text | TCC |
| Thunks and native calls (`ThunkManager.cpp`) | executable pages | make thunks, compile a boxed method at its first call | the collector, reflection |
| Message serialization (`Remoting.cpp`) | the fixed buffer of a message | pack, unpack, clone | domain handles |
| Activator (`Activator.cpp`) | registrations, kept instances, one array of arguments | AddDependency, CreateInstance | constructors of the program |
| Template engine (`Template.cpp`) | the parts of a template, its string builder | parse, render | the program's `toString` |
| Strings, text, streams (`String.cpp`, `Stream.cpp`, ...) | buffers with positions | search, convert, format; read, write, seek | everything |
| Security, debugger, internal calls, platform, embedding interface, third-party code | | | not modelled (section 6) |

`PROJECT.json` lists all of them with what is modelled of each, and under `hazards` the places where this code
is hard to test. The hard behaviours:

* a domain and its creator run concurrently and either may drop the last reference to the domain;
* a wait can end by its timeout while the answer is on its way, and the answer then comes to the wrong wait;
* on POSIX a pulse is two critical sections, so that a signal can be lost;
* aborts (C++ exceptions) leave an operation, a server stub or a destructor in the middle;
* destructors are Skizo code that runs inside the collector;
* an importing domain reads objects of another heap while that heap is collected;
* facts about a program are found out twice, by the compiler and by the run time, or by two stages of the compiler,
  from data that later stages still change: layouts, method tables, who implements an interface, what may be called;
* user code runs inside the library's loops: a fired event, a rendered template, a dependency's constructor.

## 2. Modules

| module | models | relation |
|---|---|---|
| `Event` | an event whose pulse may be retracted: what a wait object promises | abstract specification |
| `WaitObject` | the POSIX wait object, one step for each use of the mutex and the condition variable | implements `Event` |
| `Remoting` | domains and their reference counts, handles, messages, nested `listen`, aborts, on both thread builds | uses wait objects as one bit, in the two steps (`Win32 = FALSE`) or the one step (`TRUE`) that `WaitObject` and `Event` justify |
| `MemoryManager` | allocation, collection, destructors, judgement day, roots, exports, an importing thread | a mark phase is one step; `GCMark` has its steps |
| `GCMark` | the walk of `gcMark` over objects, arrays and GC maps | with the lemmas about it |
| `Heap` | objects that are allocated, freed and enumerated once each | abstract specification |
| `PoolAllocator` | pools, free lists, arenas, large objects, enumeration | implements `Heap` |
| `Fifo` | a queue of values | abstract specification |
| `RingQueue` | `CQueue`'s ring buffer and its growth | implements `Fifo` |
| `VirtualStack` | calls, handlers of exceptions and the two stacks kept beside them, the life of a class with a static constructor | |
| `Threads` | a thread object, its references, the list of known threads, Start, Join, Abort | |
| `Emission` | the sections of the C text: what each declares, defines and uses | |
| `Packing` | a call of a foreign method: arguments and result in the buffer of a message | beneath a message of `Remoting` |
| `Thunks` | the machine code of all kinds of thunks, and an x86 that runs it | |
| `Activation` | dependency injection | |
| `Members` | members the compiler adds: access methods, enum values, events, pointer wrappers | |
| `Tokenizer`, `MethodBody`, `Declarations` | the front end, from characters to the tree | in this order |
| `Types` | type references and the classes made for them; names found at run time | |
| `Typing` | one value through conversions and casts: static types against classes of objects | |
| `Access` | extensions, closures and modifiers: which member a call finds and may use | |
| `Interfaces` | who implements an interface, asked while signatures are being resolved | |
| `Hierarchy` | cycles, method tables, direct and table calls, chains of destructors | |
| `Closures` | capture, environments, the paths through them | |
| `ClassLayout` | GC maps and sizes against the fields of the C struct | |
| `Tables`, `Lists`, `Strings`, `Encodings`, `Formats`, `Streams` | containers and text, each beside what it stands for | |
| `Templates` | parsing and rendering of templates | |
| `WaitObjectProofs`, `RemotingProofs`, `MemoryManagerProofs` | theorems about the module they are named after | |
| `StructuresProofs`, `RuntimeProofs`, `CompilerProofs`, `ClassProofs` | theorems about the parts of `MCStructures`, `MCRuntime` and (the last two) `MCCompiler` | |
| `MCRemoting`, `MCMemoryManager` | instances for TLC | |
| `MCStructures` | `RingQueue`, `GCMark`, `PoolAllocator`, `Packing` | one part in each behaviour |
| `MCRuntime` | `VirtualStack`, `Emission`, `Threads`, `Thunks`, `Activation`, `Members` | " |
| `MCCompiler` | `Declarations`, `Types`, `Interfaces`, `Hierarchy`, `Closures`, `Typing`, `Access`, `ClassLayout` | " |
| `MCLibrary` | `Tokenizer`, `MethodBody`, `Tables`, `Lists`, `Strings`, `Encodings`, `Formats`, `Streams`, `Templates` | " |

An umbrella module (`MCStructures`, `MCRuntime`, `MCCompiler`, `MCLibrary`) checks several parts that have no state in
common in one run: its variable `which` says what part a behaviour exercises, the variables of the others are `Off` or as at
the start, and
each of its properties is that of one part or more.

How they correspond to the code. A variable has the name of the field it models where there is one
(`m_isEnumerating`, `objectsToFree`, `debug` for `m_debugDataStack`); `PROJECT.json` gives the lines of every
definition. A step is a critical section, a use of a shared object, or a function that no other thread or callback
can interrupt. Skizo code is arbitrary: each module has the operations the run time offers it as actions that may
happen whenever Skizo code runs; a compiler's input is a nondeterministic program, chosen in `Init` or declaration by
declaration. A definition with a comment "Mutant of" is a bug put in on purpose to see that the properties notice it; no
specification uses it.

* **`WaitObject`**: `pc` is the line a thread has reached in `Pulse` (`WaitObject.unix.cpp:94-110`) or in a wait
  (`112-187`, with the zero timeout as `TryLock`). `mutex` is the owner of `m_mutex`; a sleeper gives it up in `Sleep`
  and takes it back in `LockToCheck` or, when its time is up, in `LockLate`.
* **`Remoting`**: `pc[d]` is where the thread of domain `d` is: in the life of its domain ("create" ... "dead"), in an
  operation of a handle ("ready?" ... "destroy", "join") or in `listen` ("poll" ... "answered"); "user" is Skizo code,
  of the entry point or of methods called from elsewhere. `serving[d]` are the messages of the server stubs on its stack,
  the innermost first: a stub may call `Domain::listen` again, as nothing in `CDomain::Listen` forbids it. A `CDomain` is a
  plain `CObject`, whose `m_refCount` (`count`) is not atomic (`SKIZO_SINGLE_THREADED`, `CMakeLists.txt:35`): `Ref` and
  `Unref` load it into a register (`loaded`) in one step and store it in another, and with `Rereads`, as in a Debug build,
  `Unref` loads it once more to compare it with 0. Who finds 0 runs `~CDomain` (`live` ends, then "epilog" on the domain's
  thread or "destroy" on its creator's). An abort (`AbortInUserCode`, or of an operation that fails) goes to a
  `Domain::try` (`Catchers`), to the stub that serves a message, or ends the domain.
* **`MemoryManager`**: `phase` is where the domain is in a collection. `Sweep` frees everything unmarked, without a
  destructor, in one step, since nothing interrupts it but the importing thread, which is why there is a phase "mark"
  before it in which the marks are visible. `Reach(Roots)` is what marking means; `GCMark` shows that the code
  computes it.
* **`GCMark`**: `calls` are the activations of `gcMark`, each with its object and the child its loop has reached. A step
  is a call from the roots, a call for a child (that returns at once if the child is marked), or a return.
* **`PoolAllocator`**: an operation is a step, and so is each round of `freePendingObjects`, whose list loses what has
  been freed from it; `Heap` has the same two phases. `cursor` is the place of `EnumerateObjects`.
* **`VirtualStack`**: `calls` is the native stack. A handler is an entry of its own with the counts that
  `SVirtualUnwinder` remembers; `Throw` finds the nearest handler that takes the exception.
* **`Threads`**: a thread of the operating system (`Runners`) is at one place of `threadProc`, a user of the object in
  one of its operations; `m_refCount` counts what the sets of references say exactly.
* **The compiler's modules**: a step is one round of the loop over classes (`SkizoTransform`, `SkizoEmit`), or one
  question asked in it. The answers that the code remembers (flags such as METHODLIST_FINALIZED, the cache of
  interfaces, the size and map of a class, the map of nice names) are variables, and the order in which classes are
  visited is nondeterministic, since it is that of the source.
* **`Thunks`**: an instruction of the machine is a step; `text` is what `SThunkManager` writes; `safe` is whether and how
  `closureChecker` guards a closure: on POSIX a call from a foreign domain aborts, on Win32 it asks the user, who goes on
  or ends the process. `Packing`: a word of the
  buffer is a cell. `Tables`, `Lists`, `Strings`, `Encodings`, `Formats`: a call is a step; the data the code moves is
  modelled with its indices, and next to it stands the function, bag, sequence or text it should be.

## 3. Plan

Done, in this order: wait objects (everything waits on them), remoting (the concurrent core), the memory manager and
marking, the pool allocator and the queue (what the first two rest on), the virtual stack, the compiler from the
tokenizer to the emitter, threads, the library, then thunks, serialization, the activator, generated members; of the
proofs, those of section 5.

Next, by importance:

1. Proofs: `ThunksForward` of `MCRuntime` (whose instructions
   have names with spaces, which tlapm cannot pass to its SMT solver).
2. `TypeInit`: several classes with static constructors and destructors, in `VirtualStack`'s frame: which constructors
   see which classes initialized, what the epilog skips.
3. `Trust`: permissions and the trust a domain passes on (`Security.cpp`, `icalls/Domain.cpp:26-63`).

## 4. What TLC checks

| run | instance | shows |
|---|---|---|
| `wait_object` | 2 waiters, 2 pulsers, an automatic object, 3 pulses | no pulse releases two waiters, every wait ends, and the object is an `Event` |
| `remoting_unix` | two domains, POSIX, Unref loads twice, all operations, 2 messages, fairness | messages are taken in order and once, also by nested listens, a call that returns has been executed (unless one before it timed out), operations end, queued messages are taken |
| `remoting_chain` | three domains in a chain, Win32, Unref loads once, blocking calls and waits, 2 messages | no thread is in a destroyed domain although counts are lost, `g_domain` survives `~CDomain` of another domain on the same thread, readiness is seen |
| `remoting_stale` (V) | two domains, 2 blocking calls | a late answer releases the next call |
| `memory` | 2 slots, a literal, a static, a name; plain objects, objects with destructors, closures | nothing reachable is freed or destroyed, exports stay, memory is counted, judgement day runs every destructor before the literals go, ends, and leaves nothing |
| `memory_reexport` (V) | a program that exports an object again under its name | the export loses its root |
| `structures` | `CQueue` up to 4 values from capacity 1; all graphs of 3 objects and small arrays, all pairs of arrays of 4 words, of maps and objects; pools with 2 blocks, 2 arenas and sizes small, middle and large; calls with 2 parameters of every kind, messages of 5 words | the ring is a FIFO, marking computes reachability, the allocator is a heap, with deferred frees and enumerations that end early, arguments and results arrive |
| `runtime` | five methods, four calls deep; programs of three features; two threads with two users; two calls of every thunk; three interfaces and four classes; four members, three handlers | stacks and frames agree, a class whose static constructor failed stays idle, the C text declares and defines what it uses, threads end in order, thunks pass on what they should, dependencies are shared, generated members work |
| `injection` (V) | the same dependencies | a constructor gets what another one was made from |
| `compiler` | programs of two classes, an interface, a struct and a proxy; six words; three closures; four conversions; two extensions | each of the compiler's parts against what the others or the run time assume of it |
| `class_layout` (V) | two classes, a struct and a proxy | the GC map is not that of the C struct |
| `library` | texts of five characters, bodies of seven tokens, containers of four items, all edges of the encodings | nothing is lost or read twice, containers and text functions are what they stand for, templates render |

V marks a run whose one property the code violates; section 7 explains them.

Why the bounds are enough.

* *Two waiters and two pulsers* are the smallest case in which a pulse can be stolen, be retracted under a sleeper, or
  release one too many; three pulses (`MaxPulses`) let one be repeated after both waits. *Two messages* (`MaxMsgs`) are
  what stale answers, overtaking and a listen within a listen need; *three domains* make one that is at once server, creator and creature.
* The memory manager's hazards involve a dead object, one that it leads to, and a root: *two slots, a literal and a
  static*; `MaxMemory = 2` (the code's limit of memory) makes allocations collect and fail; `MaxFields`, `MaxRoots` and
  `MaxPressure` are 1, one more of each only repeats. *Three objects* have every cycle and sharing that the early
  return of `gcMark` can meet; two words an object are enough to lead to the other two. A pool with *room for two or
  three objects in an arena* and `MaxArenas = 2` has arenas that fill, are left over, and follow each other; a queue
  (`InitCap`, `Limit`) grows twice and wraps before and after.
* *Four calls* (`StackLimit`, in the code 900 KB; `MaxFrames` for frames left behind) hold a handler above a call above a
  handler above a call.
* Each part of the compiler has the smallest program in which two of its features can meet: *six words* (`MaxWords`) are
  two modifiers, a type, a modifier and a member, and what follows; *two levels* of brackets and *three* generated
  classes (`MaxLevel`, `MaxGenerated`); three classes with `MaxMethods = 3` have a method overridden, skipped and
  overridden again; `Closures = 3` have one that captures through one that does not; `MaxConversions = 4` are box, cast,
  failable and back; `MaxNesting = 2` is a closure in a closure; `MaxFields = 3` lets a struct stand between two
  references. `MaxFeatures = 3` joins any three of eighteen features of the text.
* The library's lengths reach every branch: `MaxLength = 5` is the longest token with something on both sides and
  `MaxTokens = 7` a call within a call in brackets; `MaxItems`, `MaxChanges`, `Capacities` make tables grow while chains
  are walked; `MaxText`, `MaxOther`, `MaxUnits = 3` and `MaxBytes = 4` (a whole UTF-8 sequence), with units and bytes at
  the borders of all ranges; `IntBits = 8` is the code's 32, so that both ends of the integers are near; `MaxMask`,
  `MaxEscape`, `MaxBuilt`, `ConvSize`, `MaxSource`, `MaxRenders`, `MaxFile`, `MaxMoves`, `MaxWritten`, `BufSize`,
  `WordSize`, `DefaultCap`, `ByteSize` and `Utf16BufSize` keep the proportions of the code's buffers (a piece fits, one
  more does not); `MaxHolds = 1` reference besides the first for each user of a thread.
* `MessageSize = 5` and `NameSize = 3` words let a message be exactly full and one word too long; `MaxParams = 2`,
  `MaxArguments = 2` with results of one and two words, `MaxRounds = 2` calls of a thunk, since the first compiles;
  `MaxDependencies`, `Asked`, `MaxDepth`, `MaxObjects` let a circle of dependencies go round once; `MaxMembers`,
  `MaxHandlers`, `MaxFires`, `MaxPointers` let a handler add a handler that fires again.

Symmetry is used for the objects and blocks of `structures`, whose properties are all safety properties.
`CHECK_DEADLOCK FALSE` stands where a system ends: all domains dead, the heap gone, the program terminated, the source
read, a bound reached.

### Fairness

* `WaitObject`: a thread inside a call goes on (WF); the mutex is not fair by itself but is free again and again, so a
  thread that asks for it gets it (SF), and a sleeper's time runs out although spurious wake-ups may interrupt the sleep
  (SF: the deadline is absolute, `WaitObject.unix.cpp:121-131`). Threads are not obliged to call anything.
* `Remoting`: the operating system runs every thread inside the runtime and its timers expire (WF of `RuntimeStep`).
  Destructors that `~CDomain` runs return (WF of `EndDestroy`): one that does not would hold up whoever runs it.
  Skizo code may otherwise stay in "user" for ever, so no fairness on `UserStep`; that is why `Wait` is not among `OperationsEnd`.
* `MemoryManager`: a collection goes on and destructors return (WF of `Collector`). A destructor that runs for ever
  does hold up judgement day; the property is about the runtime's loop.

## 5. What is proved

For every value of the constants that the named assumptions allow, with TLAPS:

* **`WaitObject`** (`MutexAndReleases`, `Refinement`). `IInv` is the conjunction of the types with the two safety
  properties: the mutex discipline makes the critical sections atomic, and the bound on releases follows. `Refinement`
  maps each step to a step of `Event` or a stutter: `Take` is the only step in which a waiter proceeds, and it finds the
  bit set because it holds the mutex.
* **`Remoting`** (`TypeCorrect`, `ReferencesSafe`, `CurrentDomain`, `CallsInOrder`, `ReturnedWasExecuted`,
  `ReadyOnceSignalled`). `NeverDangles` is not inductive: that the creator's reference counts inside an operation
  depends on where both threads are and on what either has loaded. `IInv` says so for each place
  of the two threads: `m_refCount` is the number of those that hold a reference while one of them does, since a reference
  is taken only while the handle's `Domain` is set, hence while the domain holds its own, and `ClearDomain` waits for
  `DomainMutex`. That both let go at once can only leave the count too large, and a thread that has loaded 1 is the only
  holder. It also says that messages are well formed; the proof has one lemma for each of
  control, handle and mail, each with a case for every action. The other theorems put an invariant of their own on
  top of it. `OrderInv`: a domain has one creator, the only one that sends to it, whose call is the last of its messages;
  queues are sorted and hold exactly what was sent and not taken, and the stubs of a domain serve what it has taken,
  a later message the further in. `OutcomeInv` says of every set result object whose
  answer it is: of the call that waits for it, unless a call before that one timed out (`Excused`). `ReadyInv` is about
  the Win32 build only, as the property does not hold on POSIX (section 7).
* **`MemoryManager`** (`TypeCorrect`, `NothingLiveIsFreed`, `ExportsStay`, `DoomedStay`, `TeardownOrder`,
  `DestructorsRunFirst`, `MemoryIsCounted`). `IInv` has three parts: the types with what each phase of a collection
  implies (`CycleOK`), at least as many root holders of an object as names it is exported under (`RootsOK`), and that
  what the roots reach is neither free nor doomed (`ReachOK`). The last one is about a closure: the lemmas `ReachMoves`,
  `ReachShrinks` and `NewReach` say what storing, dropping and allocating do to reachability, so that no induction over
  paths is needed (`Reach` is the least closed set). The collector's step is the point where `Sweep` keeps exactly the
  closed set. `NoZombies` needs that destructors do not use their object, which is the program `Program` describes.
  `MemoryIsCounted` adds `MemoryOK`: the heap is finite and `m_allocdMemory` is the size of what is allocated and not
  doomed; a size is a number of units, `MemoryOf` the cardinality of the set of all units, so that the facts about
  cardinalities of disjoint unions do what an induction over a sum would.
* **`RingQueue`** (`QueueInvariant`, `QueueIsFifo` in `StructuresProofs`). `Contiguous` says where the contents lie; the refinement maps the
  ring to the sequence of its contents. The lemmas give growth, writing at the end and reading at the start as functions.
* **`GCMark`** (`MarkingIsReachability` in `StructuresProofs`, from the lemmas of `GCMark`). Tri-colour marking without
  the colours: `IInv` says that a marked object is either in an activation or has only marked children, an activation's
  children before its loop's index are marked, no object is in two activations, and marked objects are reachable. With no activation left the marked set is closed, contains the roots
  called so far and is contained in what they reach; the least such set is `Reach`. The graph, its size and the order of
  the roots are arbitrary.
* **`PoolAllocator`** (`ElementsAreKeptOnce`, `AllocatorIsHeap` in `StructuresProofs`). `PoolInv`: `Once` (each element
  of an arena is in use or once on the list of its size), `Counted` (the objects are a finite set of `m_objectCount`
  elements), `Walk` (the cursor is at an element, or past the last one) and `Pending` (what waits to be freed is there
  once, is an object, and has been visited). That the walk leaves no element out and finds every arena (`AfterStep`) is
  arithmetic of products, given in `TimesOrder` and `TimesMod`; the refinement maps what is still to visit to the
  elements behind the cursor that are in use, and a visited element that is free to a stutter.
* **`VirtualStack`** (`StackTypes`, `StackIsBalanced`, `FailedClassIsIdle`). The invariant of the second says that every
  running call's frame is where the call pushed it and that, until a handler has left something behind, frames and
  registered locals are those of the running calls and nothing else; it needs that every handler remembers counts that
  were right below it, and that the handler of a static constructor stands at the bottom only.
* **`Threads`** (`ThreadsAreKept` in `RuntimeProofs`). The invariant says that the counter of references is the cardinality of the
  set of those who hold one (users, the start, the new thread, a list that is being made), who is at which place with
  what, and that the entry in the list of known threads is there while the thread's own reference is.
* **`Activation`** (`InstancesAreKeptOnce` in `RuntimeProofs`). `createInstance` looks whether there is an instance, then
  runs other constructors, then keeps the new one; that it does not replace one kept meanwhile is what has to be shown.
  `CirclesOK`: of two calls for the same interface, which have the same constructor, the inner one is at most as far as
  the outer one, which waits for it. So the innermost call, that is done with its parameters, has no other of its kind
  below it (`NobodyWaits`), and `KeepsNone` holds when it keeps its object. `ArgumentsOK` says which of `m_args` are
  still what a call has got: all behind which no constructor with parameters has run.
* **`Declarations`** (`DeclarationsAreKept` in `CompilerProofs`). `DeclOK`: unless a modifier has stood before what takes
  none, the parser's fields hold just what is written since the last declaration, and outside of classes only what a
  class may have; every class and extension read so far has its modifiers as they are written (`Faithful`), and one
  member of a name (`OneOfEach`). That two destructors are the most is no count: two of a kind are one.
* **`Interfaces`** (`InterfaceCallsDispatch` in `CompilerProofs`). Answers are given at different moments, some before
  and some after signatures are resolved, and remembered. `InterfacesInv`: whoever was let through, and every remembered
  yes, had a look-alike signature; when the program runs, all signatures are resolved (the queue is finite, and what
  has left it is resolved).
* **`Closures`** (`CapturedNamesAreReachable` in `CompilerProofs`). A path is served by what its closure has captured, and
  nothing that is captured is taken away again (`Growing`), so `Served` only grows. `Through(D)` says which methods the
  transformer has gone through: with a method of `D`, the closures in it are in `D`, in the queue or still to be met in
  the current method. When the queue is empty `D` is everything: the least method left out would have its parent in `D`.
  The methods around a closure are a least set (`Around`), as what the roots reach is for the collector.
* **`Typing`** (`ValuesKeepTheirTypes` in `CompilerProofs`). A failable or a box may have inside what has gone through other
  conversions before. `Grounded`: a value is in some set of values each of which is well made of members of that set,
  so that no induction over the depth of a value is needed. `ValueOK`: the value is grounded and conforms to its static
  type, which is its class if the class is a value class. A conversion gives a value that is well made of the one it
  gets; a cast and `is` ask the same of a value so made (`CastsAgree`).
* **`Types`** (`OneTypeIsOneClass` in `ClassProofs`). `TypesInv`: a class is made of a class that was there before it
  and its name is made of that one's; every entry of the maps is a class of the map's kind made of the entry's key, and
  every class is an entry of a map. So two classes with one name have one key, and one entry. The name of a class is a recursive
  function on the classes made so far, and it stays when more are made. The bases of an array are there at every level below
  the one asked for (a run of the recursive function, level by level). The aliases are resolved in their order, and
  what they have become is a class. The names found at run time are those of entries that are listed: as many as there are
  classes, none twice, so all (a pigeonhole argument). It holds for any finite source and any levels, from
  `TypesAssumption` (names are names and not numbers; an alias is declared once).
* **`Hierarchy`** (`HierarchiesDispatch` in `ClassProofs`). `HierInv`: the types; what is known of a finalized class
  (its bases are finalized, its table is what `Table` makes of that of its base, `index`, `baseMethod` and `virtual`
  agree with it); how far the search for cycles has come and that what it has passed has no cycle; what each phase
  implies. `Table` is a recursive function, and what is shown of it is an invariant of the loop (names are found once,
  places of the base stay). The bases of a class are a least set (`Chain`), as is the way to the ultimate base method
  (`GoesTo`); on a hierarchy without cycles the nearest declaration and the calls of destructors go by well-founded
  induction, as the least class that breaks the claim.
* **`Access`** (`MembersStayHidden` in `CompilerProofs`). `MembersInv`: a member found under a name belongs to the class
  it was looked up in and to an extension of that class that was merged; of the methods around a call only the
  first is of a class of the program, the others are closures without an extension of their own, in the module of the
  text.
* **`Emission`** (`AllTextIsComplete` in `RuntimeProofs`). `EmissionInv`: what stands in front of the place the emitter
  is at has been declared or defined (per class, per method and per kind of generated helper), and what a text uses at
  its place is among that; a function that is declared has a header that is copied or a body to come. The proof has a
  case for each part of the text. It holds for any combination of features, where the run takes `MaxFeatures` at a time.
* **`Packing`** (`ArgumentsArrive` in `StructuresProofs`). The lemmas `Packs` and `Unpacks` say what `Pack` writes for each
  value (`InBuffer`, of `Room` words) and that `Unpack` reads that value from these cells, wherever they begin and whatever
  stands around them; or that it is refused. `PackingInv`: the arguments packed so far stand one behind the other, each
  where the sum of the room before it ends, the server has read them as far as it has come, and of each clone of a text it
  is known whether it is alive; it belongs to the server from when its argument is read on. Sizes of messages, lengths of
  names and the number of parameters are any that `PackingAssumption` allows.

The proofs assume only the constants' named assumptions (`RemotingAssumption`, `GCMarkAssumption`,
`InterfacesAssumption`, ...), which TLC evaluates in each run; `MCCompiler`, `MCRuntime` and `MCStructures` state those of
their parts again.

Only model-checked, and why:

* liveness (`EveryWaitReturns`, `OperationsEnd`, `QueuedMessageIsTaken`, `TeardownEnds`): with fairness and ENABLED out
  of the prover's reach;
* `ReadAsWritten`, `ContainersAreExact`, `TextIsExact`: `MethodBody`, `Lists`, `Strings`, `Encodings` and `Formats` have
  recursive operators, for which tlapm has no SMT backend, and what they compute is an induction over data;
* `GeneratedMembersWork`, `TemplatesRender`, `LayoutsAreSound`: built on folds, selections from sequences or sums of
  sizes, of which the prover's library states nothing;
* `ThunksForward` has no proof yet.

## 6. What is not modelled

The bump pointer allocator (one operation), security and trust (comparisons of sets, so far), the debugger, profiler and
log (they observe), internal calls (thin wrappers of what is modelled), the platform (calls of the operating system), the
embedding interface, TCC and dlmalloc (third party), the base library in Skizo (programs of the language are the
environment of the models). `PROJECT.json` says for each part that is modelled partly what is left out.

Within the modelled parts: malloc does not fail; the destructors that `~CDomain` runs end and do not call other domains,
in which they could be counted or listen; the counts of handles, threads and wait objects are atomic; data in messages of `Remoting` is only whether it unpacks (`Packing` has
the data); the conservative scan of the native stack is exact (`locals`), since a word that happens to look like a
pointer only keeps more alive; timeouts have no length, they may happen whenever a thread waits; profiling frames and
inline C that returns from the middle of a method; the order of static constructors among classes; constructors
that ask the activator themselves; floating-point numbers; the encoding of machine instructions; attributes.

## 7. Where the code and its texts disagree

1. `remoting_stale`: `SendMessageSync` "blocks the thread until the function returns" (`Remoting.h:60`). All calls of a
   domain share `m_resultWaitObject`; after a timeout the late answer sets it and the next call returns at once with an
   unset result.
2. `memory_reexport`: `ExportObject` drops the root before its "guard against doing it twice" (`Remoting.cpp:1059-1064`).
3. `class_layout`: the fields of the C struct are laid out for "correct interoperation between the runtime and the
   generated C code" (`Emitter.cpp:167`), but `CalcGCMap` takes the map of a struct that is still being calculated, and
   the size of a base only if the base has references (`Class.cpp:304`, `382`).
4. `injection`: "references to the given interface should be resolved by the given class" (`Activator.h:34`), but the
   nested `createInstance` overwrites the one array of arguments (`Activator.cpp:42`, `121`).

Further disagreements are stated next to the properties, as definitions that TLC refutes; they have no run of their own.

| module | definition | code |
|---|---|---|
| `Remoting` | `ReadinessIsVisible` on POSIX: `Pulse` resets a manual object, too | `WaitObject.unix.cpp:106`, `Remoting.h:97` |
| | `LastReferenceDestroys`, and `DestroyedOnce` where `Rereads`: the creator's `Unref` and the domain's own run at once on a count that is not atomic, which `SKIZO_SINGLE_THREADED` allows to objects of one thread only | `Object.cpp:126`, `CMakeLists.txt:35`, `Domain.h:60` |
| | `CodeKnowsItsDomain`: the destructors of a domain run on the creator's thread if it lets go last, where `ForCurrentThread` is the creator; a domain has "its own thread" | `Domain.cpp:230`, `Domain.h:53` |
| `MemoryManager` | `ImportReadsVtable`: the mark is in the vtable pointer that an importing thread reads | `Remoting.cpp:1146` |
| | `NoZombies` under `DtorSpec`: fields of other types lead to objects that died with this one | `Transformer.cpp:2139` |
| `VirtualStack` | `FramesAreUnwound`: a caught stack overflow has shortened the live stack | `Domain.cpp:822`, `Security.cpp:277` |
| `Threads` | `StartsOnce`, `AbortsAreSeen` | `Thread.h` |
| `Emission` | `StructsInOrder`, `AbstractCtorsCompile`, `ForcedStubsAreFound` | `Emitter.cpp:2159`, `Remoting.cpp:1393` |
| `Packing` | `ResultsAreRefused`, `TargetSurvives`, `LongestNameArrives` | `Remoting.cpp:464`, `683`, `Remoting.h:118` |
| `Thunks` | `CalleesPop` | `ThunkManager.cpp:691`, `ThunkManager.h:58` |
| `Members` | `NativeCtorsCreateEvents`, `NamesAreOne`, `ValuesExist`, `NothingElseDestroyed` | `Emitter.cpp:1876`, `Parser.cpp:1673`, `Class.cpp:1175` |
| `Tokenizer` | `CommentsSeparate` | `Tokenizer.cpp` |
| `MethodBody` | `BracketsMatch` | `Parser.cpp:997` |
| `Declarations` | `ModifiersStayTogether` | `Parser.cpp:97` |
| `Types` | `LiteralsHaveTheirType`, `AliasesVanish` | `Transformer.cpp:2201`, `336` |
| `Interfaces` | `CacheIsExact`, `OverridesAgree` | `Class.h:605`, `Class.cpp:718` |
| `Typing` | `BoxesInheritInterfaces`, `CastsAreReduced`, `NullIsFailable` | `Class.cpp:1005`, `Emitter.cpp:779`, `Transformer.cpp:1570` |
| `Access` | `ClosuresSeeTheirModule`, `ClosuresGainNothing`, `PrivateIsForTheClass` | `Method.cpp:425`, `434`, `385`, `Method.h:60` |
| `Hierarchy` | `SearchEnds`, `HelpersExist` | `Transformer.cpp:201`, `Method.h:272` |
| `Closures` | `ThisIsReachable`, `StaticsHaveNoSelf` | `Transformer.cpp:963`, `1006` |
| `Tables`, `Lists` | `SetReplaces`; `StaysWithin`, `InsertIsFound` | `OrderedHashMap.h:76`; `ArrayList.h:229`, `239` |
| `Strings` | `SplitReturns`, `LargeNumbersFail`, `NegativeStartFails` | `String.h:480`, `215`, `String.cpp:796` |
| `Formats` | `PercentIsTranslated`, `OnlySupportedMasks`, `LongNamesAreEmitted`, `TextGrowsAfterChars` | `String.h:404`, `394`, `TextBuilder.cpp` |
| `Streams` | `OnlyLineEndsAreLost`, `LastLineIsRead`, `SizeIsCurrent`, `WrittenIsReadable` | `TextReader.h:51`, `Stream.h:118` |
| `Templates` | `NestedRendersAreWhole` | `Template.cpp` |

Seen while modelling, without a definition:

* *Threads and domains*: a zero timeout waits for ever on Win32 (`Thread.h:161`) and not at all on POSIX; on Win32
  `Wait()` of a handle returns true also when its join timed out; `~CDomain` runs static destructors and all destructors
  on whatever thread drops the last reference; an abort between a thread's check and its RUNNING is lost.
* *Memory and stacks*: exporting a string literal aborts after the old export has lost its root; statics lead to freed
  objects during judgement day; `Listen` and the caller of destructors leave virtual frames of aborted calls behind; a
  break in a method without locals takes those of its caller; the static destructor of a class whose static constructor
  failed aborts the epilog, and those behind it are not called.
* *Front end*: `break a b;` drops its arguments, a stray `{` is read as a name; `extend` before an alias is lost, `static
  extend` is consumed silently, modifiers at the end of a file are ignored; private methods of a boxed struct become
  public, so a cast succeeds where `is` says no; a class's own methods can call private methods that an extension added;
  constructors of a base are never called by those of a class below, so its events stay null there.
* *Run time*: clones of strings leak when a send fails or times out; strings with a NUL arrive truncated; a `T*` that came
  home and is passed on is misread as a proxy header; `AddDependency` replaces a registration although `Activator.h` says
  it aborts; circular dependencies recurse without end; a pointer wrapper with a constructor of the user destroys pointer 0.
* *Library*: `FindLastChar` looks one character beyond its range; `Append(INT_MIN)` uses a count that was never set;
  `StringBuilder::Remove` copies overlapping ranges with `memcpy`; text of white space is the number 0; the buffer of
  `ToUtf32` has no end mark; `ReadVariant` ignores a short read; `SetPosition` of a memory stream extends it by 8
  uninitialized bytes; a byte order mark is skipped on the first line that is not empty, even if it is not the first.
