------------------------------- MODULE MCRuntime -------------------------------
(***************************************************************************)
(* What the emitted program and the run time have to agree on: each        *)
(* behaviour exercises one part, and the variables of the others keep the  *)
(* value Off.                                                              *)
(*                                                                         *)
(*   "stack"     calls, tries, static constructors, destructors, a server, *)
(*               aborts and breakpoints: a static method of the class with *)
(*               the static constructor, a method that a debugger can      *)
(*               stop, and one with inline C that has a breakpoint, too    *)
(*   "emission"  the text of all programs with up to three features        *)
(*   "threads"   a thread object with two users, which may be started      *)
(*               twice                                                     *)
(*   "thunks"    the machine code of the thunks of all small methods       *)
(*   "injection" all orders of registrations and requests of a domain, for *)
(*               programs of four classes                                  *)
(*   "members"   what is added to classes with up to four members, enums,  *)
(*               events and pointer wrappers                               *)
(***************************************************************************)
EXTENDS VirtualStack

CONSTANTS Features, MaxFeatures,               \* of Emission
          Users, Runners, NoHandle, MaxHolds,  \* of Threads
          MaxArguments, MaxRounds,             \* of Thunks
          Interfaces, Classes, Implements, Programs, MaxDependencies, Asked, MaxDepth,
          MaxObjects, NoObject,                \* of Activation
          Letters, MemberNames, ClassNames, ValueNames, MaxMembers, MaxHandlers, MaxFires,
          MaxPointers,                         \* of Members
          Off

VARIABLES which,
          features, klasses, section, pos, declared, defined, early,
          state, handle, refs, holds, listed, pc, starts, joins,
          kind, method, safe, foreign, text, ip, stack, sp, bp, ax, st, memory,
          thunkCalls, round, halted,
          ctors, impl, instances, arguments, activations, objects, returned,
          sort, stage, nameSet, struct, memberMethods, eventFields, memberCtors, cctor,
          properties, values, static, arrays, array, fires, ended, own, made, live, destroyed

emissionVars == <<features, klasses, section, pos, declared, defined, early>>
threadsVars  == <<state, handle, refs, holds, listed, pc, starts, joins>>
thunksVars   == <<kind, method, safe, foreign, text, ip, stack, sp, bp, ax, st, memory,
                  thunkCalls, round, halted>>
injectionVars == <<ctors, impl, instances, arguments, activations, objects, returned>>
membersVars == <<sort, stage, nameSet, struct, memberMethods, eventFields, memberCtors, cctor,
                 properties, values, static, arrays, array, fires, ended, own, made, live,
                 destroyed>>
allVars == <<which, vars, emissionVars, threadsVars, thunksVars, injectionVars,
             membersVars>>

E == INSTANCE Emission
T == INSTANCE Threads
M == INSTANCE Thunks WITH calls <- thunkCalls
A == INSTANCE Activation
G == INSTANCE Members WITH kind <- sort, phase <- stage, methods <- memberMethods,
                           ctors <- memberCtors, declared <- properties

ASSUME ProgramsAreTyped == A!ActivationAssumption
ASSUME ThreadsAreApart == T!ThreadsAssumption

NoStack == /\ phase = Off /\ calls = Off /\ frames = Off /\ debug = Off
           /\ initialized = Off /\ leaked = Off /\ corrected = Off
NoEmission == /\ features = Off /\ klasses = Off /\ section = Off /\ pos = Off
              /\ declared = Off /\ defined = Off /\ early = Off
NoThreads == /\ state = Off /\ handle = Off /\ refs = Off /\ holds = Off
             /\ listed = Off /\ pc = Off /\ starts = Off /\ joins = Off
NoThunks == /\ kind = Off /\ method = Off /\ safe = Off /\ foreign = Off /\ text = Off
            /\ ip = Off /\ stack = Off /\ sp = Off /\ bp = Off /\ ax = Off /\ st = Off
            /\ memory = Off /\ thunkCalls = Off /\ round = Off /\ halted = Off
NoInjection == /\ ctors = Off /\ impl = Off /\ instances = Off /\ arguments = Off
               /\ activations = Off /\ objects = Off /\ returned = Off
NoMembers == /\ sort = Off /\ stage = Off /\ nameSet = Off /\ struct = Off
             /\ memberMethods = Off /\ eventFields = Off /\ memberCtors = Off /\ cctor = Off
             /\ properties = Off /\ values = Off /\ static = Off /\ arrays = Off
             /\ array = Off /\ fires = Off /\ ended = Off /\ own = Off /\ made = Off
             /\ live = Off /\ destroyed = Off
\* A takes two others; B, C and D implement the interfaces and may take others, too,
\* even each other in a circle.
Implementers == [B |-> "j", C |-> "k", D |-> "l"]
SmallPrograms == [A : {<<<<"j", "k">>>>, <<<<"j", "k", "l">>, <<"l", "j">>, <<"l">>>>},
                  B : {<<<<>>>>, <<<<"l">>>>}, C : {<<<<"l">>>>, <<<<"j">>>>},
                  D : {<<<<>>>>, <<<<"j">>, <<>>>>}]
\* Names that differ by what access methods add to them, and some enums' values.
UpperCase  == [a |-> "A"]
SomeNames  == {<<"a">>, <<"i", "s", "A">>, <<"s", "e", "t", "A">>, <<"m", "_", "a">>}
SomeTypes  == {<<"m", "_", "a">>}
SomeValues == {<<"v">>, <<"w">>, <<"toInt">>, <<"fromInt">>}

MCInit ==
    \/ /\ which = "stack" /\ Init
       /\ NoEmission /\ NoThreads /\ NoThunks /\ NoInjection /\ NoMembers
    \/ /\ which = "emission" /\ E!Init
       /\ NoStack /\ NoThreads /\ NoThunks /\ NoInjection /\ NoMembers
    \/ /\ which = "threads" /\ T!Init
       /\ NoStack /\ NoEmission /\ NoThunks /\ NoInjection /\ NoMembers
    \/ /\ which = "thunks" /\ M!Init
       /\ NoStack /\ NoEmission /\ NoThreads /\ NoInjection /\ NoMembers
    \/ /\ which = "injection" /\ A!Init
       /\ NoStack /\ NoEmission /\ NoThreads /\ NoThunks /\ NoMembers
    \/ /\ which = "members" /\ G!Init
       /\ NoStack /\ NoEmission /\ NoThreads /\ NoThunks /\ NoInjection

MCNext ==
    /\ \/ /\ which = "stack" /\ Next
          /\ UNCHANGED <<emissionVars, threadsVars, thunksVars, injectionVars,
                         membersVars>>
       \/ /\ which = "emission" /\ E!Next
          /\ UNCHANGED <<vars, threadsVars, thunksVars, injectionVars, membersVars>>
       \/ /\ which = "threads" /\ T!Next
          /\ UNCHANGED <<vars, emissionVars, thunksVars, injectionVars, membersVars>>
       \/ /\ which = "thunks" /\ M!Next
          /\ UNCHANGED <<vars, emissionVars, threadsVars, injectionVars, membersVars>>
       \/ /\ which = "injection" /\ A!Next
          /\ UNCHANGED <<vars, emissionVars, threadsVars, thunksVars, membersVars>>
       \/ /\ which = "members" /\ G!Next
          /\ UNCHANGED <<vars, emissionVars, threadsVars, thunksVars,
                         injectionVars>>
    /\ UNCHANGED which

MCSpec == MCInit /\ [][MCNext]_allVars
InjectionSpec == (MCInit /\ which = "injection") /\ [][MCNext]_allVars

\* A thread object lives as long as anybody uses it, and a join of a thread that was started
\* once returns after its body has.
ThreadsEndInOrder == which = "threads" => T!ThreadsEndInOrder

\* A thunk calls what it stands for with the words it expects, and returns its result.
ThunksForward == which = "thunks" => M!ThunksForward

\* An interface has one instance, and all who take it get that one.
DependenciesAreShared == which = "injection" => A!DependenciesAreShared

\* The members the compiler adds are found by their names, exist before they are used,
\* and do what they stand for, whatever handlers do while an event fires
\* (CClass::AddAccessMethodsForField, STransformer::inferEventFields, _soX_addhandler).
GeneratedMembersWork == which = "members" => G!GeneratedMembersWork

\* "references to the given interface should be resolved by the given class"
\* (Activator.h:34): refuted, see ArgumentsMatch of Activation.
ArgumentsMatch == which = "injection" => A!ArgumentsMatch

\* The text of a program declares what it uses and defines what it declares.
TextIsComplete == which = "emission" => E!TextIsComplete
=============================================================================
