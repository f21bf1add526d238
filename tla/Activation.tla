----------------------------- MODULE Activation -----------------------------
(***************************************************************************)
(* Dependency injection (SActivator): a domain registers a class for an     *)
(* interface and asks for instances, whose constructors take instances of   *)
(* interfaces in turn. What is created for an interface is kept and given   *)
(* to all who need it. createInstance calls itself for every parameter; the *)
(* arguments of all of these calls are in one array, m_args. Constructors   *)
(* that ask the activator for instances themselves are left out.            *)
(***************************************************************************)
EXTENDS Naturals, Sequences, FiniteSets
SE == INSTANCE SequencesExt

CONSTANTS Interfaces, Classes,
          Implements,      \* the interface of each class that has one
          Programs,        \* the constructors of the classes, by what they take, in order
          MaxDependencies, \* SKIZO_MAX_DEPENDENCY_COUNT
          Asked,           \* bound: the interfaces and classes of which the program asks instances
          MaxDepth,        \* bound: createInstance in createInstance
          MaxObjects,      \* bound: objects made
          NoObject

ActivationAssumption ==
    /\ MaxDependencies \in Nat /\ NoObject \notin Nat \ {0}
    /\ Interfaces \cap Classes = {} /\ Asked \subseteq Interfaces \cup Classes
    /\ DOMAIN Implements \subseteq Classes
    /\ \A c \in DOMAIN Implements : Implements[c] \in Interfaces
    /\ Programs \subseteq [Classes -> Seq(Seq(Interfaces))]

VARIABLES ctors,      \* the program
          impl,       \* m_interfaceToImplMap, an interface by itself if there is none
          instances,  \* m_classToInstanceMap, for interfaces and classes
          arguments,  \* m_args
          activations, \* the calls of createInstance that run
          objects,    \* the objects, their classes and what their constructors got
          returned    \* what the last request gave
vars == <<ctors, impl, instances, arguments, activations, objects, returned>>

Idle == activations = <<>>
Last == activations[Len(activations)]

Init == /\ ctors \in Programs
        /\ impl = [i \in Interfaces |-> i]
        /\ instances = [i \in Interfaces \cup Classes |-> NoObject]
        /\ arguments = [a \in 1..MaxDependencies |-> NoObject]
        /\ activations = <<>> /\ objects = <<>> /\ returned = NoObject

\* Only interfaces have dependencies: AddDependency aborts for a class that does not
\* implement the interface, and puts one registration in the place of another.
AddDependency(i, c) == /\ Idle /\ c \in DOMAIN Implements /\ Implements[c] = i
                       /\ impl' = [impl EXCEPT ![i] = c]
                       /\ UNCHANGED <<ctors, instances, arguments, activations, objects, returned>>

-----------------------------------------------------------------------------
(***************************************************************************)
(* createInstance                                                          *)
(***************************************************************************)
Suitable(list) == Len(list) <= MaxDependencies /\ \A a \in DOMAIN list : impl[list[a]] # list[a]
SuitableCtors(c) == {n \in DOMAIN ctors[c] : Suitable(ctors[c][n])}
findSuitableCtor(c) == CHOOSE n \in SuitableCtors(c) : \A m \in SuitableCtors(c) : n <= m

\* The activation of what is asked for: an interface stands for its class.
ClassFor(asked) == IF asked \in Interfaces THEN impl[asked] ELSE asked
Aborts(asked) == ClassFor(asked) \in Interfaces \/ SuitableCtors(ClassFor(asked)) = {}
Activation(asked, keep) ==
    [asked |-> asked, class |-> ClassFor(asked), keep |-> keep, next |-> 1,
     list |-> ctors[ClassFor(asked)][findSuitableCtor(ClassFor(asked))], got |-> <<>>]
\* An instance that is kept is not made again.
Kept(asked, keep) == keep /\ instances[asked] # NoObject
Begins(asked, keep) ==
    IF Aborts(asked) \/ Len(activations) = MaxDepth
    THEN activations' = <<>> /\ returned' = NoObject
    ELSE activations' = Append(activations, Activation(asked, keep)) /\ UNCHANGED returned

GetDependency(asked) ==
    /\ Idle
    /\ IF Kept(asked, TRUE) THEN returned' = instances[asked] /\ UNCHANGED activations
       ELSE Begins(asked, TRUE)
    /\ UNCHANGED <<ctors, impl, instances, arguments, objects>>
CreateInstance(asked) ==
    /\ Idle /\ Begins(asked, FALSE)
    /\ UNCHANGED <<ctors, impl, instances, arguments, objects>>

\* prepareArgs: the next parameter of the innermost call. "got" is what it was given
\* there and then.
Gets(call, o) == [call EXCEPT !.next = @ + 1, !.got = Append(@, o)]
Given(o) == /\ arguments' = [arguments EXCEPT ![Last.next] = o]
            /\ activations' = [activations EXCEPT ![Len(activations)] = Gets(Last, o)]
Prepare == /\ ~Idle /\ Last.next <= Len(Last.list)
           /\ LET i == Last.list[Last.next]
              IN IF Kept(i, TRUE) THEN Given(instances[i]) /\ UNCHANGED returned
                 ELSE Begins(i, TRUE) /\ UNCHANGED arguments
           /\ UNCHANGED <<ctors, impl, instances, objects>>

\* Mutant of Construct: what was made for an interface is not kept.
ConstructAlways ==
    /\ ~Idle /\ Last.next > Len(Last.list) /\ Len(objects) < MaxObjects
    /\ LET o == Len(objects) + 1
           caller == Len(activations) - 1
       IN /\ objects' = Append(objects, [class |-> Last.class, list |-> Last.list, got |-> Last.got,
                                         args |-> SubSeq(arguments, 1, Len(Last.list))])
          /\ UNCHANGED instances
          /\ IF caller = 0 THEN activations' = <<>> /\ returned' = o /\ UNCHANGED arguments
             ELSE /\ arguments' = [arguments EXCEPT ![activations[caller].next] = o]
                  /\ activations' = [SE!Front(activations) EXCEPT
                                        ![caller] = Gets(activations[caller], o)]
                  /\ UNCHANGED returned
    /\ UNCHANGED <<ctors, impl>>
\* All parameters are there: the constructor gets the first of m_args, whatever the calls
\* for later parameters have put there; its object is a root from now on.
Construct ==
    /\ ~Idle /\ Last.next > Len(Last.list) /\ Len(objects) < MaxObjects
    /\ LET o == Len(objects) + 1
           caller == Len(activations) - 1
       IN /\ objects' = Append(objects, [class |-> Last.class, list |-> Last.list, got |-> Last.got,
                                         args |-> SubSeq(arguments, 1, Len(Last.list))])
          /\ instances' = IF Last.keep THEN [instances EXCEPT ![Last.asked] = o] ELSE instances
          /\ IF caller = 0 THEN activations' = <<>> /\ returned' = o /\ UNCHANGED arguments
             ELSE /\ arguments' = [arguments EXCEPT ![activations[caller].next] = o]
                  /\ activations' = [SE!Front(activations) EXCEPT
                                        ![caller] = Gets(activations[caller], o)]
                  /\ UNCHANGED returned
    /\ UNCHANGED <<ctors, impl>>

\* The constructor aborts, and what has been kept stays.
ConstructorAborts == /\ ~Idle /\ Last.next > Len(Last.list)
                     /\ activations' = <<>> /\ returned' = NoObject
                     /\ UNCHANGED <<ctors, impl, instances, arguments, objects>>

Next == \/ \E i \in Interfaces, c \in Classes : AddDependency(i, c)
        \/ \E a \in Asked : GetDependency(a) \/ CreateInstance(a)
        \/ Prepare \/ Construct \/ ConstructorAborts
Spec == Init /\ [][Next]_vars

-----------------------------------------------------------------------------
Made(o) == o \in DOMAIN objects
IsFor(o, i) == Made(o) /\ objects[o].class \in DOMAIN Implements /\ Implements[objects[o].class] = i
\* The instances that were made for an interface as somebody's dependency.
GivenFor(i) == {objects[p[1]].got[p[2]] : p \in
                   {q \in (DOMAIN objects) \X (1..MaxDependencies) :
                       q[2] \in DOMAIN objects[q[1]].list /\ objects[q[1]].list[q[2]] = i}}

\* Whatever is registered, asked for and aborted in whatever order: for an interface
\* there is one instance, that all get who depend on it; it is of a class that
\* implements the interface; and a constructor's last argument, and any behind which no
\* instance had to be made, is the one that it was given.
DependenciesAreShared ==
    /\ \A i \in Interfaces : /\ Cardinality(GivenFor(i)) <= 1
                             /\ GivenFor(i) \subseteq {instances[i]}
                             /\ instances[i] # NoObject => IsFor(instances[i], i)
    /\ \A o \in DOMAIN objects : \A a \in DOMAIN objects[o].args :
          objects[o].args[a] = objects[o].got[a] \/ \E b \in (a + 1)..Len(objects[o].got) :
                                                       Len(objects[objects[o].got[b]].list) >= 1

\* "references to the given interface should be resolved by the given class"
\* (Activator.h:34): refuted, a later parameter whose class has dependencies of its own
\* overwrites the earlier ones in m_args.
ArgumentsMatch == \A o \in DOMAIN objects : \A a \in DOMAIN objects[o].args :
                     IsFor(objects[o].args[a], objects[o].list[a])
=============================================================================
