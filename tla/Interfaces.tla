------------------------------ MODULE Interfaces ------------------------------
(***************************************************************************)
(* Which classes implement an interface. A class does when it has the      *)
(* methods of the interface with the same signatures; the transformer asks *)
(* for every conversion between them, the run time for every cast and `is' *)
(* and both remember the answer in the class (m_interfaceCache).           *)
(*                                                                         *)
(* STypeRef::Equals compares names. The name of a type is what is written, *)
(* without brackets, until inferMethod or a call resolves the signature in *)
(* place. One interface with a method of one parameter stands for all; a   *)
(* class has a method of that name, that may be an override.               *)
(***************************************************************************)
EXTENDS Naturals, Sequences, FiniteSets, SequencesExt

CONSTANTS Implementers,  \* the classes
          Interface, None

InterfacesAssumption == IsFiniteSet(Implementers)

\* Types as written: a plain one, an array of it, an alias of it and another one.
Written == {"int", "[int]", "alias of int", "bool"}
\* ClassName before resolution, and after it.
Shown(t) == IF t = "[int]" THEN "int" ELSE t
Meant(t) == IF t = "alias of int" THEN "int" ELSE t

Everything == Implementers \cup {Interface}

VARIABLES type,      \* the type of the method's parameter, as written
          private,   \* classes whose method is private
          base,      \* the base of a class, whose method it overrides
          body,      \* what the body of a class's method does, and with which class
          queue,     \* the classes to infer, in the order of the source
          phase,     \* "finalize", "infer", "run" or "failed"
          resolved,  \* the classes whose method has a resolved signature
          cache,     \* m_interfaceCache, for those in it
          converted, \* the classes whose values are used as the interface
          called     \* run time: the class of the last interface call, and its result
vars == <<type, private, base, body, queue, phase, resolved, cache, converted, called>>
source == <<type, private, base, body>>

Statements == {"convert", "call"} \X Implementers
Bases == {b \in [Implementers -> Implementers \cup {None}] :
              /\ \A c \in Implementers : b[c] # c /\ (b[c] # None => b[b[c]] = None)}

Init == /\ type \in [Everything -> Written] /\ private \in SUBSET Implementers
        /\ base \in Bases
        /\ body \in [Implementers -> {<<>>} \cup Statements]
        /\ queue \in SetToSeqs(Everything)
        /\ phase = "finalize" /\ resolved = {}
        /\ cache = [c \in {} |-> FALSE]
        /\ converted = {} /\ called = <<None, FALSE>>

\* What Equals looks at.
Name(c) == IF c \in resolved THEN Meant(type[c]) ELSE Shown(type[c])
Equal(c, d) == Name(c) = Name(d)

\* MakeSureMethodsFinalized of every class, before anything is resolved.
MakeSureMethodsFinalized ==
    /\ phase = "finalize"
    /\ phase' = IF \A c \in Implementers : base[c] # None =>
                      Equal(c, base[c]) /\ base[c] \notin private
                THEN "infer" ELSE "failed"
    /\ UNCHANGED <<source, queue, resolved, cache, converted, called>>

\* Mutant of DoesImplementInterfaceNoCache: the names of the methods are enough.
DoesImplementByName(c, done) == c \notin private
DoesImplementInterfaceNoCache(c, done) ==
    LET name(x) == IF x \in done THEN Meant(type[x]) ELSE Shown(type[x])
    IN c \notin private /\ name(c) = name(Interface)

DoesImplementInterface(c, done) ==
    IF c \in DOMAIN cache THEN cache[c] ELSE DoesImplementInterfaceNoCache(c, done)
Remembered(c, answer) == [d \in DOMAIN cache \cup {c} |-> IF d = c THEN answer ELSE cache[d]]

\* inferMethod: the signature first, then the body. A conversion to the interface,
\* or back, asks whether the class implements it; a call resolves the parameters
\* of what it calls.
inferMethod ==
    /\ phase = "infer" /\ queue # <<>>
    /\ LET k == Head(queue)
           statement == IF k \in Implementers THEN body[k] ELSE <<>>
           kind == IF statement = <<>> THEN "nothing" ELSE statement[1]
           done == resolved \cup {k}
       IN \/ kind = "nothing" /\ resolved' = done /\ UNCHANGED <<phase, cache, converted>>
          \/ /\ kind = "call" /\ resolved' = done \cup {statement[2]}
             /\ UNCHANGED <<phase, cache, converted>>
          \/ /\ kind = "convert" /\ resolved' = done
             /\ LET c == statement[2]
                    answer == DoesImplementInterface(c, done)
                IN /\ cache' = Remembered(c, answer)
                   /\ phase' = IF answer THEN "infer" ELSE "failed"
                   /\ converted' = IF answer THEN converted \cup {c} ELSE converted
    /\ queue' = Tail(queue)
    /\ UNCHANGED <<source, called>>

Compiled == /\ phase = "infer" /\ queue = <<>> /\ phase' = "run"
            /\ UNCHANGED <<source, queue, resolved, cache, converted, called>>

\* A cast to the interface or `is' at run time, of an object of any class.
Is(c) == /\ phase = "run"
         /\ cache' = Remembered(c, DoesImplementInterface(c, resolved))
         /\ UNCHANGED <<source, queue, phase, resolved, converted, called>>

\* _soX_findmethod: the method of that name must have the signature; an object has
\* become a value of the interface by a conversion or by a cast that succeeded.
CallInterface(c) ==
    /\ phase = "run"
    /\ c \in converted \/ (c \in DOMAIN cache /\ cache[c])
    /\ called' = <<c, Equal(c, Interface)>>
    /\ UNCHANGED <<source, queue, phase, resolved, cache, converted>>

Next == MakeSureMethodsFinalized \/ inferMethod \/ Compiled
        \/ \E c \in Implementers : Is(c) \/ CallInterface(c)
Spec == Init /\ [][Next]_vars

-----------------------------------------------------------------------------
Names(c) == {Shown(type[c]), Meant(type[c])}
LookAlike(c, d) == type[c] # type[d] /\ Names(c) \cap Names(d) # {}

\* An interface call finds a method with the signature it expects in every object
\* that was let through as a value of the interface, when no array or alias makes
\* two signatures look like each other.
CallsDispatch == called[1] # None /\ ~LookAlike(called[1], Interface) => called[2]

\* "A cache to speed up the DoesImplementInterface function" (Class.h:605): what it
\* holds is what the function would answer.
CacheIsExact == phase = "run" => \A c \in DOMAIN cache :
                    cache[c] = DoesImplementInterfaceNoCache(c, resolved)

\* "When we override stuff, we must be sure that the methods have same signature."
\* (Class.cpp:718)
OverridesAgree == phase = "run" => \A c \in Implementers : base[c] # None => Equal(c, base[c])
=============================================================================
