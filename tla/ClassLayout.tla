----------------------------- MODULE ClassLayout -----------------------------
(***************************************************************************)
(* The layout of classes, which is computed twice: CClass::CalcGCMap tells *)
(* the collector where an object has references, the emitter writes the C  *)
(* struct the program uses.                                                *)
(*                                                                         *)
(* CalcGCMap calls itself for the base and the types of the fields; its    *)
(* activations are `stack'. Offsets are in words, as every field is        *)
(* aligned to one. The C compiler refuses a struct that contains itself,   *)
(* so there is none.                                                       *)
(***************************************************************************)
EXTENDS Naturals, Sequences, FiniteSets, SequencesExt, FiniteSetsExt

CONSTANTS Classes,    \* ordinary classes
          Structs,    \* value types, whose fields are no value types here
          Proxies,    \* foreign proxies (T*): their base is the class T
          Prim,        \* the type of a primitive field
          Library,     \* any and string, which refer to nothing else
          NoBase,
          MaxFields    \* bound: the fields a program declares

Class == Classes \cup Structs \cup Proxies
Types == Class \cup {Prim}    \* of declared fields

VARIABLES base, fields,  \* the classes of the program
          todo,          \* classesToProcess2
          sized,         \* the classes with E_CLASSFLAGS_IS_SIZE_CALCULATED
          stack,         \* the activations of CalcGCMap: class, next type to visit
          gcMap,         \* SGCInfo::GCMap, the set of its offsets
          contentSize    \* SGCInfo::ContentSize
vars == <<base, fields, todo, sized, stack, gcMap, contentSize>>

IsByValue(t)   == t \in Structs \cup {Prim}
IsHeapClass(t) == t \in Classes \cup Proxies \cup {Library}
Inherits(c)    == base[c] # NoBase /\ c \notin Proxies

\* The types CalcGCMap visits first, in its order.
Visited(c) == (IF Inherits(c) THEN <<base[c]>> ELSE <<>>)
              \o SelectSeq(fields[c], LAMBDA t : t \in Class)

Acyclic(b) == \A S \in SUBSET Classes : S # {} => \E c \in S : b[c] \notin S

\* The types of the fields that c has of a list of fields, each with its class.
FieldsOf(c, declared) ==
    LET own == SelectSeq(declared, LAMBDA d : d[1] = c) IN [i \in DOMAIN own |-> own[i][2]]

Init == /\ \E b \in [Classes -> Classes \cup {NoBase}], p \in [Proxies -> Classes] :
              /\ Acyclic(b)
              /\ base = [c \in Class |-> CASE c \in Classes -> b[c]
                                           [] c \in Proxies -> p[c]
                                           [] OTHER -> NoBase]
        /\ \E declared \in [1..MaxFields -> (Classes \cup Structs \cup {NoBase}) \X Types] :
              \* m_hdomain and m_name of a proxy
              fields = [c \in Class |-> IF c \in Proxies THEN <<Library, Library>>
                                        ELSE FieldsOf(c, declared)]
        /\ \A c \in Structs : fields[c] # <<>> /\ ToSet(fields[c]) \cap Structs = {}
        /\ todo = Class
        /\ sized = {} /\ stack = <<>>
        /\ gcMap = [c \in Class |-> {}]
        /\ contentSize = [c \in Class |-> 0]

Enter(c) == /\ stack' = Append(stack, [class |-> c, at |-> 1])
            /\ sized' = sized \cup {c}

\* CalcGCMap is called for the classes of the queue, whose order is that of the
\* source: any. It returns at once if the flag is set.
CalcGCMap(c) ==
    /\ stack = <<>> /\ c \in todo
    /\ todo' = todo \ {c}
    /\ IF c \in sized THEN UNCHANGED <<stack, sized>> ELSE Enter(c)
    /\ UNCHANGED <<base, fields, gcMap, contentSize>>

Top == stack[Len(stack)]

\* Mutant of Visit: the flag is set when a class is through.
VisitUnflagged ==
    /\ stack # <<>> /\ Top.at <= Len(Visited(Top.class)) /\ Len(stack) < 6
    /\ LET type == Visited(Top.class)[Top.at]
           resumed == [stack EXCEPT ![Len(stack)].at = @ + 1]
       IN stack' = Append(resumed, [class |-> type, at |-> 1])
    /\ UNCHANGED <<base, fields, todo, sized, gcMap, contentSize>>
Visit ==
    /\ stack # <<>> /\ Top.at <= Len(Visited(Top.class))
    /\ LET type == Visited(Top.class)[Top.at]
           resumed == [stack EXCEPT ![Len(stack)].at = @ + 1]
       IN IF type \in sized
          THEN stack' = resumed /\ UNCHANGED sized
          ELSE /\ stack' = Append(resumed, [class |-> type, at |-> 1])
               /\ sized' = sized \cup {type}
    /\ UNCHANGED <<base, fields, todo, gcMap, contentSize>>


SizeOf(t) == IF t \in Structs THEN contentSize[t] ELSE 1

\* The first own field: behind the vtable pointer and the fields of the base,
\* which are known by its map.
BaseMap(c)  == IF base[c] = NoBase THEN {} ELSE gcMap[base[c]]
\* Mutant of FirstOffset: the fields of the base are forgotten.
FirstOffsetAlone(c) == IF c \in Structs THEN 0 ELSE 1
FirstOffset(c) ==
    IF Inherits(c) /\ BaseMap(c) # {} THEN contentSize[base[c]]
    ELSE IF c \notin Structs /\ BaseMap(c) = {} THEN 1 ELSE 0

Offset(c, i) == FirstOffset(c) + MapThenSumSet(LAMBDA j : SizeOf(fields[c][j]), 1..(i - 1))

OwnMap(c) == UNION {IF IsHeapClass(fields[c][i]) THEN {Offset(c, i)}
                    ELSE IF fields[c][i] = Prim THEN {}
                    ELSE {Offset(c, i) + o : o \in gcMap[fields[c][i]]} : i \in DOMAIN fields[c]}

Finish ==
    /\ stack # <<>> /\ Top.at > Len(Visited(Top.class))
    /\ LET c == Top.class
       IN /\ gcMap' = [gcMap EXCEPT ![c] = (IF Inherits(c) THEN BaseMap(c) ELSE {}) \cup OwnMap(c)]
          /\ contentSize' = [contentSize EXCEPT ![c] = Offset(c, Len(fields[c]) + 1)]
    /\ stack' = Front(stack)
    /\ UNCHANGED <<base, fields, todo, sized>>

Next == (\E c \in Class : CalcGCMap(c)) \/ Visit \/ Finish
Spec == Init /\ [][Next]_vars

-----------------------------------------------------------------------------
\* The struct SEmitter::emitStructHeader writes: a vtable pointer, the fields of
\* the bases (emitInstanceFields) and its own. A struct is a field in whole.
EmittedFields[c \in Class] ==
    (IF Inherits(c) THEN EmittedFields[base[c]] ELSE <<>>)
    \o FlattenSeq([i \in DOMAIN fields[c] |->
           CASE fields[c][i] = Prim     -> <<"number">>
             [] IsHeapClass(fields[c][i]) -> <<"reference">>
             [] OTHER -> EmittedFields[fields[c][i]]])
EmittedStruct(c) == (IF c \in Structs THEN <<>> ELSE <<"vtable">>) \o EmittedFields[c]
References(c) == {i - 1 : i \in {j \in DOMAIN EmittedStruct(c) : EmittedStruct(c)[j] = "reference"}}

Done(c) == c \in sized /\ \A i \in DOMAIN stack : stack[i].class # c

Agrees(c) == gcMap[c] = References(c) /\ contentSize[c] = Len(EmittedStruct(c))

\* "This ensures correct interoperation between the runtime and the generated C
\* code" (Emitter.cpp:167): the collector finds the references of an object
\* where the program keeps them.
LayoutsAgree == \A c \in Class : Done(c) => Agrees(c)

\* The types a layout depends on, through bases and fields.
Uses == [c \in Class |-> ToSet(Visited(c))]
Closure(f, c) == {d \in Class : \A S \in SUBSET Class :
                    f[c] \subseteq S /\ (\A e \in S : f[e] \subseteq S) => d \in S}
DependsOn(c)  == Closure(Uses, c)

\* The types a layout is made of: a base, and the structs of fields.
Needs == [c \in Class |-> {d \in Uses[c] : d \in Structs \/ (Inherits(c) /\ d = base[c])}]

\* What the code does guarantee: the layouts agree for a class if no base and no
\* struct it is made of leads back to it, if its bases have references
\* themselves, and for a proxy of a class without references.
SoundAlone(c) == /\ \A d \in Needs[c] : c \notin DependsOn(d)
                 /\ Inherits(c) => References(base[c]) # {}
                 /\ c \in Proxies => References(base[c]) = {}
Sound(c) == \A d \in Closure(Needs, c) \cup {c} : SoundAlone(d)
SoundLayoutsAgree == \A c \in Class : Done(c) => Agrees(c) \/ ~Sound(c)

\* The recursion enters no class twice, however the types refer to each other, and
\* in the end no class is left out.
AllSized == /\ \A i, j \in DOMAIN stack : stack[i].class = stack[j].class => i = j
            /\ todo = {} /\ stack = <<>> => sized = Class
=============================================================================
