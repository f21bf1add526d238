-------------------------------- MODULE Types --------------------------------
(***************************************************************************)
(* The classes behind the types a program names: CDomain::ResolveTypeRef   *)
(* makes the classes of arrays, failables and foreign proxies the first    *)
(* time they are mentioned, BoxedClass those of boxed values;              *)
(* ClassByNiceName finds a class again by the name the program knows.      *)
(*                                                                         *)
(* A reference is the name of a class, a kind ("normal", "failable" for T?,*)
(* "foreign" for T* ) and the number of array brackets. A generated class  *)
(* is its number in `klasses'.                                             *)
(***************************************************************************)
EXTENDS Naturals, Sequences, FiniteSets, SequencesExt

CONSTANTS HeapClasses,  \* classes of the source that have foreign proxies
          Values,       \* its structs, and the primitive classes
          Others,       \* classes without proxies, such as string
          None,
          Aliases,      \* the sequence of aliases, in the order of the source
          MaxLevel,     \* bound: brackets around a name
          MaxGenerated  \* bound: generated classes

Source == HeapClasses \cup Values \cup Others
TypesAssumption ==
    /\ IsFiniteSet(Source) /\ Aliases \in Seq(ToSet(Aliases))
    /\ \A i, j \in DOMAIN Aliases : Aliases[i] = Aliases[j] => i = j
    /\ MaxLevel \in Nat /\ MaxGenerated \in Nat
    /\ \A n \in Source \cup ToSet(Aliases) \cup {None} :
          n \notin Nat \cup {"array", "failable", "foreign", "boxed"}
    /\ None \notin Source \cup ToSet(Aliases)

IsAlias(n) == \E i \in DOMAIN Aliases : Aliases[i] = n
Refs == [name : Source \cup ToSet(Aliases), kind : {"normal", "failable", "foreign"},
         level : 0..MaxLevel]
IsPlain(ref) == ref.kind = "normal" /\ ref.level = 0
Ref(n, k, l) == [name |-> n, kind |-> k, level |-> l]

VARIABLES target,    \* what the source says of each alias
          phase,     \* "aliases", "infer", "run" or "failed"
          wrapped,   \* the class an alias stands for, once it is resolved
          klasses,   \* the generated classes: what each is, and of which class
          maps,      \* m_arrayClassMap and so on, by the kind of their classes
          niceNames, \* m_niceNameMap
          answer     \* the last class sought: how, which type was meant, and the class
vars == <<target, phase, wrapped, klasses, maps, niceNames, answer>>

Answer(how, type, c) == [how |-> how, type |-> type, class |-> c]
NoAnswer == Answer("none", <<>>, None)
NoMaps == [array |-> <<>>, failable |-> <<>>, foreign |-> <<>>, boxed |-> <<>>]
Init == /\ target \in [ToSet(Aliases) -> Refs]
        /\ phase = IF Aliases = <<>> THEN "infer" ELSE "aliases"
        /\ wrapped = [a \in ToSet(Aliases) |-> None]
        /\ klasses = <<>> /\ maps = NoMaps
        /\ niceNames = {} /\ answer = NoAnswer

Extended(f, key, value) == [k \in DOMAIN f \cup {key} |-> IF k = key THEN value ELSE f[k]]

\* Both the classes and the maps, as an operation leaves them, with the class it
\* returns.
Registry(ks, ms, c) == [klasses |-> ks, maps |-> ms, class |-> c]
\* A class is found in the map of its kind, or made and entered there.
Mapped(r, special, key, of) ==
    IF key \in DOMAIN r.maps[special] THEN [r EXCEPT !.class = r.maps[special][key]]
    ELSE LET c == Len(r.klasses) + 1
         IN Registry(Append(r.klasses, [special |-> special, of |-> of]),
                     [r.maps EXCEPT ![special] = Extended(@, key, c)], c)

Special(c) == IF c \in 1..Len(klasses) THEN klasses[c].special ELSE c

\* resolveArrayClass: the class of the inner array first, if the class sought is
\* not in the map.
Array(n, level) ==
    LET A[k \in 0..level] ==
            IF k = 0 THEN Registry(klasses, maps, n)
            ELSE IF <<n, k>> \in DOMAIN maps.array
            THEN Registry(klasses, maps, maps.array[<<n, k>>])
            ELSE Mapped(A[k - 1], "array", <<n, k>>, A[k - 1].class)
    IN A[level]

\* Mutant of Around: the maps of failables and proxies are mixed up by a cache on
\* the name alone.
AroundOneMap(kind, r) ==
    IF r.class \in DOMAIN r.maps.failable THEN [r EXCEPT !.class = r.maps.failable[r.class]]
    ELSE Mapped(r, kind, r.class, r.class)
\* resolveFailableStruct and resolveForeignProxy.
Around(kind, r) == Mapped(r, kind, r.class, r.class)

\* A reference to an alias becomes what the alias stands for, with what is around
\* it. An alias that is resolved later is refused.
Redirect(ref) == IF IsAlias(ref.name) THEN Ref(wrapped[ref.name], "normal", 0) ELSE ref
Refused(ref)  == \/ ref.name = None
                 \/ ref.kind = "foreign" /\ (ref.level > 0 \/ ref.name \notin HeapClasses)

Resolve(ref) == LET array == Array(ref.name, ref.level)
                IN IF ref.kind = "normal" THEN array ELSE Around(ref.kind, array)

Becomes(r) == klasses' = r.klasses /\ maps' = r.maps /\ Len(r.klasses) <= MaxGenerated
Fail == phase' = "failed" /\ answer' = NoAnswer /\ UNCHANGED <<klasses, maps, wrapped>>

Unresolved(i) == wrapped[Aliases[i]] = None
ResolveAlias ==
    /\ phase = "aliases"
    /\ LET i == CHOOSE i \in DOMAIN Aliases : Unresolved(i) /\ \A j \in 1..(i - 1) : ~Unresolved(j)
           ref == Redirect(target[Aliases[i]])
       IN IF Refused(ref) THEN Fail
          ELSE /\ Becomes(Resolve(ref))
               /\ wrapped' = [wrapped EXCEPT ![Aliases[i]] = Resolve(ref).class]
               /\ phase' = IF i = Len(Aliases) THEN "infer" ELSE "aliases"
               /\ answer' = NoAnswer
    /\ UNCHANGED <<target, niceNames>>

\* The type a class is: what the program calls it.
Meaning == LET M[c \in Source \cup ToSet(Aliases) \cup 1..Len(klasses)] ==
                   IF c \notin 1..Len(klasses) THEN <<c>>
                   ELSE <<klasses[c].special>> \o M[klasses[c].of]
           IN M
\* What a reference means in the source: an alias is what it stands for.
Wrap(ref, m) == (IF ref.kind = "normal" THEN <<>> ELSE <<ref.kind>>)
                \o [i \in 1..ref.level |-> "array"] \o m
MeaningOfRef(ref) ==
    IF IsAlias(ref.name) THEN Wrap(ref, Meaning[wrapped[ref.name]]) ELSE Wrap(ref, <<ref.name>>)

\* Any reference of the program but plain ones, in the order the transformer comes to them.
ResolveTypeRef(written) ==
    /\ phase = "infer"
    /\ LET ref == Redirect(written)
       IN IF Refused(ref) THEN Fail
          ELSE /\ Becomes(Resolve(ref))
               /\ answer' = Answer(IF IsAlias(written.name) /\ ~IsPlain(written)
                                   THEN "around an alias" ELSE "reference",
                                   MeaningOfRef(written), Resolve(ref).class)
               /\ UNCHANGED <<phase, wrapped>>
    /\ UNCHANGED <<target, niceNames>>

\* inferArrayInitExpr for elements of class c: the reference has the flat name of
\* their class, and one bracket.
inferArrayInitExpr(c) ==
    /\ phase = "infer" /\ c \in Source \cup 1..Len(klasses)
    /\ Becomes(Array(c, 1))
    /\ answer' = Answer("literal", <<"array">> \o Meaning[c], Array(c, 1).class)
    /\ UNCHANGED <<target, phase, wrapped, niceNames>>

\* Conversions of values box them, and so do calls by reflection at run time.
IsByValue(c) == c \in Values \/ Special(c) = "failable"
BoxedClass(c) ==
    /\ phase \in {"infer", "run"}
    /\ c \in Source \cup 1..Len(klasses) /\ IsByValue(c)
    /\ Becomes(Mapped(Registry(klasses, maps, None), "boxed", c, c))
    /\ answer' = NoAnswer
    /\ UNCHANGED <<target, phase, wrapped, niceNames>>

Compiled ==
    /\ phase = "infer" /\ phase' = "run" /\ answer' = NoAnswer
    /\ UNCHANGED <<target, wrapped, klasses, maps, niceNames>>

NiceName(c) == IF Special(c) = "boxed" THEN Meaning[klasses[c].of] ELSE Meaning[c]

\* ClassByNiceName: the map is made again when it has not as many entries as there
\* are classes. Boxed classes are not in it, and of two classes with a name it
\* has the later.
Registered == Source \cup ToSet(Aliases) \cup 1..Len(klasses)
\* Mutant of Lasting: with the boxed classes.
LastingAll(c) == \A d \in (1..Len(klasses)) \ {c} :
                     NiceName(d) = NiceName(c) => c \in 1..Len(klasses) /\ d < c
Lasting(c) == Special(c) # "boxed" /\ \A d \in (1..Len(klasses)) \ {c} :
                  Special(d) # "boxed" /\ NiceName(d) = NiceName(c) => c \in 1..Len(klasses) /\ d < c
NiceNames == {<<NiceName(c), c>> : c \in {d \in Registered : Lasting(d)}}
IsCurrent == niceNames # {} /\ Cardinality(niceNames) = Cardinality(Registered)

ClassByNiceName(c) ==
    /\ phase = "run" /\ c \in Registered /\ Special(c) # "boxed"
    /\ niceNames' = IF IsCurrent THEN niceNames ELSE NiceNames
    /\ LET found == {e \in niceNames' : e[1] = NiceName(c)}
       IN answer' = Answer("name", Meaning[c],
                           IF found = {} THEN None ELSE (CHOOSE e \in found : TRUE)[2])
    /\ UNCHANGED <<target, phase, wrapped, klasses, maps>>

Next == \/ ResolveAlias
        \/ \E ref \in Refs : (IsPlain(ref) => IsAlias(ref.name)) /\ ResolveTypeRef(ref)
        \/ \E c \in Source \cup 1..MaxGenerated : inferArrayInitExpr(c) \/ BoxedClass(c)
        \/ Compiled
        \/ \E c \in Source \cup ToSet(Aliases) \cup 1..MaxGenerated : ClassByNiceName(c)
Spec == Init /\ [][Next]_vars

-----------------------------------------------------------------------------
Twice(m, n) == m = n /\ Len(m) > 2 /\ m[1] = "array" /\ m[2] # "failable"

\* Whatever has been mentioned before, a reference is resolved to the class of the
\* type it means; and no two classes are one type, unless it is one of arrays of
\* generated classes.
ClassIsTheType ==
    /\ answer.how = "reference" => Meaning[answer.class] = answer.type
    /\ \A c, d \in 1..Len(klasses) : c # d => Meaning[c] # Meaning[d] \/ Twice(Meaning[c], Meaning[d])

\* The names of classes that other domains and reflection send find them, also
\* those of classes made after the names were collected, and boxed classes, which
\* share the name of what they box, are never found instead.
NiceNamesFind == answer.how = "name" => answer.class # None /\ Meaning[answer.class] = answer.type

\* "If the first element is T, then the result of this expression must be [T]"
\* (Transformer.cpp:2201): an array literal has the class the same type has where it
\* is written.
LiteralsHaveTheirType ==
    answer.how = "literal" =>
        \A ref \in Refs : ~IsAlias(ref.name) /\ ~Refused(ref) /\ MeaningOfRef(ref) = answer.type
                             => Resolve(ref).class = answer.class

\* "as if aliases never existed" (Transformer.cpp:336): a reference to an alias means
\* what it would with the type the alias stands for.
AliasesVanish == answer.how = "around an alias" => Meaning[answer.class] = answer.type
=============================================================================
