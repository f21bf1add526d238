------------------------------- MODULE Access -------------------------------
(***************************************************************************)
(* Which member a call finds, and whether it may use it: extensions are    *)
(* merged (STransformer::mergeExtensions), then one method is inferred,    *)
(* with closures inside it, up to a call of `f' (inferCallExpr).           *)
(*                                                                         *)
(* Three classes declare `f' in some way; two extensions may add it. What  *)
(* `f' is decides between a method, a const and a call out of the language *)
(* (ECall); arguments are left out.                                        *)
(***************************************************************************)
EXTENDS Naturals, Sequences

CONSTANTS HomeClasses,  \* classes that may declare `f'
          HomeBase,       \* class -> its base or None
          HomeModule,     \* class -> the module (source file) it is declared in
          MaxNesting,   \* bound: closures inside each other
          None

Kinds    == {"method", "static", "ctor", "const", "ecall"}
Accesses == {"private", "protected", "internal", "public"}
Modules  == {HomeModule[c] : c \in HomeClasses}
Closure  == "closure"     \* the class inferClosureExpr makes: its base is no HomeClass

\* The model follows two steps from a class to its base; nothing has the base Closure.
AccessAssumption ==
    /\ HomeBase \in [HomeClasses -> HomeClasses \cup {None}]
    /\ \A c, d, e \in HomeClasses : HomeBase[c] = d /\ HomeBase[d] = e => HomeBase[e] = None
    /\ None \notin HomeClasses /\ Closure \notin HomeClasses
    /\ MaxNesting \in Nat

Member(k, a, c, e) == [kind |-> k, access |-> a, class |-> c, ext |-> e]

VARIABLES nameSet,     \* CClass::m_nameSet for `f': class -> member or None
          extensions,  \* CDomain::Extensions(), those not yet merged
          merged,      \* of them, those merged: their containers stay alive
          curMethod,   \* the method that is inferred, after the methods around it
          callee,      \* uTargetMethod or uTargetConst
          verdict      \* "open", "allowed", or why the program is refused
vars == <<nameSet, extensions, merged, curMethod, callee, verdict>>

\* CClass::IsSubclassOf and Is, along at most all the classes.
IsSubclassOf(c, d) ==
    c # Closure /\ (HomeBase[c] = d \/ (HomeBase[c] # None /\ HomeBase[HomeBase[c]] = d))
Is(c, d) == c = d \/ IsSubclassOf(c, d)

\* What a class below may declare, next to any `f' of the class above it.
Below == {[kind |-> "method", access |-> "public"], [kind |-> "const", access |-> "private"]}
Added == {[kind |-> k, access |-> a] : k \in {"method", "const"}, a \in {"private", "internal"}}
Extension == [class : HomeClasses, module : Modules, adds : Added \cup {None}]

Init ==
    /\ \E k \in Kinds, a \in Accesses, d \in Below \cup {None} :
         nameSet = [c \in HomeClasses |->
                      IF \E b \in HomeClasses : HomeBase[b] = c THEN Member(k, a, c, None)
                      ELSE IF HomeBase[c] # None /\ d # None
                      THEN Member(d.kind, d.access, c, None) ELSE None]
    /\ extensions \in {<<>>} \cup {<<e>> : e \in Extension}
                      \cup {<<e, [e EXCEPT !.adds = None]>> : e \in Extension}
    /\ merged = <<>> /\ curMethod = <<>> /\ callee = None /\ verdict = "open"

\* One round of mergeExtensions. The method keeps the container it was declared in.
mergeExtensions ==
    /\ extensions # <<>> /\ verdict = "open"
    /\ LET e == Head(extensions) IN
       IF e.adds # None /\ nameSet[e.class] # None
       THEN /\ verdict' = "duplicate" /\ UNCHANGED <<nameSet, extensions, merged>>
       ELSE /\ nameSet' = IF e.adds = None THEN nameSet
                          ELSE [nameSet EXCEPT ![e.class] =
                                  Member(e.adds.kind, e.adds.access, e.class, Len(merged) + 1)]
            /\ extensions' = Tail(extensions) /\ merged' = Append(merged, e)
            /\ UNCHANGED verdict
    /\ UNCHANGED <<curMethod, callee>>

\* inferMethod comes to a method of a class, or of an extension merged into it.
\* `text' is the module it is written in, `module' that of its declaring class.
inferMethod ==
    /\ extensions = <<>> /\ curMethod = <<>> /\ verdict = "open"
    /\ \E c \in HomeClasses, e \in {None} \cup DOMAIN merged, u \in BOOLEAN :
         /\ e # None => merged[e].class = c
         /\ curMethod' = <<[class |-> c, ext |-> e, unsafe |-> u, module |-> HomeModule[c],
                            text |-> IF e = None THEN HomeModule[c] ELSE merged[e].module]>>
    /\ UNCHANGED <<nameSet, extensions, merged, callee, verdict>>

\* The class of a closure is in the module of the text; it remembers no extension,
\* and its own flag says nothing (CMethod::Clone).
inferClosureExpr ==
    /\ curMethod # <<>> /\ Len(curMethod) <= MaxNesting /\ verdict = "open"
    /\ LET text == Head(curMethod).text IN
       curMethod' = Append(curMethod, [class |-> Closure, ext |-> None, unsafe |-> FALSE,
                                       module |-> text, text |-> text])
    /\ UNCHANGED <<nameSet, extensions, merged, callee, verdict>>

Methods == 1 .. Len(curMethod)
IsUnsafe(i) == curMethod[1].unsafe      \* that of the topmost method (ParentMethod)

\* Mutant of IsEnclosedByClass: the methods around a closure are forgotten.
IsEnclosedByOwnClass(i, c) == Is(curMethod[i].class, c)
IsEnclosedByClass(i, c) == \E j \in 1 .. i : Is(curMethod[j].class, c)

\* The switch over the modifier, which stands once for consts and once for methods.
ByAccess(m, i) ==
    LET other == curMethod[i] IN
    \/ m.access = "public"
    \/ m.access = "private" /\ IF other.ext # None THEN m.ext = other.ext
                               ELSE m.class = other.class
    \/ m.access = "protected" /\ Is(other.class, m.class)
    \/ m.access = "internal" /\ HomeModule[m.class] = other.module
\* ... and the exception for closures. (A method is accessible from itself anyway.)
IsAccessibleFromMethod(m, i) ==
    \/ ByAccess(m, i)
    \/ curMethod[i].ext = None /\ IsEnclosedByClass(i, m.class)

\* MyMethod goes on above where the name is something else; a constructor and a const
\* are looked for in the class only.
MyMethod(c, kinds) ==
    LET Found(d) == nameSet[d] # None /\ nameSet[d].kind \in kinds
        b == HomeBase[c]
    IN IF Found(c) THEN nameSet[c]
       ELSE IF b = None THEN None
       ELSE IF Found(b) THEN nameSet[b]
       ELSE IF HomeBase[b] # None /\ Found(HomeBase[b]) THEN nameSet[HomeBase[b]] ELSE None
OwnMember(c, kind) == IF nameSet[c] # None /\ nameSet[c].kind = kind THEN nameSet[c] ELSE None
StaticMethodOrCtor(c) ==
    LET static == MyMethod(c, {"static", "ecall"})
    IN IF static # None THEN static ELSE OwnMember(c, "ctor")
MyConst(c) == OwnMember(c, "const")

\* Consts come first, since they are written like calls of static methods.
Target(c, isClassName) == IF ~isClassName THEN MyMethod(c, {"method"})
                          ELSE IF MyConst(c) # None THEN MyConst(c)
                          ELSE StaticMethodOrCtor(c)

inferCallExpr(c, isClassName) ==
    /\ curMethod # <<>> /\ verdict = "open"
    /\ LET m == Target(c, isClassName)
           i == Len(curMethod)
       IN /\ callee' = m
          /\ verdict' = IF m = None THEN "missing"
                        ELSE IF ~IsAccessibleFromMethod(m, i) THEN "hidden"
                        ELSE IF m.kind = "ecall" /\ ~IsUnsafe(i) THEN "safe"
                        ELSE "allowed"
    /\ UNCHANGED <<nameSet, extensions, merged, curMethod>>

Next == \/ mergeExtensions \/ inferMethod \/ inferClosureExpr
        \/ \E c \in HomeClasses, s \in BOOLEAN : inferCallExpr(c, s)
Spec == Init /\ [][Next]_vars

-----------------------------------------------------------------------------
LetThrough == verdict = "allowed"
Declared == {nameSet[c] : c \in HomeClasses} \ {None}
Writer == curMethod[1]      \* the method whose text this is, closures included
Nested == Len(curMethod) > 1

\* A private or protected member is used only by text of its class, of an extension
\* of it, or of a class below; text of an extension outside closures uses only those
\* private members that stand in the same extension (the comment at
\* CMethod::IsAccessibleFromMethod); a call out of the language is written in an
\* unsafe method.
HiddenStaysInside ==
    LetThrough =>
        /\ callee.access \in {"private", "protected"} => Is(Writer.class, callee.class)
        /\ (callee.access = "private" /\ Writer.ext # None /\ ~Nested) => callee.ext = Writer.ext
        /\ callee.kind = "ecall" => Writer.unsafe

\* A closure may use all that the method around it may. Where an extension stands in
\* another module than its class, internal members are excluded.
ClosuresLoseNothing ==
    \A i \in Methods \ {1}, m \in Declared :
        (IsAccessibleFromMethod(m, i - 1) /\ (m.access = "internal" => Writer.text = Writer.module))
            => IsAccessibleFromMethod(m, i)
\* ... and without the exclusion, which does not hold.
ClosuresSeeTheirModule ==
    \A i \in Methods \ {1}, m \in Declared :
        IsAccessibleFromMethod(m, i - 1) => IsAccessibleFromMethod(m, i)

\* A closure may use no more than the method around it: does not hold in extensions.
ClosuresGainNothing ==
    \A i \in Methods \ {1}, m \in Declared :
        IsAccessibleFromMethod(m, i) => IsAccessibleFromMethod(m, i - 1)

\* Private members are for their class alone: does not hold, IsEnclosedByClass takes a
\* class below for the class.
PrivateIsForTheClass ==
    (LetThrough /\ callee.access = "private") => Writer.class = callee.class
=============================================================================
