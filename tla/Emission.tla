------------------------------ MODULE Emission ------------------------------
(***************************************************************************)
(* The C text of a domain (SEmitter::emit): sections in a fixed order, each *)
(* of them written class by class, for a C compiler that reads it once.     *)
(* What a section declares, and what it uses, depends on flags that other   *)
(* stages have set: whether a class has a table, whether a method is        *)
(* overridden, was ever called, or is implemented by the run time.          *)
(*                                                                          *)
(* The programs have a class A with a method m and a constructor, a class B *)
(* derived from it with a static method main, two structs V and W, and any  *)
(* MaxFeatures of what else the emitter distinguishes. A symbol of the text *)
(* is <<kind, class>> or <<kind, class, member>>.                           *)
(***************************************************************************)
EXTENDS Naturals, Sequences, FiniteSets
S == INSTANCE SequencesExt

CONSTANTS Features,    \* what a program may have
          MaxFeatures  \* bound: how much of it at a time

VARIABLES features,    \* the program
          klasses,     \* CDomain::Classes()
          section, pos,  \* what is written
          declared, defined,  \* the symbols so far, and those with a body
          early        \* the uses of symbols that are not declared yet
program == <<features, klasses>>
vars == <<program, section, pos, declared, defined, early>>

Sections == <<"struct_names", "structs", "class_names", "classes", "functions",
              "tables", "helpers", "bodies", "stubs", "prolog", "epilog", "done">>
Has(f) == f \in features
Is(c) == c = klasses[pos]

-----------------------------------------------------------------------------
(***************************************************************************)
(* The classes: those of the source in their order, then generated ones.   *)
(***************************************************************************)
Values == {"V", "W"}
IsValueType(c) == c \in Values
IsAbstract(c) == c = "A" /\ Has("abstract")
SharesStruct(c) == c \in {"boxed", "closure"}
EmitVTable(c) == c \notin {"boxed", "closure", "env"}
HasVTable(c) == ~IsValueType(c) /\ ~IsAbstract(c)
HasTable(c) == EmitVTable(c) /\ HasVTable(c)
Overrides == Has("virtual") \/ Has("abstract")
\* Proxies override what they wrap, "array" is [A], "env" that of a closure in main.
MadeFor(f, classes) == IF Has(f) THEN classes ELSE <<>>
Generated == MadeFor("proxyA", <<"proxyA">>) \o MadeFor("proxyB", <<"proxyB">>)
             \o MadeFor("box", <<"boxed">>) \o MadeFor("array", <<"array">>)
             \o MadeFor("closure", <<"closure", "env">>)
Sources == {<<"A", "V", "W", "B">>, <<"A", "W", "V", "B">>, <<"V", "A", "W", "B">>,
            <<"W", "A", "V", "B">>, <<"V", "W", "A", "B">>, <<"W", "V", "A", "B">>}

\* The types of which a class has fields by value, and its static fields.
FieldsByValue(c) == (IF c \in {"A", "B"} /\ Has("field_of_V") THEN {"V"} ELSE {})
                    \cup (IF c = "V" /\ Has("V_has_W") THEN {"W"} ELSE {})
                    \cup (IF c = "boxed" THEN {"V"} ELSE {})
HasStatics(c) == c = "A" /\ (Has("static_V") \/ Has("static_any"))

\* CClass::InstanceMethods, CMethod::IsTrulyVirtual.
MethodOwner(c) == IF c = "B" /\ ~Overrides THEN "A" ELSE c
HasMethod(c) == c \in {"A", "B", "proxyA", "proxyB", "boxed", "closure"}
IsVirtual(c) == \/ c = "A" /\ (Overrides \/ Has("proxyA") \/ Has("proxyB"))
                \/ c = "B" /\ Overrides
IsNative(c) == c = "A" /\ Has("native") /\ ~Has("abstract")
IsExtern(c) == IsNative(c) \/ c \in {"boxed", "array"}
IsCtorExtern(c) == c \in {"boxed", "closure", "array"}
HasCtor(c) == \/ c \in Values \cup {"B", "array", "boxed", "closure"}
              \/ c = "A" /\ (~Has("abstract") \/ Has("ctor"))
HasDtor(c) == Has("dtor") /\ c \in {"A", "B"}

ShouldEmitVCH(c) == \/ IsVirtual(c) /\ c = "A"
                    \/ IsAbstract(c) /\ Has("call")

-----------------------------------------------------------------------------
(***************************************************************************)
(* What each section declares, defines and uses for the class it has come  *)
(* to.                                                                     *)
(***************************************************************************)
Nothing == {}
When(condition, set) == IF condition THEN set ELSE Nothing

\* emitStructHeader(klass, false)
StructName(c) == When(~SharesStruct(c), {<<"struct", c>>})
\* emitStructHeader(klass, true), emitInstanceFields
StructUses(c) == {<<"full", t>> : t \in FieldsByValue(c)}
                 \cup When(c = "A" /\ Has("static_V"), {<<"full", "V">>})
Struct(c) == When(~SharesStruct(c), {<<"full", c>>}) \cup When(HasStatics(c), {<<"static", c>>})

FunctionHeaders(c) ==
    When(HasCtor(c), {<<"fn", c, "create">>}) \cup When(HasDtor(c), {<<"fn", c, "dtor">>})
    \cup When(HasMethod(c) /\ MethodOwner(c) = c /\ ~IsAbstract(c), {<<"fn", c, "m">>})
    \cup When(HasMethod(c) /\ MethodOwner(c) = c /\ ShouldEmitVCH(c), {<<"vch", c, "m">>})
    \cup When(c = "array", {<<"fn", c, "set">>}) \cup When(c = "B", {<<"fn", c, "main">>})
    \cup When(c = "A" /\ Has("cctor"), {<<"fn", c, "cctor">>})
    \cup When(c = "A" /\ Has("cdtor"), {<<"fn", c, "cdtor">>})

VTable(c) == When(HasTable(c), {<<"vtbl", c>>})
VTableUses(c) == When(HasTable(c) /\ HasMethod(c), {<<"fn", MethodOwner(c), "m">>})

\* emitArrayInitHelper, emitIdentCompHelper, emitUnboxHelper: by map, not by class.
Helper(c) == When(c = "array", {<<"init", c>>}) \cup When(c = "boxed", {<<"unbox", "V">>})
             \cup When(c = "V" /\ Has("compare"), {<<"idco", c>>})
HelperUses(c) == When(c = "array", {<<"vtbl", c>>, <<"fn", c, "set">>})
                 \cup When(c = "boxed" \/ (c = "V" /\ Has("compare")), {<<"full", "V">>})

\* emitFunctionBodies. The constructor names the table of its class; a destructor
\* calls that of the base; main has the expressions of the program.
CtorBody(c) == HasCtor(c) /\ ~IsCtorExtern(c)
CallUses == IF IsVirtual("A") \/ IsAbstract("A") THEN {<<"vch", "A", "m">>}
            ELSE {<<"fn", "A", "m">>}
MainUses == When(Has("call"), CallUses)
            \cup When(Has("box"), {<<"fn", "boxed", "create">>, <<"unbox", "V">>})
            \cup When(Has("array"), {<<"vtbl", "array">>, <<"init", "array">>})
            \cup When(Has("closure"), {<<"fn", "closure", "create">>, <<"full", "env">>})
            \cup When(Has("compare"), {<<"idco", "V">>})
Bodies(c) == When(CtorBody(c), {<<"fn", c, "create">>}) \cup When(HasDtor(c), {<<"fn", c, "dtor">>})
             \cup When(HasMethod(c) /\ MethodOwner(c) = c /\ ~IsAbstract(c) /\ ~IsExtern(c),
                       {<<"fn", c, "m">>})
             \cup When(HasMethod(c) /\ ShouldEmitVCH(MethodOwner(c)), {<<"vch", MethodOwner(c), "m">>})
             \cup When(c = "B", {<<"fn", c, "main">>})
             \cup When(c = "A" /\ (Has("cctor") \/ HasStatics(c)), {<<"fn", c, "cctor">>})
             \cup When(c = "A" /\ Has("cdtor"), {<<"fn", c, "cdtor">>})
BodyUses(c) == When(CtorBody(c), {<<"full", c>>} \cup When(~IsValueType(c), {<<"vtbl", c>>}))
               \cup When(HasDtor(c) /\ c = "B", {<<"fn", "A", "dtor">>})
               \cup When(c = "B", MainUses) \cup When(HasStatics(c), {<<"static", c>>})

\* emitRemoteMethodServerStub, for the class that a proxy wraps.
Wrapped == [proxyA |-> "A", proxyB |-> "B"]
Stub(c) == When(c \in DOMAIN Wrapped, {<<"server", Wrapped[c], "m">>})

PrologUses(c) ==
    VTable(c) \cup When(c = "A" /\ (Has("cctor") \/ HasStatics(c)), {<<"fn", c, "cctor">>})
EpilogUses(c) == When(c = "A" /\ Has("cdtor"), {<<"fn", c, "cdtor">>})

-----------------------------------------------------------------------------
Init == /\ \E f \in SUBSET Features : Cardinality(f) <= MaxFeatures /\ features = f
        /\ \E s \in Sources : klasses = s \o Generated
        /\ section = 1 /\ pos = 1
        /\ declared = {} /\ defined = {} /\ early = {}

Writes(declares, defines, uses) ==
    /\ declared' = declared \cup declares \cup defines
    /\ defined' = defined \cup defines
    /\ early' = early \cup {<<klasses[pos], u>> : u \in uses \ (declared \cup defines)}

\* Mutant of Comes: classes and structs come in one go.
ComesTogether(value) == TRUE
\* Structs are written before the classes that have them by value.
Comes(value) == IsValueType(klasses[pos]) = value
WritesIf(value, declares, uses) ==
    IF Comes(value) THEN Writes(declares, {}, uses) ELSE Writes({}, {}, {})
Text(c, s) ==
    CASE s = "struct_names" -> WritesIf(TRUE, StructName(c), {})
      [] s = "structs" -> WritesIf(TRUE, Struct(c), StructUses(c))
      [] s = "class_names" -> WritesIf(FALSE, StructName(c), {})
      [] s = "classes" -> WritesIf(FALSE, Struct(c), StructUses(c))
      [] s = "functions" -> Writes(FunctionHeaders(c), {}, {})
      [] s = "tables" -> Writes({}, VTable(c), VTableUses(c))
      [] s = "helpers" -> Writes({}, Helper(c), HelperUses(c))
      [] s = "bodies" -> Writes({}, Bodies(c), BodyUses(c))
      [] s = "stubs" -> Writes({}, Stub(c), {})
      [] s = "prolog" -> Writes({}, {<<"prolog", "domain">>}, PrologUses(c))
      [] s = "epilog" -> Writes({}, {<<"epilog", "domain">>}, EpilogUses(c))

emit == /\ Sections[section] # "done"
        /\ Text(klasses[pos], Sections[section])
        /\ IF pos < Len(klasses) THEN pos' = pos + 1 /\ UNCHANGED section
           ELSE pos' = 1 /\ section' = section + 1
        /\ UNCHANGED program
Next == emit
Spec == Init /\ [][Next]_vars

-----------------------------------------------------------------------------
\* The run time links these itself: icalls, and thunks for boxes and closures.
Linked == {d \in declared : d[1] = "fn" /\ \/ d[3] \in {"m", "set"} /\ IsExtern(d[2])
                                           \/ d[3] = "create" /\ IsCtorExtern(d[2])}
\* By name it looks for the prolog and epilog, destructors (CClass::DtorImpl), methods
\* of closures (GetClosureThunk) and the stubs of methods that proxies call.
LookedFor == {<<"prolog", "domain">>, <<"epilog", "domain">>}
             \cup {<<"fn", c, "dtor">> : c \in {d \in S!ToSet(klasses) : HasDtor(d)}}
             \cup When(Has("closure"), {<<"fn", "closure", "m">>})
             \cup When(Has("proxyA"), {<<"server", "A", "m">>})
             \cup When(Has("proxyB") /\ Overrides, {<<"server", "B", "m">>})
\* Two kinds of programs that the emitter does not get right: a struct in a struct
\* that comes later in the source, and an abstract class with a constructor.
StructBeforeItsPart == <<"V", <<"full", "W">>>>
AbstractCtor == <<"A", <<"vtbl", "A">>>>

\* The text declares what it uses before it uses it, defines what it declares, and
\* has what the run time looks for by name, for all programs but those two kinds.
TextIsComplete ==
    /\ early \subseteq {StructBeforeItsPart} \cup When(IsAbstract("A"), {AbstractCtor})
    /\ Sections[section] = "done" =>
          /\ \A d \in declared : d[1] \in {"fn", "vch"} => d \in defined \cup Linked
          /\ LookedFor \subseteq defined

\* "Value-types are emitted first, to avoid bugs in the one-pass TCC when a reference
\* type references a valuetype whose body was never defined" (Emitter.cpp:2159): refuted
\* for a struct that has another.
StructsInOrder == StructBeforeItsPart \notin early
\* "Abstract methods can be defined only in abstract classes" and the other checks of the
\* parser let an abstract class have a constructor: refuted, it names a table there is none of.
AbstractCtorsCompile == AbstractCtor \notin early
\* "Cross-domain method implementation not found ('force T*' required?)" (Remoting.cpp:1393):
\* refuted for a class that inherits the method, whose declaring class has no proxy.
ForcedStubsAreFound == Sections[section] = "done" /\ Has("proxyB") =>
                           <<"server", MethodOwner("B"), "m">> \in defined
=============================================================================
