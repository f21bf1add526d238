---------------------------- MODULE Declarations ----------------------------
(***************************************************************************)
(* SParser above the level of method bodies: types and members with their  *)
(* modifiers, which are fields of the parser from where they are written   *)
(* to the declaration that takes them; then STransformer::mergeExtensions. *)
(*                                                                         *)
(* A declaration is one step: its signature and body touch no modifier.    *)
(* `written' and `writtenAccess' record what stands in the source, and     *)
(* decide nothing.                                                         *)
(***************************************************************************)
EXTENDS Naturals, Sequences, FiniteSets, SequencesExt

CONSTANTS TypeNames, MemberNames,
          MaxWords     \* bound: modifiers and declarations of a module

Flags == {"static", "unsafe", "abstract", "native"}    \* isStatic ... isNative
ClassKinds == {"class", "struct", "interface", "extend"}
NoKlass == [kind |-> "none"]
DefaultCtor == "createDefault"

VARIABLES flags, attrs, access,     \* of the parser
          klass,                    \* the class whose body is parsed
          types,                    \* RegisterClass
          extensions,               \* AddExtension
          words, result,            \* "open", "merge", "done" or "failed"
          written, writtenAccess,
          astray                    \* modifiers stood before what takes none
vars == <<flags, attrs, access, klass, types, extensions, words, result,
          written, writtenAccess, astray>>
modifiers == <<flags, attrs, access, written, writtenAccess>>

Init == /\ flags = {} /\ attrs = {} /\ access = "public"
        /\ klass = NoKlass /\ types = {} /\ extensions = <<>>
        /\ words = 0 /\ result = "open"
        /\ written = {} /\ writtenAccess = "public" /\ astray = FALSE

TopLevel == klass = NoKlass
Reading  == result = "open" /\ words < MaxWords /\ words' = words + 1
Fail == /\ result' = "failed"
        /\ UNCHANGED <<modifiers, klass, types, extensions, astray>>

Modifier(w) ==
    /\ Reading
    /\ TopLevel => w \in {"static", "abstract"}
    /\ flags' = flags \cup {w} /\ written' = written \cup {w}
    /\ UNCHANGED <<attrs, access, klass, types, extensions, result, writtenAccess, astray>>

parseAttribute(a) ==
    /\ Reading
    /\ IF a \in attrs THEN Fail
       ELSE /\ attrs' = attrs \cup {a} /\ written' = written \cup {a}
            /\ UNCHANGED <<flags, access, klass, types, extensions, result, writtenAccess, astray>>

Access(w) ==
    /\ Reading /\ ~TopLevel
    /\ access' = w /\ writtenAccess' = w
    /\ UNCHANGED <<flags, attrs, klass, types, extensions, result, written, astray>>

-----------------------------------------------------------------------------
RegisterClass(c) ==
    IF \E t \in types : t.name = c.name THEN Fail
    ELSE /\ types' = types \cup {c} /\ UNCHANGED <<extensions, result>>

\* The start of a class, struct, interface or extension. `bad' are the checks.
ClassFlags(kind) == IF kind = "extend" THEN {} ELSE flags \cap {"static", "abstract"}
BadClass(kind) == \/ "unsafe" \in flags
                  \/ {"static", "abstract"} \subseteq ClassFlags(kind)
                  \/ kind = "struct" /\ ClassFlags(kind) # {}
                  \/ kind = "interface" /\ "static" \in flags

\* Mutant of AccessAtStart: the access modifier of the class before is kept.
AccessKept == access
AccessAtStart == "public"

BeginClass(kind, name) ==
    /\ Reading /\ TopLevel
    /\ IF BadClass(kind) THEN Fail
       ELSE /\ klass' = [kind |-> kind, name |-> name, members |-> {},
                         has |-> ClassFlags(kind) \cup attrs
                                 \cup (IF kind = "interface" THEN {"abstract"} ELSE {}),
                         written |-> written]
            /\ flags' = flags \ {"static", "abstract"} /\ attrs' = {}
            /\ access' = AccessAtStart
            /\ written' = {} /\ writtenAccess' = "public"
            /\ UNCHANGED <<types, extensions, result, astray>>

IsClass(f) == f \in klass.has
Names(members) == {m.name : m \in members} \ {""}

\* VerifyUniqueMemberName and AddToNameSet for a member that is complete.
Declare(m) ==
    IF m.name \in Names(klass.members) THEN Fail
    ELSE /\ klass' = [klass EXCEPT !.members = @ \cup {m}]
         /\ written' = {}
         /\ UNCHANGED <<access, writtenAccess, types, extensions, result, astray>>

parseFieldPropertyOrEvent(kind, name) ==
    /\ Reading /\ ~TopLevel
    /\ IF \/ klass.kind \in {"interface", "extend"}
          \/ flags \ {"static"} # {}
          \/ IsClass("static") /\ "static" \notin flags
       THEN Fail
       ELSE /\ Declare([name |-> name, what |-> kind, has |-> flags \cup attrs,
                        access |-> IF kind = "field" THEN "private" ELSE access,
                        written |-> written, writtenAccess |-> writtenAccess])
            /\ IF result' = "failed" THEN TRUE ELSE flags' = {} /\ attrs' = {}

parseConst(name) ==
    /\ Reading /\ ~TopLevel
    /\ IF flags # {} \/ attrs # {} THEN Fail
       ELSE /\ Declare([name |-> name, what |-> "const", has |-> {}, access |-> access,
                        written |-> written, writtenAccess |-> writtenAccess])
            /\ IF result' = "failed" THEN TRUE ELSE UNCHANGED <<flags, attrs>>

Has(what, f) == \E m \in klass.members : m.what = what /\ ("static" \in m.has <=> f)
\* The methods the checks of parseMethod refuse.
BadMethod(what) ==
    LET static == "static" \in flags
        abstract == "abstract" \in flags \/ klass.kind = "interface"
    IN \/ klass.kind = "interface" /\ (access # "public" \/ what # "method" \/ static)
       \/ what = "dtor" /\ (klass.kind = "struct" \/ Has("dtor", static))
       \/ what = "ctor" /\ static /\ Has("ctor", TRUE)
       \/ what # "method" /\ (klass.kind = "extend" \/ abstract)
       \/ "native" \in flags /\ (abstract \/ ~static)
       \/ abstract /\ (~IsClass("abstract") \/ static)
       \/ IsClass("static") /\ ~static

\* Mutant of FlagsLeft: unsafe stays set.
UnsafeLeft == flags \cap {"unsafe"}
FlagsLeft == {}

\* Destructors and static constructors have no name.
parseMethod(what, name) ==
    /\ Reading /\ ~TopLevel
    /\ (name = "") = (what = "dtor" \/ (what = "ctor" /\ "static" \in flags))
    /\ IF BadMethod(what) THEN Fail
       ELSE /\ Declare([name |-> name, what |-> what, access |-> access,
                        has |-> flags \cup attrs
                                \cup (IF klass.kind = "interface" THEN {"abstract"} ELSE {}),
                        written |-> written, writtenAccess |-> writtenAccess])
            /\ IF result' = "failed" THEN TRUE ELSE flags' = FlagsLeft /\ attrs' = {}

\* A class without constructors gets one that sets all fields to zero.
WithDefaultCtor ==
    IF klass.has \cap {"static", "abstract"} = {} /\ ~Has("ctor", FALSE)
    THEN klass.members \cup {[name |-> DefaultCtor, what |-> "ctor", access |-> "public",
                              has |-> {}, written |-> {}, writtenAccess |-> "public"]}
    ELSE klass.members

EndClass ==
    /\ Reading /\ ~TopLevel
    /\ IF flags \ {"native"} # {} \/ attrs # {} THEN Fail
       ELSE /\ IF klass.kind = "extend"
               THEN extensions' = Append(extensions, klass) /\ UNCHANGED <<types, result>>
               ELSE RegisterClass([klass EXCEPT !.members = WithDefaultCtor])
            /\ IF result' = "failed" THEN TRUE
               ELSE /\ klass' = NoKlass /\ written' = {} /\ astray' = (astray \/ flags # {})
                    /\ UNCHANGED <<flags, attrs, access, writtenAccess>>

\* Declarations without members of their own here. What a kind refuses:
Refuses(kind) ==
    \/ kind \in {"enum", "alias"} /\ flags \cap {"static", "abstract"} # {}
    \/ kind = "alias" /\ attrs # {}
Takes(kind) == IF kind \in {"methodClass", "eventClass"} THEN attrs ELSE {}
parseOther(kind, name) ==
    /\ Reading /\ TopLevel
    /\ IF Refuses(kind) THEN Fail
       ELSE /\ IF kind = "import" THEN UNCHANGED <<types, extensions, result>>
               ELSE RegisterClass([kind |-> kind, name |-> name, members |-> {},
                                   has |-> Takes(kind) \cup
                                           (IF kind = "methodClass" THEN {"abstract"} ELSE {}),
                                   written |-> written])
            /\ IF result' = "failed" THEN TRUE
               ELSE /\ attrs' = attrs \ Takes(kind) /\ written' = {}
                    /\ astray' = (astray \/ flags \cup (attrs \ Takes(kind)) # {})
                    /\ UNCHANGED <<flags, access, writtenAccess, klass>>

EndOfModule ==
    /\ result = "open" /\ TopLevel
    /\ result' = "merge"
    /\ UNCHANGED <<modifiers, klass, types, extensions, words, astray>>

\* mergeExtensions, one round of its loop.
Patched(c, e) == [c EXCEPT !.members = @ \cup e.members]
BadMerge(c, e) == \/ c.kind \in {"interface", "eventClass"} \/ "abstract" \in c.has
                  \/ /\ "static" \in c.has
                      /\ \E m \in e.members : m.what = "method" /\ "static" \notin m.has
                  \/ Names(c.members) \cap Names(e.members) # {}
MergeExtension ==
    /\ result = "merge" /\ extensions # <<>>
    /\ LET e == Head(extensions) IN
       IF \A c \in types : c.name = e.name => BadMerge(c, e)
       THEN Fail
       ELSE /\ \E c \in types : c.name = e.name /\ types' = (types \ {c}) \cup {Patched(c, e)}
            /\ extensions' = Tail(extensions) /\ UNCHANGED <<modifiers, klass, astray, result>>
    /\ UNCHANGED words
Merged ==
    /\ result = "merge" /\ extensions = <<>> /\ result' = "done"
    /\ UNCHANGED <<modifiers, klass, types, extensions, words, astray>>

Next == \/ \E w \in Flags : Modifier(w)
        \/ parseAttribute("attribute")
        \/ \E w \in {"protected", "public"} : Access(w)   \* the others are like "protected"
        \/ \E k \in ClassKinds, n \in TypeNames : BeginClass(k, n)
        \/ \E k \in {"field", "property"}, n \in MemberNames : parseFieldPropertyOrEvent(k, n)
        \/ \E n \in MemberNames : parseConst(n)
        \/ \E k \in {"method", "ctor", "dtor"}, n \in MemberNames \cup {""} : parseMethod(k, n)
        \/ EndClass
        \/ \E k \in {"enum", "methodClass", "eventClass", "alias", "import"},
              n \in TypeNames : parseOther(k, n)
        \/ EndOfModule \/ MergeExtension \/ Merged
Spec == Init /\ [][Next]_vars

-----------------------------------------------------------------------------
\* A declaration has what is written between it and the one before. An extension
\* has no modifiers of its own, and members of interfaces are abstract.
AsWritten(d) ==
    d.has = IF "abstract" \in d.has THEN d.written \cup {"abstract"} ELSE d.written
MembersAsWritten(c) ==
    \A m \in c.members :
        /\ AsWritten(m)
        /\ m.access = IF m.what = "field" THEN "private" ELSE m.writtenAccess
TypesAsWritten == \A c \in types \cup ({klass} \ {NoKlass}) :
                      /\ MembersAsWritten(c)
                      /\ c.kind # "extend" => AsWritten(c)

\* "remembered for the next member only" (Parser.cpp:97): no modifier gets to a
\* declaration it does not stand before.
ModifiersStayTogether == TypesAsWritten

\* What holds: so it is if no modifier stands before an import, a type that takes
\* none or the end of a class; and an access modifier ends with its class.
DeclaredAsWritten == ~astray => TypesAsWritten

\* When extensions are merged, the names of a class are one member each, and a
\* class that is neither abstract nor static has a constructor. (A method with
\* the name of the default constructor is not noticed.)
MembersAreOne ==
    result = "done" => \A c \in types :
        /\ \A m, n \in c.members : m # n /\ m.name = n.name => m.name \in {"", DefaultCtor}
        /\ Cardinality({m \in c.members : m.what = "dtor"}) <= 2
        /\ c.kind \in {"class", "struct"} /\ c.has \cap {"abstract", "static"} = {} =>
              \E m \in c.members : m.what = "ctor" /\ "static" \notin m.has
=============================================================================
