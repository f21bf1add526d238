------------------------------ MODULE MCCompiler ------------------------------
(***************************************************************************)
(* What the compiler makes of a program: each behaviour exercises one      *)
(* part. Variables that parts have in common are of the part that is       *)
(* exercised; the others keep the value Off.                               *)
(*                                                                         *)
(*   "declarations"  all modules of up to six words: modifiers and         *)
(*                   declarations of two types and a member                *)
(*   "types"       the classes of type references, with one alias          *)
(*   "interfaces"  all programs of two classes and an interface            *)
(*   "hierarchy"   all hierarchies of three classes, with three methods    *)
(*   "closures"    all nestings of three closures                          *)
(*   "typing"      one value in all programs of two classes and a struct  *)
(*   "layout"      all layouts of two classes, a struct and a proxy        *)
(***************************************************************************)
EXTENDS Naturals, Sequences

CONSTANTS TypeNames, MemberNames, MaxWords,                              \* of Declarations
          HeapClasses, Values, Others, Aliases, MaxLevel, MaxGenerated,  \* of Types
          Implementers, Interface,                                       \* of Interfaces
          HierClasses, Proxy, NoClass, HierNames, Shapes, MaxMethods,    \* of Hierarchy
          Closures,                                                      \* of Closures
          MaxConversions,                                                \* of Typing
          HomeClasses, HomeBase, HomeModule, MaxNesting,                     \* of Access
          Classes, Structs, Proxies, Prim, Library, NoBase, MaxFields, \* of ClassLayout
          X, UpperClass, LowerClass, None, Off

OneAlias == <<X>>
\* B is below A, in another module; C is by itself, in the module of A.
Bases   == [c \in HomeClasses |-> IF c = LowerClass THEN UpperClass ELSE None]
Sources == [c \in HomeClasses |-> IF c = LowerClass THEN 2 ELSE 1]

VARIABLES which, phase, base, queue, resolved,
          flags, attrs, access, klass, declared, extensions, words, result,
          written, writtenAccess, astray,                         \* of Declarations
          target, wrapped, klasses, maps, niceNames, answer,      \* of Types
          type, private, body, cache, converted, called,          \* of Interfaces
          own, shape, dtors, abstract, order, pos, checked, methods, finalized,
          index, baseMethod, virtual, dtor,                       \* of Hierarchy
          parent, use, rootKind, cur, rest, env, envFields,
          selfCaptured, captured,                                 \* of Closures
          has, staticType, value, outcome, left,                  \* of Typing
          nameSet, pending, merged, curMethod, callee, verdict,   \* of Access
          fields, todo, sized, stack, gcMap, contentSize          \* of ClassLayout

common == <<which, phase, base, queue, resolved>>
declVars   == <<flags, attrs, access, klass, declared, extensions, words, result,
                written, writtenAccess, astray>>
typesVars  == <<target, wrapped, klasses, maps, niceNames, answer>>
intfVars   == <<type, private, body, cache, converted, called>>
hierVars   == <<own, shape, dtors, abstract, order, pos, checked, methods, finalized,
                index, baseMethod, virtual, dtor>>
closVars   == <<parent, use, rootKind, cur, rest, env, envFields, selfCaptured, captured>>
typingVars == <<has, staticType, value, outcome, left>>
accessVars == <<nameSet, pending, merged, curMethod, callee, verdict>>
layoutVars == <<fields, todo, sized, stack, gcMap, contentSize>>
madeVars == <<typesVars, intfVars, hierVars, closVars, typingVars, accessVars, layoutVars>>
allVars == <<common, declVars, madeVars>>

Decls == INSTANCE Declarations WITH types <- declared
T == INSTANCE Types
F == INSTANCE Interfaces
H == INSTANCE Hierarchy WITH Class <- HierClasses, Name <- HierNames
K == INSTANCE Closures
Y == INSTANCE Typing WITH type <- staticType
A == INSTANCE Access WITH extensions <- pending
L == INSTANCE ClassLayout
ASSUME ClosuresAreCounted == K!ClosuresAssumption
ASSUME ImplementersAreFinite == F!InterfacesAssumption
ASSUME HierarchiesAreFinite == H!HierarchyAssumption
ASSUME TypesHaveNames == T!TypesAssumption
ASSUME HomesAreClasses == A!AccessAssumption

NoCommon == phase = Off /\ base = Off /\ queue = Off /\ resolved = Off
NoDeclarations == /\ flags = Off /\ attrs = Off /\ access = Off /\ klass = Off /\ declared = Off
                  /\ extensions = Off /\ words = Off /\ result = Off /\ written = Off
                  /\ writtenAccess = Off /\ astray = Off
NoTypes == /\ target = Off /\ wrapped = Off /\ klasses = Off /\ maps = Off
           /\ niceNames = Off /\ answer = Off
NoInterfaces == /\ type = Off /\ private = Off /\ body = Off /\ cache = Off
                /\ converted = Off /\ called = Off
NoHierarchy == /\ own = Off /\ shape = Off /\ dtors = Off /\ abstract = Off /\ order = Off
               /\ pos = Off /\ checked = Off /\ methods = Off /\ finalized = Off
               /\ index = Off /\ baseMethod = Off /\ virtual = Off /\ dtor = Off
NoClosures == /\ parent = Off /\ use = Off /\ rootKind = Off /\ cur = Off /\ rest = Off
              /\ env = Off /\ envFields = Off /\ selfCaptured = Off /\ captured = Off
NoTyping == has = Off /\ staticType = Off /\ value = Off /\ outcome = Off /\ left = Off
NoAccess == /\ nameSet = Off /\ pending = Off /\ merged = Off /\ curMethod = Off
            /\ callee = Off /\ verdict = Off
NoLayout == /\ fields = Off /\ todo = Off /\ sized = Off /\ stack = Off /\ gcMap = Off
            /\ contentSize = Off

NothingMade == /\ NoTypes /\ NoInterfaces /\ NoHierarchy /\ NoClosures
               /\ NoTyping /\ NoAccess /\ NoLayout

MCInit ==
    \/ /\ which = "declarations" /\ Decls!Init
       /\ NoCommon /\ NothingMade
    \/ /\ which = "types" /\ T!Init /\ base = Off /\ queue = Off /\ resolved = Off
       /\ NoDeclarations /\ NoInterfaces /\ NoHierarchy /\ NoClosures
       /\ NoTyping /\ NoAccess /\ NoLayout
    \/ /\ which = "interfaces" /\ F!Init
       /\ NoDeclarations /\ NoTypes /\ NoHierarchy /\ NoClosures /\ NoTyping /\ NoAccess /\ NoLayout
    \/ /\ which = "hierarchy" /\ H!Init /\ queue = Off /\ resolved = Off
       /\ NoDeclarations /\ NoTypes /\ NoInterfaces /\ NoClosures /\ NoTyping /\ NoAccess /\ NoLayout
    \/ /\ which = "closures" /\ K!Init /\ base = Off
       /\ NoDeclarations /\ NoTypes /\ NoInterfaces /\ NoHierarchy /\ NoTyping /\ NoAccess /\ NoLayout
    \/ /\ which = "layout" /\ L!Init /\ phase = Off /\ queue = Off /\ resolved = Off
       /\ NoDeclarations /\ NoTypes /\ NoInterfaces /\ NoHierarchy
       /\ NoClosures /\ NoTyping /\ NoAccess
    \/ /\ which = "typing" /\ Y!Init /\ NoCommon
       /\ NoDeclarations /\ NoTypes /\ NoInterfaces /\ NoHierarchy
       /\ NoClosures /\ NoAccess /\ NoLayout
    \/ /\ which = "access" /\ A!Init /\ NoCommon
       /\ NoDeclarations /\ NoTypes /\ NoInterfaces /\ NoHierarchy
       /\ NoClosures /\ NoTyping /\ NoLayout

MCNext ==
    /\ \/ /\ which = "declarations" /\ Decls!Next
          /\ UNCHANGED <<phase, base, queue, resolved, madeVars>>
       \/ /\ which = "types" /\ T!Next
          /\ UNCHANGED <<declVars, base, queue, resolved, intfVars, hierVars, closVars,
                         typingVars, accessVars, layoutVars>>
       \/ /\ which = "interfaces" /\ F!Next
          /\ UNCHANGED <<declVars, typesVars, hierVars, closVars, typingVars, accessVars,
                         layoutVars>>
       \/ /\ which = "hierarchy" /\ H!Next
          /\ UNCHANGED <<declVars, queue, resolved, typesVars, intfVars, closVars, typingVars,
                         accessVars, layoutVars>>
       \/ /\ which = "closures" /\ K!Next
          /\ UNCHANGED <<declVars, base, typesVars, intfVars, hierVars, typingVars, accessVars,
                         layoutVars>>
       \/ /\ which = "layout" /\ L!Next
          /\ UNCHANGED <<declVars, phase, queue, resolved, typesVars, intfVars, hierVars,
                         closVars, typingVars, accessVars>>
       \/ /\ which = "typing" /\ Y!Next
          /\ UNCHANGED <<declVars, phase, base, queue, resolved, typesVars, intfVars, hierVars,
                         closVars, accessVars, layoutVars>>
       \/ /\ which = "access" /\ A!Next
          /\ UNCHANGED <<declVars, phase, base, queue, resolved, typesVars, intfVars, hierVars,
                         closVars, typingVars, layoutVars>>
    /\ UNCHANGED which

MCSpec == MCInit /\ [][MCNext]_allVars

-----------------------------------------------------------------------------
\* A type or a member has the modifiers that are written before it and no others;
\* when extensions are merged, a name is one member of a class, and a class that
\* can have objects has a constructor (SkizoParse, STransformer::mergeExtensions).
DeclaredAsWritten == which = "declarations" => Decls!DeclaredAsWritten /\ Decls!MembersAreOne

\* A type reference is resolved to the class of the type it means, no two classes
\* are one type, and the name of a class finds it (CDomain::ResolveTypeRef,
\* ClassByNiceName).
TypesHaveOneClass == which = "types" => T!ClassIsTheType /\ T!NiceNamesFind

\* An interface call finds its method in what was let through as a value of the
\* interface (CClass::DoesImplementInterface, _soX_findmethod).
CallsDispatch == which = "interfaces" => F!CallsDispatch

\* The search for cycles of bases ends and lets only programs without one pass; a call
\* reaches the method that is nearest to the class of the object; the destruction of an
\* object runs every destructor of its class, from the root down
\* (CClass::MakeSureMethodsFinalized, SEmitter::emitCallExpr, STransformer::inferHierarchies).
HierarchiesAreSound == which = "hierarchy" => /\ H!CyclesAreReported /\ H!TablesLineUp
                                              /\ H!CallsReachTheNearest /\ H!AllDestructorsRun

\* What a closure uses of the methods around it is at the end of the path that the
\* emitter writes for it (STransformer::inferIdentExpr, SEmitter::appendCapturePath),
\* and the fields of all environments have their types when the collector gets them.
NamesAreReachable == which = "closures" => K!NamesAreReachable /\ K!EnvironmentsResolved

\* An expression's value is of its static type, whatever conversions it has gone
\* through, and a cast succeeds just if `is' says so (CClass::GetCastInfo,
\* _soX_downcast, _soX_unbox).
ConversionsAreSound == which = "typing" => Y!ConversionsAreSound

\* A call finds a member that its text may use: hidden members stay inside their class,
\* the classes below and their own extension, and a closure loses nothing of what the
\* method around it may use (CMethod::IsAccessibleFromMethod, IsEnclosedByClass,
\* STransformer::inferCallExpr).
CallsMayBeMade == which = "access" => A!HiddenStaysInside /\ A!ClosuresLoseNothing

\* The layout of every class is computed, once, however types refer to each other;
\* the collector's map of it and the C struct of the emitter agree where types do
\* not lead back to themselves (CClass::CalcGCMap).
LayoutsAreSound == which = "layout" => L!AllSized /\ L!SoundLayoutsAgree
=============================================================================
