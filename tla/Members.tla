------------------------------- MODULE Members -------------------------------
(***************************************************************************)
(* What the compiler adds to the classes a program declares.               *)
(*                                                                         *)
(*   "class"    access methods of properties and events, and statements    *)
(*              that create the events at the start of every constructor   *)
(*   "enum"     a value per name, made by the static constructor           *)
(*   "event"    the event class: a list of handlers, and `fire'            *)
(*   "wrapper"  the members of a class with the ptrWrapper attribute       *)
(*                                                                         *)
(* Names are sequences of letters, since a setter's name is made of the    *)
(* property's. The fields of enums begin with a digit and clash with       *)
(* nothing: they have no names here. `declared', `begun' and `called'      *)
(* record what happens and decide nothing.                                 *)
(***************************************************************************)
EXTENDS Naturals, Sequences, FiniteSets

CONSTANTS Letters, MemberNames, ClassNames, ValueNames,
          MaxMembers,     \* bound: the declarations of a class
          MaxHandlers,    \* bound: calls of addHandler
          MaxFires,       \* bound: calls of fire that run at a time
          MaxPointers     \* bound: objects of a wrapper

VARIABLES kind, struct, phase,
          nameSet, methods,      \* m_nameSet; the members, in order
          eventFields, ctors, cctor,
          declared,              \* the properties of the text
          values, static,        \* the names of an enum; its static fields
          arrays, array, fires, ended,
          own, made, live, destroyed
classVars   == <<nameSet, methods, eventFields, ctors, cctor, declared>>
enumVars    == <<values, static>>
eventVars   == <<arrays, array, fires, ended>>
wrapperVars == <<own, made, live, destroyed>>
vars == <<kind, struct, phase, classVars, enumVars, eventVars, wrapperVars>>

Null == [int |-> 0, string |-> <<>>]
EnumMembers == {<<"m_intValue">>, <<"m_stringValue">>, <<"create">>, <<"toInt">>,
                <<"toString">>}
OwnMembers == {"createImpl", "create", "static create", "dtor"}

Init == /\ kind \in {"class", "enum", "event", "wrapper"}
        /\ struct \in (IF kind = "class" THEN BOOLEAN ELSE {FALSE})
        /\ phase = (IF kind \in {"class", "enum"} THEN "parse" ELSE "run")
        /\ nameSet = (IF kind = "enum" THEN EnumMembers ELSE {})
        /\ methods = <<>> /\ eventFields = <<>> /\ ctors = <<>> /\ declared = {}
        /\ cctor \in (IF kind = "class" THEN {<<>>, <<<<"body">>>>} ELSE {<<>>})
        /\ values = <<>> /\ static = <<>>
        /\ arrays = <<>> /\ array = 0 /\ fires = <<>> /\ ended = [begun |-> <<>>, called |-> <<>>]
        /\ own \in (IF kind = "wrapper" THEN {S \in SUBSET OwnMembers :
                        ~({"create", "static create"} \subseteq S)} ELSE {{}})
        /\ made = 0 /\ live = {} /\ destroyed = <<>>

Fail == phase' = "failed" /\ UNCHANGED <<classVars, values>>

-----------------------------------------------------------------------------
\* "setX" for x; for a boolean isX, too.
SetterName(name, isBool) ==
    LET offset == IF isBool /\ Len(name) > 2 /\ SubSeq(name, 1, 2) = <<"i", "s">> THEN 2 ELSE 0
        First  == name[offset + 1]
    IN <<"s", "e", "t", IF First \in DOMAIN Letters THEN Letters[First] ELSE First>>
       \o SubSeq(name, offset + 2, Len(name))
FieldName(name, isStatic) == <<IF isStatic THEN "g" ELSE "m", "_">> \o name

FieldKind(isStatic) == IF isStatic THEN "static field" ELSE "field"
Member(name, what, field) == [name |-> name, what |-> what, field |-> field]
NamesOf(ms, n) == {ms[j].name : j \in 1..n}

\* AddAccessMethodsForField, and the field.
AccessMethods(name, field, setter) ==
    <<Member(name, "get", field)>>
    \o (IF setter = <<>> THEN <<>> ELSE <<Member(setter, "set", field)>>)

\* VerifyUniqueMemberName of one member after the other.
Refused(ms) == \E i \in DOMAIN ms : ms[i].name \in nameSet \cup NamesOf(ms, i - 1)

Register(ms) == methods' = methods \o ms /\ nameSet' = nameSet \cup NamesOf(ms, Len(ms))

Parsing == /\ kind = "class" /\ phase = "parse"
           /\ UNCHANGED <<kind, struct, static, eventVars, wrapperVars>>
NotFull == Len(methods) < MaxMembers

parseProperty(name, isStatic, isBool) ==
    LET field  == FieldName(name, isStatic)
        setter == IF struct THEN <<>> ELSE SetterName(name, isBool)
        ms == AccessMethods(name, field, setter) \o <<Member(field, FieldKind(isStatic), field)>>
    IN /\ Parsing /\ NotFull
       /\ IF Refused(ms) THEN Fail
          ELSE /\ Register(ms)
               /\ declared' = declared \cup
                                {[name |-> name, field |-> field, setter |-> setter]}
               /\ UNCHANGED <<phase, eventFields, ctors, cctor, values>>

parseEvent(name, isStatic, isEventClass) ==
    LET field == FieldName(name, isStatic)
        ms == AccessMethods(name, field, <<>>) \o <<Member(field, FieldKind(isStatic), field)>>
        event == [field |-> field, isStatic |-> isStatic, isEventClass |-> isEventClass]
    IN /\ Parsing /\ NotFull
       /\ IF Refused(ms) THEN Fail
          ELSE /\ Register(ms) /\ eventFields' = Append(eventFields, event)
               /\ UNCHANGED <<phase, ctors, cctor, declared, values>>

\* Fields, methods, and constructors with the code <<"body">>, or none if native.
parseMember(name, what) ==
    LET ms == <<Member(name, what, name)>>
    IN /\ Parsing /\ NotFull
       /\ IF Refused(ms) THEN Fail
          ELSE /\ Register(ms)
               /\ ctors' = CASE what = "ctor" ->
                                 Append(ctors, [native |-> FALSE, code |-> <<<<"body">>>>])
                             [] what = "native" ->
                                 Append(ctors, [native |-> TRUE, code |-> <<>>])
                             [] OTHER -> ctors
               /\ UNCHANGED <<phase, eventFields, cctor, declared, values>>

\* The end of SParser::parseClass: a class with no constructor gets one.
EndClass ==
    /\ Parsing /\ phase' = "infer"
    /\ IF ctors # <<>> THEN UNCHANGED <<classVars, values>>
       ELSE /\ ctors' = <<[native |-> FALSE, code |-> <<>>]>>
            /\ Register(<<Member(<<"createDefault">>, "ctor", <<"createDefault">>)>>)
            /\ UNCHANGED <<eventFields, cctor, declared, values>>

FieldNames(kinds) ==
    {methods[i].name : i \in {j \in DOMAIN methods : methods[j].what \in kinds}}

inferFields ==
    /\ kind = "class" /\ phase = "infer"
    /\ IF \/ struct /\ FieldNames({"field"}) = {}
          \/ FieldNames({"field", "static field"}) \cap ClassNames # {}
       THEN Fail
       ELSE phase' = "events" /\ UNCHANGED <<classVars, values>>
    /\ UNCHANGED <<kind, struct, static, eventVars, wrapperVars>>

createEventCreationExpr(event) == <<"create", event.field>>
\* Each event in turn goes before what there is.
Inserted(events, code) ==
    [i \in DOMAIN events |-> createEventCreationExpr(events[Len(events) + 1 - i])] \o code

inferEventFields ==
    LET OfClass(e) == e.isStatic
        OfObject(e) == ~e.isStatic
    IN /\ kind = "class" /\ phase = "events"
       /\ IF \E i \in DOMAIN eventFields : ~eventFields[i].isEventClass THEN Fail
          ELSE /\ cctor' = Inserted(SelectSeq(eventFields, OfClass), cctor)
               /\ ctors' = [i \in DOMAIN ctors |-> [ctors[i] EXCEPT !.code =
                              Inserted(SelectSeq(eventFields, OfObject), @)]]
               /\ phase' = "made"
               /\ UNCHANGED <<nameSet, methods, eventFields, declared, values>>
       /\ UNCHANGED <<kind, struct, static, eventVars, wrapperVars>>

-----------------------------------------------------------------------------
OnlyEnum == UNCHANGED <<kind, struct, eventFields, ctors, declared, eventVars, wrapperVars>>

\* One name of an enum: a field, a getter, and a statement of the static constructor.
EnumValue(name) ==
    /\ kind = "enum" /\ phase = "parse" /\ Len(values) < MaxMembers
    /\ IF name \in nameSet THEN Fail
       ELSE /\ Register(<<Member(name, "get", Len(values))>>)
            /\ values' = Append(values, name)
            /\ cctor' = Append(cctor, [int |-> Len(values), string |-> name])
            /\ UNCHANGED phase
    /\ OnlyEnum /\ UNCHANGED static

\* `fromInt' is registered without a look at the names.
EndEnum ==
    /\ kind = "enum" /\ phase = "parse"
    /\ IF values = <<>> THEN Fail /\ UNCHANGED static
       ELSE /\ Register(<<Member(<<"fromInt">>, "fromInt", 0)>>)
            /\ static' = [i \in DOMAIN values |-> Null]
            /\ phase' = "run" /\ UNCHANGED <<values, cctor>>
    /\ OnlyEnum

\* The next statement of the static constructor.
EnumStatement ==
    LET at == Len(values) - Len(cctor) + 1
    IN /\ kind = "enum" /\ phase = "run" /\ cctor # <<>>
       /\ static' = [static EXCEPT ![at] = Head(cctor)] /\ cctor' = Tail(cctor)
       /\ OnlyEnum /\ UNCHANGED <<phase, nameSet, methods, values>>

\* What fromInt returns; nothing if it aborts.
emitEnumFromInt(int) == IF int \in 0..Len(values) - 1 THEN {static[int + 1]} ELSE {}

-----------------------------------------------------------------------------
OnlyEvent == UNCHANGED <<kind, struct, phase, classVars, enumVars, wrapperVars>>
Handlers == IF array = 0 THEN <<>> ELSE arrays[array]

\* A new array with one handler more; the old one stays as it is.
\* Mutant of Grown: the handler is put into the array there is.
GrownInPlace(handler) ==
    IF array = 0 THEN arrays' = Append(arrays, <<handler>>) /\ array' = Len(arrays) + 1
    ELSE arrays' = [arrays EXCEPT ![array] = Append(@, handler)] /\ UNCHANGED array
Grown(handler) ==
    /\ arrays' = Append(arrays, Append(Handlers, handler))
    /\ array' = Len(arrays) + 1

\* By the program, or by the handler that runs.
addHandler ==
    /\ kind = "event" /\ Len(Handlers) < MaxHandlers
    /\ Grown(Len(Handlers) + 1)
    /\ OnlyEvent /\ UNCHANGED <<fires, ended>>

fire ==
    /\ kind = "event" /\ array # 0 /\ Len(fires) < MaxFires
    /\ fires' = Append(fires, [cpy |-> array, begun |-> Handlers, called |-> <<>>])
    /\ OnlyEvent /\ UNCHANGED <<arrays, array, ended>>

LastFire == fires[Len(fires)]
Remaining == SubSeq(arrays[LastFire.cpy], Len(LastFire.called) + 1, Len(arrays[LastFire.cpy]))

\* The handler before it has returned.
invoke ==
    /\ kind = "event" /\ fires # <<>> /\ Remaining # <<>>
    /\ fires' = [fires EXCEPT ![Len(fires)].called = Append(@, Head(Remaining))]
    /\ OnlyEvent /\ UNCHANGED <<arrays, array, ended>>

FireReturns ==
    /\ kind = "event" /\ fires # <<>> /\ Remaining = <<>>
    /\ ended' = [begun |-> LastFire.begun, called |-> LastFire.called]
    /\ fires' = SubSeq(fires, 1, Len(fires) - 1)
    /\ OnlyEvent /\ UNCHANGED <<arrays, array>>

\* Out of handlers and fires, to a `try' between or below them.
HandlerAborts ==
    /\ kind = "event" /\ fires # <<>> /\ LastFire.called # <<>>
    /\ \E n \in 0..Len(fires) - 1 : fires' = SubSeq(fires, 1, n)
    /\ OnlyEvent /\ UNCHANGED <<arrays, array, ended>>

-----------------------------------------------------------------------------
\* AddPtrWrapperMembers, for a class with the members `own': the constructor of
\* the program may call createImpl or not, that of the compiler does.
OnlyWrapper == UNCHANGED <<kind, struct, phase, classVars, enumVars, eventVars, own>>
ConstructorIsMade == {"create", "static create"} \cap own = {}

Pointer(new) == IF ConstructorIsMade THEN {new}
                ELSE IF "create" \in own THEN {0, new}
                ELSE {0}                               \* createDefault

Construct ==
    /\ kind = "wrapper" /\ made < MaxPointers /\ made' = made + 1
    /\ \E p \in Pointer(made + 1) : live' = live \cup {<<made + 1, p>>}
    /\ OnlyWrapper /\ UNCHANGED destroyed

\* A destructor of the program's sees to the pointer itself.
Collect(object) ==
    /\ kind = "wrapper" /\ object \in live
    /\ live' = live \ {object}
    /\ IF "dtor" \in own THEN UNCHANGED destroyed
       ELSE destroyed' = Append(destroyed, object[2])
    /\ OnlyWrapper /\ UNCHANGED made

-----------------------------------------------------------------------------
ClassNext ==
    \/ \E name \in MemberNames, s \in BOOLEAN, b \in BOOLEAN :
          parseProperty(name, s, b) \/ parseEvent(name, s, b)
    \/ \E name \in MemberNames, what \in {"field", "static field", "method", "ctor", "native"} :
          parseMember(name, what)
    \/ EndClass \/ inferFields \/ inferEventFields
EnumNext == (\E name \in ValueNames : EnumValue(name)) \/ EndEnum \/ EnumStatement
EventNext == addHandler \/ fire \/ invoke \/ FireReturns \/ HandlerAborts
WrapperNext == Construct \/ (\E object \in live : Collect(object))
Next == ClassNext \/ EnumNext \/ EventNext \/ WrapperNext

-----------------------------------------------------------------------------
\* What the name leads to: the last member registered under it.
Found(name) == LET I == {i \in DOMAIN methods : methods[i].name = name}
               IN methods[CHOOSE i \in I : \A j \in I : j <= i]

\* The getter and the setter of a property are found by their names, and they are of
\* its field (CClass::AddAccessMethodsForField, VerifyUniqueMemberName).
AccessorsAreFound ==
    kind = "class" /\ phase # "failed" => \A p \in declared :
        /\ Found(p.name).what = "get" /\ Found(p.name).field = p.field
        /\ p.setter # <<>> => /\ Found(p.setter).what = "set"
                              /\ Found(p.setter).field = p.field

\* Before the code of a constructor, its events are there; those of the class are made
\* by the static constructor (STransformer::inferEventFields).
CreatesFirst(code, events) ==
    \A e \in events : \E i \in DOMAIN code :
        code[i] = createEventCreationExpr(e) /\ <<"body">> \notin {code[j] : j \in 1..i}
EventsOf(isStatic) ==
    {eventFields[i] : i \in {j \in DOMAIN eventFields : eventFields[j].isStatic = isStatic}}
EventsExist ==
    kind = "class" /\ phase = "made" =>
        /\ CreatesFirst(cctor, EventsOf(TRUE))
        /\ \A i \in DOMAIN ctors : ~ctors[i].native => CreatesFirst(ctors[i].code, EventsOf(FALSE))

\* After the static constructor, an enum's names and numbers lead to the same objects
\* (SParser::parseEnum, SEmitter::emitEnumFromInt).
ValuesAreNamed ==
    kind = "enum" /\ phase = "run" /\ cctor = <<>> =>
        \A i \in DOMAIN values :
            /\ static[i].string = values[i]
            /\ emitEnumFromInt(static[i].int) = {static[i]}
            /\ values[i] # <<"fromInt">> => Found(values[i]).field = i - 1

\* `fire' calls the handlers there were when it began, each once and in their order,
\* whatever they do in the meantime; and no handler is lost
\* (SEmitter::emitEventFire, _soX_addhandler).
FiresReachHandlers ==
    kind = "event" =>
        /\ ended.called = ended.begun
        /\ \A i \in DOMAIN fires : LET f == fires[i] IN
               /\ Len(f.called) <= Len(f.begun)
               /\ f.called = SubSeq(f.begun, 1, Len(f.called))
        /\ Handlers = [i \in DOMAIN Handlers |-> i]

\* A pointer of createImpl's is destroyed at most once, and with the constructor of
\* the compiler nothing else is (CClass::AddPtrWrapperMembers).
PointersEndOnce ==
    kind = "wrapper" =>
        /\ \A i, j \in DOMAIN destroyed : destroyed[i] = destroyed[j] => i = j \/ destroyed[i] = 0
        /\ ConstructorIsMade => \A i \in DOMAIN destroyed : destroyed[i] # 0

GeneratedMembersWork == /\ AccessorsAreFound /\ EventsExist /\ ValuesAreNamed
                        /\ FiresReachHandlers /\ PointersEndOnce

\* Refuted: a native constructor gets the statements and is not emitted
\* (SEmitter::emitInstanceCtor, Emitter.cpp:1876).
NativeCtorsCreateEvents ==
    kind = "class" /\ phase = "made" =>
        \A i \in DOMAIN ctors : CreatesFirst(IF ctors[i].native THEN <<>> ELSE ctors[i].code,
                                             EventsOf(FALSE))
\* Refuted: a value may be called fromInt (Parser.cpp:1673).
NamesAreOne == kind = "enum" => \A i, j \in DOMAIN methods :
                   methods[i].name = methods[j].name => i = j
\* Refuted: static constructors that run before that of the enum find no values.
ValuesExist == kind = "enum" /\ phase = "run" => \A i \in DOMAIN static : static[i] # Null
\* Refuted: a constructor of the program that does not call createImpl
\* (Class.cpp:1175).
NothingElseDestroyed == \A i \in DOMAIN destroyed : destroyed[i] # 0
=============================================================================
