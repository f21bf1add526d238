------------------------------ MODULE Packing ------------------------------
(***************************************************************************)
(* A call of a method of a foreign object: the stub of the caller packs the *)
(* arguments into the fixed buffer of a message (SerializeForRemoting), the *)
(* domain that owns the object unpacks them (DeserializeForRemoting), calls *)
(* the method, and packs its result into the same buffer, from which the    *)
(* caller takes it.                                                         *)
(*                                                                          *)
(* A cell of the buffer is a word: an int, the length or a part of a name,  *)
(* or a pointer to the clone of a string's characters, which the reader     *)
(* deletes. Zero is a null pointer as well as an empty name.                *)
(***************************************************************************)
EXTENDS Naturals, Sequences, FiniteSets
Seqs == INSTANCE SequencesExt

CONSTANTS MessageSize, NameSize,  \* SKIZO_DOMAINMESSAGE_SIZE in words, SKIZO_OBJECTNAME_SIZE
          MaxParams,              \* bound: parameters of a method
          NameLength              \* words of each name: classes and exported objects

VARIABLES call,      \* the method and its arguments
          known,     \* what code the domains have beyond that of all classes
          exported,  \* the objects that the target exports, by name
          client,    \* "flattening", "packing", "waiting", "done", "aborted"
          server,    \* "idle", "sent", "unpacking", "returning", "answered", "broken"
          buffer, length, problem,   \* CDomainMessage
          packed, received, read,    \* arguments packed and unpacked, newLength of _soX_unpack
          clones,    \* the clones of strings: not made, alive, deleted, deleted again
          result     \* _soX_blockingRet
\* The names that are sent, none of them empty.
PackingAssumption ==
    /\ MessageSize \in Nat /\ NameSize \in Nat \ {0} /\ MaxParams \in Nat
    /\ {"int", "string", "Point", "Pair", "Thing", "array", "Foreign", "door"} \subseteq DOMAIN NameLength
    /\ \A name \in DOMAIN NameLength : NameLength[name] \in Nat \ {0}

vars == <<call, known, exported, client, server, buffer, length, problem, packed,
          received, read, clones, result>>

-----------------------------------------------------------------------------
(***************************************************************************)
(* Types and values. A text with a NUL inside loses what follows it.       *)
(***************************************************************************)
Null == [is |-> "null"]
Int == [is |-> "int"]
Point == [is |-> "Point", fields |-> <<Int, Int>>]
Text(t) == [is |-> "string", of |-> t]
Proxy(home, name) == [is |-> "Foreign", home |-> home, name |-> name]
Thing == [is |-> "Thing"]
Exported(name) == [is |-> "Thing", name |-> name]
Array == [is |-> "array"]
Boxed(v) == [is |-> "boxed", of |-> v]
Pair(s, f) == [is |-> "Pair", fields |-> <<s, f>>]
Misread == [is |-> "misread"]

\* "Foreign" is Thing*, the type of proxies of a Thing.
FieldTypes == [Point |-> <<"int", "int">>, Pair |-> <<"string", "Foreign">>]
Structs == DOMAIN FieldTypes
HasReferences(struct) == \E i \in DOMAIN FieldTypes[struct] : FieldTypes[struct][i] # "int"
Truncated(t) == IF t = "cut_short" THEN "cut" ELSE t

Strings == {Null, Text("whole"), Text("cut_short")}
Proxies == {Null, Proxy("target", "door"), Proxy("elsewhere", "door")}
Pairs == {Pair(Text("whole"), f) : f \in Proxies}
OfType == [int |-> {Int}, intptr |-> {Int}, string |-> Strings, Point |-> {Point},
           Thing |-> {Null, Thing}, array |-> {Array}, Pair |-> Pairs,
           any |-> {Null, Text("whole"), Proxy("target", "door"), Thing, Array,
                    Boxed(Point), Boxed(Pair(Null, Null))},
           Foreign |-> Proxies]
Typed == UNION {{[type |-> t, value |-> v] : v \in OfType[t]} : t \in DOMAIN OfType}
Void == [type |-> "void", value |-> Null]
\* What a method may return: a Thing* that came home is the object itself.
Results == {Void} \cup {r \in Typed : r.type \in {"string", "Point", "any", "Foreign", "Pair"}}

-----------------------------------------------------------------------------
(***************************************************************************)
(* CClass::SerializeForRemoting: the cells written and, if it fails, the   *)
(* error. A field that fails leaves those before it in the buffer.         *)
(***************************************************************************)
Zero == <<"length", 0>>
Header(name) == <<<<"length", NameLength[name]>>>>
                \o [i \in 1..NameLength[name] |-> <<"part", name>>]

Fails(error) == [cells |-> <<>>, error |-> error]
Put(cells, room) == IF room < Len(cells) THEN Fails("too_large")
                    ELSE [cells |-> cells, error |-> "none"]
Follows(p, q) == [cells |-> p.cells \o q.cells, error |-> q.error]

\* "nobody" is the target of a result: no proxy may be returned.
PackForeign(v, room, target) == IF v = Null THEN Put(<<Zero>>, room)
                                ELSE IF v.home # target THEN Fails("foreign_to_foreign")
                                ELSE Put(Header(v.name), room)
PackString(v, room, clone) ==
    Put(IF v = Null THEN <<Zero>> ELSE <<<<"clone", clone, Truncated(v.of)>>>>, room)
PackPlain(type, v, room, target, clone) ==
    CASE type = "int" -> Put(<<<<"int", 1>>>>, room)
      [] type = "intptr" -> Fails("unsafe_type")
      [] type = "string" -> PackString(v, room, clone)
      [] type = "Foreign" -> PackForeign(v, room, target)
      [] type = "Thing" -> IF v # Null THEN Fails("not_a_value") ELSE Put(<<Zero>>, room)
      [] type = "array" -> Fails("special_class")
PackStruct(v, room, target, clone) ==
    LET Field(p, i) == IF p.error # "none" THEN p
                       ELSE Follows(p, PackPlain(FieldTypes[v.is][i], v.fields[i],
                                                 room - Len(p.cells), target, clone))
        UpTo[n \in 0..Len(v.fields)] == IF n = 0 THEN Put(<<>>, room) ELSE Field(UpTo[n - 1], n)
    IN UpTo[Len(v.fields)]
\* The class of the object decides; a struct is boxed, and copied as it is.
PackBoxed(v, room) == IF HasReferences(v.is) THEN Fails("references_in_a_box")
                      ELSE Put([i \in 1..Len(v.fields) |-> <<"int", 1>>], room)
PackActual(v, room, target, clone) == IF v.is = "boxed" THEN PackBoxed(v.of, room)
                                      ELSE PackPlain(v.is, v, room, target, clone)
NiceName(v) == IF v.is = "boxed" THEN v.of.is ELSE v.is

\* Mutant of PackAny: what follows the name gets the room of the whole.
PackAnyInSameRoom(v, room, target, clone) ==
    IF v = Null THEN Put(<<Zero>>, room)
    ELSE LET name == Put(Header(NiceName(v)), room)
         IN IF name.error # "none" THEN name
            ELSE Follows(name, PackActual(v, room, target, clone))
\* An interface: the nice name of the object's class, then the object.
PackAny(v, room, target, clone) ==
    IF v = Null THEN Put(<<Zero>>, room)
    ELSE LET name == Put(Header(NiceName(v)), room)
         IN IF name.error # "none" THEN name
            ELSE Follows(name, PackActual(v, room - Len(name.cells), target, clone))
Pack(a, room, target, clone) ==
    CASE a.type = "any" -> PackAny(a.value, room, target, clone)
      [] a.type \in Structs -> PackStruct(a.value, room, target, clone)
      [] OTHER -> PackPlain(a.type, a.value, room, target, clone)

-----------------------------------------------------------------------------
(***************************************************************************)
(* CClass::DeserializeForRemoting from the cell at p: the value, the cells *)
(* it took, the clones it deleted. A cell that is not what the type has    *)
(* there is misread.                                                       *)
(***************************************************************************)
Gives(v, took) == [value |-> v, took |-> took, frees |-> {}, error |-> "none"]
Refuses(error) == [value |-> Misread, took |-> 0, frees |-> {}, error |-> error]
IsLength(p) == buffer[p][1] = "length"
NameAt(p) == buffer[p + 1][2]
Overruns(p, n) == p + n > MessageSize + 1

UnpackForeign(p, objects) ==
    IF ~IsLength(p) THEN Gives(Misread, 1)
    ELSE IF buffer[p] = Zero THEN Gives(Null, 1)
    ELSE IF Overruns(p, 1 + buffer[p][2]) THEN Refuses("too_large")
    ELSE IF NameAt(p) \notin objects THEN Refuses("not_found")
    ELSE Gives(Exported(NameAt(p)), 1 + buffer[p][2])
UnpackString(p) == IF buffer[p] = Zero THEN Gives(Null, 1)
                   ELSE IF buffer[p][1] # "clone" THEN Gives(Misread, 1)
                   ELSE [value |-> Text(buffer[p][3]), took |-> 1,
                          frees |-> {buffer[p][2]}, error |-> "none"]
UnpackPlain(type, p, objects) ==
    IF Overruns(p, 1) THEN Refuses("too_large")
    ELSE CASE type = "int" -> Gives(IF buffer[p][1] = "int" THEN Int ELSE Misread, 1)
           [] type = "string" -> UnpackString(p)
           [] type = "Foreign" -> UnpackForeign(p, objects)
           [] type = "Thing" -> IF buffer[p] # Zero THEN Refuses("invalid") ELSE Gives(Null, 1)
           [] type = "array" -> Refuses("invalid")
UnpackStruct(type, p, objects) ==
    LET Field(u, i) ==
            IF u.error # "none" THEN u
            ELSE LET f == UnpackPlain(FieldTypes[type][i], p + u.took, objects)
                 IN [value |-> [u.value EXCEPT !.fields[i] = f.value], took |-> u.took + f.took,
                     frees |-> u.frees \cup f.frees, error |-> f.error]
        blank == [is |-> type, fields |-> [i \in DOMAIN FieldTypes[type] |-> Misread]]
        UpTo[n \in 0..Len(FieldTypes[type])] == IF n = 0 THEN Gives(blank, 0) ELSE Field(UpTo[n - 1], n)
    IN UpTo[Len(FieldTypes[type])]
\* A value type and its boxed class share the nice name: the box is meant.
UnpackBoxed(struct, p) ==
    LET fields == [i \in DOMAIN FieldTypes[struct] |->
                      IF buffer[p + i - 1] = <<"int", 1>> THEN Int ELSE Misread]
    IN IF Overruns(p, Len(FieldTypes[struct])) THEN Refuses("too_large")
       ELSE Gives(Boxed([is |-> struct, fields |-> fields]), Len(fields))
UnpackActual(name, p, objects) == IF name \in Structs THEN UnpackBoxed(name, p)
                                  ELSE UnpackPlain(name, p, objects)
UnpackAny(p, objects) ==
    IF Overruns(p, 1) THEN Refuses("too_large")
    ELSE IF ~IsLength(p) THEN Gives(Misread, 1)
    ELSE IF buffer[p] = Zero THEN Gives(Null, 1)
    ELSE IF Overruns(p, 1 + buffer[p][2]) THEN Refuses("too_large")
    ELSE IF NameAt(p) = "Foreign" /\ "proxies" \notin known THEN Refuses("unknown_type")
    ELSE IF NameAt(p) \in Structs /\ "boxes" \notin known THEN Refuses("no_boxed_class")
    ELSE LET u == UnpackActual(NameAt(p), p + 1 + buffer[p][2], objects)
         IN [u EXCEPT !.took = u.took + 1 + buffer[p][2]]
\* objects: what the reading domain exports.
Unpack(type, p, objects) == CASE type = "any" -> UnpackAny(p, objects)
                              [] type \in Structs -> UnpackStruct(type, p, objects)
                              [] OTHER -> UnpackPlain(type, p, objects)

-----------------------------------------------------------------------------
Init == /\ \E n \in 0..MaxParams, r \in Results, m \in BOOLEAN,
                l \in {NameSize - 1, NameSize, NameSize + 1} :
              \E ps \in [1..n -> Typed] :
                 /\ (m => r = Void) /\ (l >= NameSize => n = 0)
                 /\ call = [params |-> ps, ret |-> r, async |-> m, nameLength |-> l]
        /\ known \in SUBSET {"proxies", "boxes"} /\ exported = {"door"}
        /\ client = "flattening" /\ server = "idle"
        /\ buffer = [p \in 1..MessageSize |-> <<"blank">>] /\ length = 0 /\ problem = "none"
        /\ packed = 0 /\ received = <<>> /\ read = 0
        /\ clones = [c \in 0..MaxParams |-> "not_made"] /\ result = Misread

Written(b, from, cells) == [p \in DOMAIN b |-> IF p > from /\ p <= from + Len(cells)
                                               THEN cells[p - from] ELSE b[p]]
Clones(cells, c) == \E i \in DOMAIN cells : cells[i][1] = "clone" /\ cells[i][2] = c
Made(cells) == [c \in DOMAIN clones |-> IF Clones(cells, c) THEN "alive" ELSE clones[c]]
Deleted(frees) == [c \in DOMAIN clones |->
                      IF c \notin frees THEN clones[c]
                      ELSE IF clones[c] = "alive" THEN "deleted" ELSE "deleted_again"]

\* objectNameToFlatString: a name with one character too many is let through.
Flatten == /\ client = "flattening"
           /\ client' = IF call.nameLength >= NameSize + 1 THEN "aborted" ELSE "packing"
           /\ UNCHANGED <<call, known, exported, server, buffer, length, problem, packed,
                          received, read, clones, result>>

\* _soX_msgsnd_sync, _soX_msgsnd_async: one turn of their loop. What was cloned for an
\* earlier argument stays when a later one is refused.
PackArgument ==
    /\ client = "packing" /\ packed < Len(call.params)
    /\ LET p == Pack(call.params[packed + 1], MessageSize - length, "target", packed + 1)
       IN /\ buffer' = Written(buffer, length, p.cells)
          /\ clones' = Made(p.cells)
          /\ length' = length + Len(p.cells)
          /\ client' = IF p.error # "none" THEN "aborted" ELSE client
    /\ packed' = packed + 1
    /\ UNCHANGED <<call, known, exported, server, problem, received, read, result>>
Send == /\ client = "packing" /\ packed = Len(call.params)
        /\ client' = IF call.async THEN "done" ELSE "waiting"
        /\ server' = "sent"
        /\ UNCHANGED <<call, known, exported, buffer, length, problem, packed, received,
                       read, clones, result>>

\* The target looks the object up by its name: one that fills its array runs on into
\* the name of the method.
Find == /\ server = "sent"
        /\ IF "door" \in exported /\ call.nameLength < NameSize
           THEN server' = "unpacking" /\ UNCHANGED problem
           ELSE server' = "answered" /\ problem' = "object_not_found"
        /\ UNCHANGED <<call, known, exported, client, buffer, length, packed, received,
                       read, clones, result>>
\* The target no longer exports the object (CDomain::ExportObject with null).
Unexport == /\ server \in {"idle", "sent"} /\ exported # {}
            /\ exported' = {}
            /\ UNCHANGED <<call, known, client, server, buffer, length, problem, packed,
                           received, read, clones, result>>

\* _soX_unpack: one turn of its loop. When it fails, it releases strings at the wrong
\* places: those from here on, which are not there yet.
UnpackArgument ==
    /\ server = "unpacking" /\ Len(received) < Len(call.params)
    /\ LET i == Len(received) + 1
           u == Unpack(call.params[i].type, read + 1, exported)
           strings == {j \in i..Len(call.params) : call.params[j].type = "string"}
       IN IF u.error = "none"
          THEN /\ received' = Append(received, u.value) /\ read' = read + u.took
               /\ clones' = Deleted(u.frees)
               /\ UNCHANGED <<server, problem>>
          ELSE /\ problem' = u.error /\ clones' = Deleted(u.frees)
               /\ server' \in {"returning"} \cup IF strings # {} THEN {"broken"} ELSE {}
               /\ UNCHANGED <<received, read>>
    /\ UNCHANGED <<call, known, exported, client, buffer, length, packed, result>>
\* The method runs, or aborts.
Invoke == /\ server = "unpacking" /\ Len(received) = Len(call.params)
          /\ \/ server' = "returning" /\ UNCHANGED problem
             \/ server' = "answered" /\ problem' = "aborted"
          /\ UNCHANGED <<call, known, exported, client, buffer, length, packed, received,
                         read, clones, result>>

\* CDomain::Listen packs the result whatever happened, and does not ask whether it could:
\* without a call there is no result, and what a reference there points at is accidental.
PackResult ==
    /\ server = "returning"
    /\ LET p == Pack(call.ret, MessageSize, "nobody", 0)
       IN \/ /\ call.ret = Void \/ problem # "none"
             /\ server' = "answered" /\ UNCHANGED <<buffer, clones>>
          \/ /\ problem # "none" /\ call.ret.type \notin {"void", "Point"}
             /\ server' = "broken" /\ UNCHANGED <<buffer, clones>>
          \/ /\ call.ret # Void /\ problem = "none"
             /\ buffer' = Written(buffer, 0, p.cells) /\ clones' = Made(p.cells)
             /\ server' = "answered"
    /\ UNCHANGED <<call, known, exported, client, length, problem, packed, received, read, result>>

Receive ==
    /\ client = "waiting" /\ server = "answered"
    /\ IF problem # "none" THEN client' = "aborted" /\ UNCHANGED <<result, clones>>
       ELSE IF call.ret = Void THEN client' = "done" /\ UNCHANGED <<result, clones>>
       ELSE LET u == Unpack(call.ret.type, 1, {})
            IN /\ clones' = Deleted(u.frees) /\ result' = u.value
               /\ client' = IF u.error = "none" THEN "done" ELSE "aborted"
    /\ UNCHANGED <<call, known, exported, server, buffer, length, problem, packed, received, read>>
\* REMOTECALL_TIMEOUT: the target goes on with the message.
GiveUp == /\ client = "waiting" /\ client' = "aborted"
          /\ UNCHANGED <<call, known, exported, server, buffer, length, problem, packed,
                         received, read, clones, result>>

Next == \/ Flatten \/ PackArgument \/ Send \/ Find \/ Unexport \/ UnpackArgument \/ Invoke
        \/ PackResult \/ Receive \/ GiveUp
Spec == Init /\ [][Next]_vars

-----------------------------------------------------------------------------
(***************************************************************************)
(* What may travel, how many words it takes and what arrives, said without *)
(* the buffer.                                                             *)
(***************************************************************************)
Parts(v) == {v} \cup (IF v.is \in Structs THEN Seqs!ToSet(v.fields) ELSE {})
MayTravel(a, target) ==
    /\ a.type \notin {"intptr", "array"}
    /\ \A v \in Parts(a.value) : /\ v.is \notin {"Thing", "array"}
                                 /\ v.is = "Foreign" => v.home = target
                                 /\ v.is = "boxed" => ~HasReferences(v.of.is)
Words(v) == IF v.is = "Foreign" THEN 1 + NameLength[v.name]
            ELSE IF v.is = "boxed" THEN Len(v.of.fields)
            ELSE IF v.is \in Structs THEN
                  1 + (IF v.fields[2].is = "Foreign" THEN 1 + NameLength["door"] ELSE 1)
            ELSE 1
Takes(a) == Words(a.value) + IF a.type = "any" /\ a.value # Null
                             THEN 1 + NameLength[NiceName(a.value)] ELSE 0
AllTake == LET Sum[n \in 0..Len(call.params)] ==
                   IF n = 0 THEN 0 ELSE Sum[n - 1] + Takes(call.params[n])
           IN Sum
Fine(n) == AllTake[n] <= MessageSize /\ \A i \in 1..n : MayTravel(call.params[i], "target")
FineResult == MayTravel(call.ret, "nobody") /\ Takes(call.ret) <= MessageSize
ArrivedPart(v) == CASE v.is = "string" -> Text(Truncated(v.of))
                    [] v.is = "Foreign" -> Exported(v.name)
                    [] OTHER -> v
Arrived(v) == IF v.is \in Structs
              THEN [v EXCEPT !.fields = [i \in 1..Len(v.fields) |-> ArrivedPart(v.fields[i])]]
              ELSE ArrivedPart(v)

\* Whatever the message and whoever gives up meanwhile: nothing is written outside the
\* buffer; arguments are refused exactly if one may not travel or all do not fit, and
\* what was packed is unpacked the same; so is a result that may travel; and no clone of
\* a string is deleted twice, or left by an answered call, unless the result may not.
MessagesArrive ==
    /\ length <= MessageSize
    /\ client = "aborted" /\ server = "idle" => call.nameLength > NameSize \/ ~Fine(packed)
    /\ server # "idle" => Fine(Len(call.params))
    /\ \A i \in DOMAIN received : received[i] = Arrived(call.params[i].value)
    /\ Len(received) = Len(call.params) => read = length
    /\ problem \notin {"too_large", "invalid"}
    /\ client = "done" /\ call.ret # Void /\ FineResult => result = Arrived(call.ret.value)
    /\ (\E c \in DOMAIN clones : clones[c] = "deleted_again") => ~FineResult
    /\ (server = "answered" /\ problem \in {"none", "aborted"}) =>
          \A c \in 1..MaxParams : clones[c] # "alive"

\* "meaning we're trying to return a foreign object to a foreign domain (which is
\* explicitly disallowed by the spec)" (Remoting.cpp:464): refuted, nobody is told; the
\* caller takes what the arguments left in the buffer for the result.
ResultsAreRefused == client = "done" /\ call.ret # Void => FineResult
\* "Never abort here, or foreign domains would crash" (Remoting.cpp:683): refuted, for the
\* error path of _soX_unpack and for a result that there is none of.
TargetSurvives == server # "broken"
\* "the size of object names and method names [...] is limited to SKIZO_OBJECTNAME_SIZE and
\* SKIZO_METHODNAME_SIZE characters" (Remoting.h:118): refuted for a name of that size.
LongestNameArrives == problem = "object_not_found" => exported = {} \/ call.nameLength > NameSize
=============================================================================
