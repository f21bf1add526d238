------------------------------- MODULE Typing -------------------------------
(***************************************************************************)
(* Types and what becomes of a value that is assigned, passed, returned or *)
(* cast: the compiler compares static types (STransformer, GetCastInfo)    *)
(* and inserts boxes, failables and checks; the run time sees the class of *)
(* the object only (_soX_downcast, _soX_unbox, _soX_is).                   *)
(*                                                                         *)
(* A type is a sequence of words: <<"A">>, <<"?", "A">> (a failable), and  *)
(* a class that the domain generates is one, too: <<"box", "S">>. A value  *)
(* is the class it is of, with what is in it. One value goes through up to *)
(* MaxConversions conversions.                                             *)
(***************************************************************************)
EXTENDS Naturals, Sequences

CONSTANT MaxConversions   \* bound: of one value

VARIABLES has,        \* the program: the methods of classes and of the struct
          type,       \* InferredType of the expression
          value,      \* and its value
          outcome,    \* "ok", "aborted", or "thrown": the compiler itself fails
          left        \* the conversions that may still come
vars == <<has, type, value, outcome, left>>

Operator == "op_add"
Method == {"f", Operator}
Needs == [any |-> {}, I |-> {"f"}, J |-> Method]       \* the interfaces
BaseOf == [B |-> "A", Problem |-> "Error", Closure |-> "Action"]

IsInterface(t) == Len(t) = 1 /\ t[1] \in DOMAIN Needs
IsFailable(t) == t[1] = "?"
IsBoxed(t) == t[1] = "box"
Wrapped(t) == Tail(t)
IsValueType(t) == t = <<"S">> \/ IsFailable(t)
Types == {<<n>> : n \in DOMAIN Needs \cup {"A", "B", "S", "Error", "Problem", "Action", "Array"}}
         \cup {<<"?", n>> : n \in {"any", "A", "S", "Error", "Action", "Array"}}
\* Expressions whose type is found out where they are used.
NullType == <<"null">>
ClosureType == <<"^">>
NewArrayType == <<"array">>

\* m_instanceMethodMap and Access: a box has public copies of the methods of its struct,
\* save for operators.
PublicMethods(t) ==
    CASE IsInterface(t) -> Needs[t[1]]
      [] t = <<"B">> -> {m \in Method : "public" \in {has.A[m], has.B[m]}}
      [] t \in {<<"A">>, <<"S">>} -> {m \in Method : has[t[1]][m] = "public"}
      [] t = <<"box", "S">> -> {m \in Method : has.S[m] # "absent"} \ {Operator}
      [] OTHER -> {}
DoesImplementInterface(t, interface) == Needs[interface[1]] \subseteq PublicMethods(t)
IsSubclassOf(t, other) == Len(t) = 1 /\ t[1] \in DOMAIN BaseOf /\ other = <<BaseOf[t[1]]>>
IsErrorClass(t) == t = <<"Error">> \/ IsSubclassOf(t, <<"Error">>)
Is(t, other) == \/ t = other
                \/ IsInterface(other) /\ DoesImplementInterface(t, other)
                \/ ~IsInterface(other) /\ IsSubclassOf(t, other)

-----------------------------------------------------------------------------
(***************************************************************************)
(* What the compiler thinks of a conversion from one type to another.      *)
(***************************************************************************)
IsLiteral(t) == t \in {NullType, ClosureType, NewArrayType}
IsNullAssignable(t) == ~IsValueType(IF IsFailable(t) THEN Wrapped(t) ELSE t)
IsMethodClass(t) == t \in {<<"Action">>, <<"?", "Action">>}
IsArrayClass(t) == t \in {<<"Array">>, <<"?", "Array">>}

OfValues(t, other) ==
    IF t = other THEN "upcast"
    ELSE IF IsInterface(t) THEN (IF DoesImplementInterface(other, t) THEN "box" ELSE "none")
    ELSE IF IsInterface(other) /\ DoesImplementInterface(t, other) THEN "unbox" ELSE "none"
OfReferences(t, other) ==
    IF t = other THEN "upcast"
    ELSE IF IsSubclassOf(t, other) THEN "downcast"
    ELSE IF IsSubclassOf(other, t) THEN "upcast"
    ELSE IF IsInterface(t) /\ DoesImplementInterface(other, t) THEN "upcast"
    ELSE IF IsInterface(other) /\ DoesImplementInterface(t, other) THEN "downcast" ELSE "none"
GetCastInfo(t, other) ==
    IF IsLiteral(other) THEN "none"
    ELSE IF IsFailable(t) /\ Wrapped(t) = other THEN "value_to_failable"
    ELSE IF IsFailable(t) /\ IsErrorClass(other) THEN "error_to_failable"
    ELSE IF IsValueType(t) \/ IsValueType(other) THEN OfValues(t, other)
    ELSE OfReferences(t, other)

-----------------------------------------------------------------------------
(***************************************************************************)
(* Values.                                                                 *)
(***************************************************************************)
Object(class) == <<class, <<>>>>
Null == Object(NullType)
ClassOf(v) == v[1]
Zero(t) == IF t = <<"S">> THEN Object(t) ELSE Null
FromValue(t, v) == <<t, <<Null, v>>>>
FromError(t, e) == <<t, <<e, Zero(Wrapped(t))>>>>
Box(v) == <<<<"box">> \o ClassOf(v), <<v>>>>

Running == outcome = "ok" /\ left > 0
Goes(t, v) == type' = t /\ value' = v /\ left' = left - 1 /\ UNCHANGED <<has, outcome>>
Ends(how) == outcome' = how /\ UNCHANGED <<has, type, value, left>>

\* A null, a closure and a new array become what is expected of them.
Fits(t) == \/ type = NullType /\ IsNullAssignable(t)
           \/ type = ClosureType /\ IsMethodClass(t)
           \/ type = NewArrayType /\ IsArrayClass(t)
LiteralValue == CASE type = NullType -> Null
                  [] type = ClosureType -> Object(<<"Closure">>)
                  [] type = NewArrayType -> Object(<<"Array">>)
Becomes(t) == Fits(t) /\ Goes(t, IF IsFailable(t) THEN FromValue(t, LiteralValue) ELSE LiteralValue)

\* insertImplicitConversionIfAny: an upcast needs no code; what needs a check has to be
\* written as a cast.
Implicitly(t) ==
    LET cast == GetCastInfo(t, type)
    IN \/ cast = "upcast" /\ Goes(t, value)
       \/ cast = "box" /\ Goes(t, Box(value))
       \/ cast = "value_to_failable" /\ Goes(t, FromValue(t, value))
       \/ cast = "error_to_failable" /\ Goes(t, FromError(t, value))
       \/ cast = "none" /\ Becomes(t)

\* _soX_downcast, _soX_unbox.
Downcast(t) == value = Null \/ Is(ClassOf(value), t)
\* Mutant of Unboxes: whatever is in the box.
UnboxesAny(t) == value # Null /\ IsBoxed(ClassOf(value))
Unboxes(t) == /\ value # Null /\ IsBoxed(ClassOf(value))
              /\ Wrapped(ClassOf(value)) = t
Explicitly(t) ==
    LET cast == GetCastInfo(t, type)
    IN \/ cast = "upcast" /\ Goes(t, value)
       \/ cast = "box" /\ Goes(t, Box(value))
       \/ cast = "downcast" /\ (IF Downcast(t) THEN Goes(t, value) ELSE Ends("aborted"))
       \/ cast = "unbox" /\ (IF Unboxes(t) THEN Goes(t, value[2][1]) ELSE Ends("aborted"))
       \/ cast \in {"value_to_failable", "error_to_failable"} /\ Ends("thrown")
       \/ cast = "none" /\ Becomes(t)

\* To a variable of the type; a parameter (inferCallExpr) and a result (inferReturnExpr)
\* get their values in the same way.
Assign(t) == Running /\ Implicitly(t)
Cast(t) == Running /\ Explicitly(t)

\* The methods of a failable.
Failure == value[2][1]
Unwrap == /\ Running /\ IsFailable(type)
          /\ IF Failure = Null THEN Goes(Wrapped(type), value[2][2]) ELSE Ends("aborted")
ErrorOf == Running /\ IsFailable(type) /\ Goes(<<"Error">>, Failure)

Access == {"absent", "public", "private"}
Shown == [Method -> Access \ {"private"}]
Init == /\ has \in [A : Shown, B : {b \in Shown : b.f = "absent"}, S : [Method -> Access]]
        /\ \/ \E n \in {"A", "B", "S", "Error", "Problem"} :
                 type = <<n>> /\ value = Object(<<n>>)
           \/ type \in {NullType, ClosureType, NewArrayType} /\ value = Null
        /\ outcome = "ok" /\ left = MaxConversions
Next == \/ \E t \in Types : Assign(t) \/ Cast(t)
        \/ Unwrap \/ ErrorOf
Spec == Init /\ [][Next]_vars

-----------------------------------------------------------------------------
\* inferIsExpr, emitIsExpr: of a value type the compiler knows; a box answers for its
\* struct.
Unboxed(class) == IF IsBoxed(class) THEN Wrapped(class) ELSE class
IsExpr(t) == IF IsValueType(type) THEN Is(type, t)
             ELSE value # Null /\ Is(Unboxed(ClassOf(value)), t)

\* A box is seen as what its struct is: no interface asks for its operators, and it has
\* no method that is not public.
Transparent(v) == PublicMethods(ClassOf(v)) = PublicMethods(Unboxed(ClassOf(v)))
Conforms(v, t) == IF IsValueType(t) THEN ClassOf(v) = t
                  ELSE v = Null \/ Is(ClassOf(v), t) \/ ~Transparent(v)
CastSucceeds(t) == CASE GetCastInfo(t, type) = "downcast" -> Downcast(t)
                     [] GetCastInfo(t, type) = "unbox" -> Unboxes(t)
                     [] OTHER -> IsExpr(t)

\* Whatever conversions a value has gone through, an expression's value is of its static
\* type, and so is what is in a failable, an error or a value; and a cast that needs a
\* check succeeds just if `is' says so.
ConversionsAreSound ==
    /\ ~IsLiteral(type) => Conforms(value, type)
    /\ IsFailable(type) => /\ Conforms(value[2][1], <<"Error">>)
                           /\ Conforms(value[2][2], Wrapped(type))
    /\ ~IsLiteral(type) /\ value # Null /\ Transparent(value) =>
          \A t \in Types : CastSucceeds(t) <=> IsExpr(t)

\* "boxed classes already have copies of the methods of the class they wrap, so they
\* automatically inherit interfaces of their wrappees too" (Class.cpp:1005): refuted, an
\* operator is not copied, and a private method gets public.
BoxesInheritInterfaces == \A i \in DOMAIN Needs :
    DoesImplementInterface(<<"box", "S">>, <<i>>) = DoesImplementInterface(<<"S">>, <<i>>)
\* "every cast is reduced to UPCAST, DOWNCAST, BOX or UNBOX" (Emitter.cpp:779): refuted, a
\* cast to a failable gets to the emitter, which throws.
CastsAreReduced == outcome # "thrown"
\* "A null is assigned to a failable struct, like this: i: int? = null;"
\* (Transformer.cpp:1570): refuted, only if null fits what is wrapped.
NullIsFailable == type = NullType => \A t \in Types : IsFailable(t) => Fits(t)
=============================================================================
