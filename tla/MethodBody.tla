----------------------------- MODULE MethodBody -----------------------------
(***************************************************************************)
(* SParser::parseMethodBody: method bodies are parsed in one loop with two *)
(* stacks, of the calls that are open and of the bodies around the current *)
(* one (closures). Return, assignment and the like are parsed as calls with*)
(* a marker and converted when the call ends.                              *)
(*                                                                         *)
(* Tokens: "id" an identifier, "var" one with its type (x: auto); "return",*)
(* "cast" and "new" are markers at the first place with one argument (new  *)
(* stands for array, abort, assert and ref), "^" starts a closure, "@" is C*)
(* code. An expression is <<kind, its parts>>; a marker has none yet.      *)
(***************************************************************************)
EXTENDS Naturals, Sequences, FiniteSets, SequencesExt, TLC

CONSTANTS Tokens,      \* the kinds of tokens of a body
          MaxTokens    \* bound: how many

VARIABLES read,       \* the tokens the reader has passed, after the first '{'
          awaited,    \* the token Expect wants next, or "any"
          call,       \* curCallExpr: its Exprs
          callStack,
          body,       \* curBodyExpr: its Exprs
          bodyStack,
          result      \* "open", "failed" or "parsed"
vars == <<read, awaited, call, callStack, body, bodyStack, result>>

Init == /\ read = <<>> /\ awaited = "any"
        /\ call = <<>> /\ callStack = <<>>
        /\ body = <<>> /\ bodyStack = <<>>
        /\ result = "open"

Leaf(t) == <<t, <<>>>>
KindOf(e) == e[1]
IsMarked == call # <<>> /\ \/ call[1] \in {Leaf("cast"), Leaf("new"), Leaf("arrayInit")}
                           \/ Len(call) > 1 /\ call[2] = Leaf("=")

Accept(t) == read' = Append(read, t) /\ UNCHANGED result
Fail == result' = "failed" /\ UNCHANGED <<read, awaited, call, callStack, body, bodyStack>>

\* tryConvertCallExpr and verifyCallComplete: what a complete call is, or none.
ConvertedArgument(exprs) == IF Len(exprs) = 2 THEN {<<KindOf(exprs[1]), <<exprs[2]>>>>} ELSE {}
IsCall(exprs) == Len(exprs) >= 2 /\ KindOf(exprs[2]) = "id"
IsAssignment(exprs) == /\ Len(exprs) = 3 /\ KindOf(exprs[2]) = "="
                       /\ KindOf(exprs[1]) \in {"id", "var"}
Converted(exprs) ==
    CASE exprs = <<>> -> {}
      [] KindOf(exprs[1]) \in {"return", "new"} \/ exprs[1] = Leaf("cast") -> ConvertedArgument(exprs)
      [] KindOf(exprs[1]) = "break" -> {exprs[1]}
      [] IsAssignment(exprs) -> {<<"=", <<exprs[1], exprs[3]>>>>}
      [] IsCall(exprs) -> {<<"call", exprs>>}
      [] OTHER -> {}

\* Tokens that are one element of the current call. '{' is an operator to
\* Tokenizer::IsOperator, so that it passes for a name.
Element(t) ==
    /\ IF \/ t \in {"id", "{"}
          \/ t \in {"return", "cast", "new", "break"} /\ call = <<>>
          \/ t = "=" /\ Len(call) = 1 /\ ~IsMarked
          \/ t = "var" /\ call = <<>>
       THEN /\ Accept(t)
            /\ call' = Append(call, IF t = "{" THEN <<"id", <<"{">>>> ELSE Leaf(t))
            /\ awaited' = IF t = "var" THEN "=" ELSE "any"
            /\ UNCHANGED <<callStack, body, bodyStack>>
       ELSE Fail

Open(t, exprs) ==
    /\ Accept(t)
    /\ callStack' = Append(callStack, call) /\ call' = exprs
    /\ UNCHANGED <<awaited, body, bodyStack>>
LeftParenth == Open("(", <<>>)
LeftBracket == Open("[", <<Leaf("arrayInit")>>)

\* The call is complete: it goes into the one it was found in.
Close(t, e) ==
    /\ Accept(t)
    /\ call' = Append(Last(callStack), e)
    /\ callStack' = Front(callStack)
    /\ UNCHANGED <<awaited, body, bodyStack>>

RightParenth ==
    IF callStack # <<>> /\ call # <<>> /\ call[1] # Leaf("arrayInit") /\ Converted(call) # {}
    THEN \E e \in Converted(call) : Close(")", e)
    ELSE Fail

RightBracket ==
    IF callStack # <<>> /\ call # <<>> /\ call[1] = Leaf("arrayInit")
    THEN Close("]", IF Len(call) = 1 THEN <<"new", <<Leaf("zero")>>>>      \* (array 0)
                    ELSE <<"array", Tail(call)>>)
    ELSE Fail

ReturnAlreadyDefined == \E i \in DOMAIN body : KindOf(body[i]) = "return"
Semicolon ==
    IF \E e \in Converted(call) : ~(KindOf(e) = "return" /\ ReturnAlreadyDefined)
    THEN /\ Accept(";")
         /\ \E e \in Converted(call) : body' = Append(body, e)
         /\ call' = <<>>
         /\ UNCHANGED <<awaited, callStack, bodyStack>>
    ELSE Fail

\* Mutant of Method: the call the closure is part of is left as it is.
MethodForgetsCall ==
    /\ Accept("^") /\ awaited' = "{"
    /\ bodyStack' = Append(bodyStack, body) /\ body' = <<>>
    /\ callStack' = Append(callStack, <<>>) /\ call' = <<>>
Method ==
    /\ Accept("^") /\ awaited' = "{"     \* after parseFunctionSig
    /\ bodyStack' = Append(bodyStack, body) /\ body' = <<>>
    /\ callStack' = Append(callStack, call) /\ call' = <<>>

RightBrace ==
    IF Last(<<"{">> \o read) \in {";", "@", "{"}
    THEN IF bodyStack = <<>>
         THEN /\ read' = Append(read, "}") /\ result' = "parsed"
              /\ UNCHANGED <<awaited, call, callStack, body, bodyStack>>
         ELSE IF callStack = <<>> THEN Fail      \* the stack is empty
         ELSE /\ Accept("}")
              /\ call' = Append(Last(callStack), <<"body", body>>)
              /\ callStack' = Front(callStack)
              /\ body' = Last(bodyStack) /\ bodyStack' = Front(bodyStack)
              /\ UNCHANGED awaited
    ELSE Fail

CCode == IF call = <<>>
         THEN /\ Accept("@") /\ body' = Append(body, Leaf("@"))
              /\ UNCHANGED <<awaited, call, callStack, bodyStack>>
         ELSE Fail

\* Expect of '{' behind a closure's signature, or the peek behind a variable.
Expect(t) ==
    IF t # awaited THEN Fail
    ELSE IF t = "=" THEN Element(t)
    ELSE Accept(t) /\ awaited' = "any" /\ UNCHANGED <<call, callStack, body, bodyStack>>

parseMethodBody(t) ==
    /\ result = "open" /\ Len(read) < MaxTokens
    /\ \/ awaited # "any" /\ Expect(t)
       \/ /\ awaited = "any"
          /\ CASE t = "(" -> LeftParenth [] t = ")" -> RightParenth
               [] t = "[" -> LeftBracket [] t = "]" -> RightBracket
               [] t = ";" -> Semicolon   [] t = "@" -> CCode
               [] t = "^" -> Method      [] t = "}" -> RightBrace
               [] OTHER -> Element(t)

Next == \E t \in Tokens : parseMethodBody(t)
Spec == Init /\ [][Next]_vars

-----------------------------------------------------------------------------
\* The text of an expression. isStatement: a body contains it, so that a call
\* has no parentheses around it.
RECURSIVE Text(_, _), TextOfBody(_)
Texts(exprs) == FlattenSeq([i \in DOMAIN exprs |-> Text(exprs[i], FALSE)])
Enclosed(isStatement, t) == IF isStatement THEN t \o <<";">> ELSE <<"(">> \o t \o <<")">>
Text(e, isStatement) ==
    CASE KindOf(e) = "id" -> IF e[2] = <<>> THEN <<"id">> ELSE e[2]
      [] KindOf(e) = "call" -> Enclosed(isStatement, Texts(e[2]))
      [] KindOf(e) \in {"return", "cast", "new"} /\ e[2] # <<Leaf("zero")>> ->
           Enclosed(isStatement, <<KindOf(e)>> \o Texts(e[2]))
      [] KindOf(e) = "break" -> Enclosed(isStatement, <<"break">>)
      [] e = <<"new", <<Leaf("zero")>>>> -> <<"[", "]">>
      [] KindOf(e) = "=" /\ e[2] # <<>> ->
           Enclosed(isStatement, Text(e[2][1], FALSE) \o <<"=">> \o Text(e[2][2], FALSE))
      [] KindOf(e) = "array" -> <<"[">> \o Texts(e[2]) \o <<"]">>
      [] KindOf(e) = "body" -> <<"^", "{">> \o TextOfBody(e[2])
      [] OTHER -> <<KindOf(e)>>
TextOfBody(exprs) == FlattenSeq([i \in DOMAIN exprs |-> Text(exprs[i], TRUE)]) \o <<"}">>

\* The brackets that are open, innermost last: each closing one belongs to the
\* last open one, and statements end in a body. What does not fit stays.
Opening == (")" :> "(") @@ ("]" :> "[") @@ ("}" :> "^")
Fits(open, t) == open # <<>> /\ Last(open) = IF t \in {";", "@"} THEN "^" ELSE Opening[t]
Nesting == FoldLeft(LAMBDA open, t :
                       IF t \in {"(", "[", "^"} THEN Append(open, t)
                       ELSE IF t \notin DOMAIN Opening \cup {";", "@"} THEN open
                       ELSE IF ~Fits(open, t) THEN Append(open, t)
                       ELSE IF t \in DOMAIN Opening THEN Front(open) ELSE open,
                    <<"^">>, read)
BeginsCall(i) == i = 1 \/ read[i - 1] \in {"(", ";", "{", "@"}
\* A call on what a marker has made is converted again.
IsConvertedTwice(i) ==
    BeginsCall(i) /\ \/ read[i] = "(" /\ read[i + 1] \in {"return", "new", "break"}
                     \/ read[i] = "[" /\ read[i + 1] = "]"
WellFormed ==
    /\ Nesting = <<>>
    /\ \A i \in DOMAIN read : /\ read[i] = "{" => i > 1 /\ read[i - 1] = "^"
                              /\ read[i] = "break" => read[i + 1] \in {";", ")"}
                              /\ ~IsConvertedTwice(i)

\* Nothing a program says is lost or moved: written out again, a parsed body is
\* the text it was parsed from, where brackets nest, nothing follows a break and
\* no method is called on (array n), [] and the like.
PrintsBack == result = "parsed" /\ WellFormed => TextOfBody(body) = read

\* "Parenthesis mismatch." (Parser.cpp:997): a body that is accepted has a closing
\* bracket for each opening one, in order.
BracketsMatch == result = "parsed" => Nesting = <<>>
=============================================================================
