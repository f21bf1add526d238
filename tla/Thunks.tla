------------------------------ MODULE Thunks ------------------------------
(***************************************************************************)
(* The machine code that SThunkManager writes: thunks through which native  *)
(* code calls a closure, methods and constructors of boxed value types and  *)
(* of closures, and dynamic calls of methods. A thunk pushes the words that *)
(* the code behind it expects, calls it, and gives back what it returned;   *)
(* a method of a boxed type is compiled when it is called first, by the     *)
(* trampoline that stands for it.                                           *)
(*                                                                          *)
(* The machine is as much of an x86 as they use, in words: <<name, n>> is   *)
(* an instruction, [bp + n] is Local(n). Everything takes a word, except    *)
(* structs of two; a struct is returned through a pointer, the hidden first *)
(* argument, that the callee pops (TCC, i386-gen.c:528).                    *)
(***************************************************************************)
EXTENDS Integers, Sequences, FiniteSets
Sq == INSTANCE SequencesExt

CONSTANTS MaxArguments,  \* bound: parameters of a method
          MaxRounds      \* bound: calls of the same thunk

VARIABLES kind, method,          \* the thunk and its method
          safe, foreign,         \* what SafeCallbacks does in this build; a foreign caller
          text,                  \* the code: of the thunk, and what the trampoline compiles
          ip, stack, sp, bp, ax, st,  \* the stack, up to sp, its top last, and registers
          memory,                \* the box, the buffer of a dynamic call, the caller's struct
          calls, round, halted
thunkState == <<kind, method, safe, foreign>>
vars == <<thunkState, text, ip, stack, sp, bp, ax, st, memory, calls, round, halted>>

Total(sizes) == Sq!FoldLeft(LAMBDA s, n : s + n, 0, sizes)
Down(n, Instruction(_)) == [i \in 1..n |-> Instruction(n - i)]
ReturnsStruct(m) == m.ret = "struct"
Hidden(m) == IF ReturnsStruct(m) THEN 1 ELSE 0
HasThis(m) == ~m.static /\ ~m.ctor
ArgWords(m) == Total(m.params)

-----------------------------------------------------------------------------
(***************************************************************************)
(* The code of each kind of thunk.                                         *)
(***************************************************************************)
Prolog == <<<<"push bp", 0>>, <<"mov bp sp", 0>>>>
Epilog == <<<<"leave", 0>>, <<"ret", 0>>>>
CallOf(f) == <<<<"mov ax", f>>, <<"call", 0>>>>
Cleanup(n) == IF n = 0 THEN <<>> ELSE <<<<"add sp", n>>>>

\* GetClosureThunk: repeats the arguments and adds the closure.
ClosureThunk(m) ==
    Prolog
    \o (IF safe # "off" THEN <<<<"push", "domain">>>> \o CallOf("closureChecker") \o Cleanup(1) ELSE <<>>)
    \o Down(Len(m.params), LAMBDA i : <<"push local", i + 2>>)
    \o <<<<"push", "closure">>>> \o CallOf("method")
    \o (IF m.stdcall THEN <<>> ELSE Cleanup(Len(m.params) + 1)) \o Epilog

\* compileClosureCtor, compileBoxedCtor: the work is done by a helper.
ClosureCtor == Prolog \o <<<<"push local", 2>>, <<"push", "ctor">>>>
               \o CallOf("closureCtorHelper") \o Cleanup(2) \o Epilog
BoxedCtor == Prolog \o <<<<"lea local", 2>>, <<"push ax", 0>>, <<"push", "ctor">>>>
             \o CallOf("boxedCtorHelper") \o Cleanup(2) \o Epilog

\* Mutant of BoxedBody: the arguments are taken from where they are without a hidden one.
BoxedBodyUnshifted(m) ==
    Down(ArgWords(m), LAMBDA i : <<"push local", 3 + i>>)
    \o <<<<"mov ax local", 2 + Hidden(m)>>, <<"add ax", 1>>>>
    \o Down(m.self, LAMBDA i : <<"push field", i>>)
    \o (IF ReturnsStruct(m) THEN <<<<"push local", 2>>>> ELSE <<>>)
    \o CallOf("method") \o Cleanup(ArgWords(m) + m.self + Hidden(m)) \o Epilog
\* boxedMethodJit: the object is replaced by the value in it. The trampoline has done
\* the prolog.
BoxedBody(m) ==
    Down(ArgWords(m), LAMBDA i : <<"push local", 3 + i + Hidden(m)>>)
    \o <<<<"mov ax local", 2 + Hidden(m)>>, <<"add ax", 1>>>>
    \o Down(m.self, LAMBDA i : <<"push field", i>>)
    \o (IF ReturnsStruct(m) THEN <<<<"push local", 2>>>> ELSE <<>>)
    \o CallOf("method") \o Cleanup(ArgWords(m) + m.self + Hidden(m)) \o Epilog
\* GetCompilationTrampoline: calls the compiler, which patches instruction 3, and jumps
\* back to it.
Trampoline == Prolog \o <<<<"nop", 0>>, <<"push", "wrapper">>, <<"push", "trampoline">>>>
              \o CallOf("boxedMethodJit") \o <<<<"add sp", 2>>, <<"jmp", 3>>>>

\* GetReflectionThunk: the arguments, and "this", come from a buffer that also has room
\* for a struct that is returned; what is returned gets boxed.
ThisWords(m) == IF HasThis(m) THEN m.self ELSE 0
FrameWords(m) == ArgWords(m) + ThisWords(m)
BoxResult(m) ==
    CASE m.ret = "void" -> <<<<"xor ax", 0>>>>
      [] m.ret = "object" -> <<>>
      [] m.ret = "int" -> <<<<"push ax", 0>>>> \o CallOf("create") \o Cleanup(1)
      [] m.ret = "float" -> <<<<"sub sp", 1>>, <<"fstp", 0>>, <<"mov ax top", 0>>, <<"add sp", 1>>,
                              <<"push ax", 0>>>> \o CallOf("create") \o Cleanup(1)
      [] m.ret = "struct" -> <<<<"mov ax local", 2>>>>
                             \o Down(2, LAMBDA i : <<"push field", FrameWords(m) + i>>)
                             \o CallOf("create") \o Cleanup(2)
ReflectionThunk(m) ==
    Prolog \o <<<<"mov ax local", 2>>>>
    \o Down(FrameWords(m), LAMBDA i : <<"push field", i>>)
    \o (IF ReturnsStruct(m) THEN <<<<"add ax", FrameWords(m)>>, <<"push ax", 0>>>> ELSE <<>>)
    \o CallOf("method") \o Cleanup(FrameWords(m)) \o BoxResult(m) \o Epilog

Compiled(k, m) == CASE k = "closure" -> ClosureThunk(m) [] k = "closure ctor" -> ClosureCtor
                    [] k = "boxed ctor" -> BoxedCtor [] k = "boxed" -> Trampoline
                    [] k = "reflection" -> ReflectionThunk(m)

-----------------------------------------------------------------------------
(***************************************************************************)
(* Who calls: native code with the arguments (a closure), C code with the  *)
(* arguments, the object and the hidden one (a boxed method), or           *)
(* CMethod::InvokeDynamic with one buffer.                                 *)
(***************************************************************************)
Arguments(m) == Sq!FlattenSeq([i \in 1..Len(m.params) |-> [j \in 1..m.params[i] |-> <<"arg", i, j>>]])
Self(m) == [j \in 1..m.self |-> <<"self", 0, j>>]
Pointer(base, n) == <<base, n>>
Passed(k, m) ==
    CASE k = "closure" -> Arguments(m)
      [] k = "closure ctor" -> <<<<"env", 0>>>>
      [] k = "boxed ctor" -> Self(m)
      [] k = "boxed" -> (IF ReturnsStruct(m) THEN <<Pointer("struct", 0)>> ELSE <<>>)
                        \o <<Pointer("box", 0)>> \o Arguments(m)
      [] k = "reflection" -> <<Pointer("buffer", 0)>>
Frame(k, m) == <<<<"caller", 0>>>> \o Sq!Reverse(Passed(k, m)) \o <<<<"return", 0>>>>
Blank(n) == [i \in 1..n |-> <<"blank", 0>>]
Memory(m) == [box |-> <<<<"table", 0>>>> \o Self(m), struct |-> Blank(2),
              buffer |-> (IF HasThis(m) THEN Self(m) ELSE <<>>) \o Arguments(m) \o Blank(2)]

\* What AddMethod and GetClosureThunk let through: a closure has no structs, and only
\* closures are ever stdcall here (GetReflectionThunk refuses). InvokeDynamic calls the
\* wrapper of a boxed value, so that "this" takes one word.
Signatures == {m \in [params : UNION {[1..n -> 1..2] : n \in 0..MaxArguments},
                   ret : {"void", "int", "float", "object", "struct"},
                   self : 1..2, static : BOOLEAN, ctor : BOOLEAN, stdcall : BOOLEAN] :
               ~(m.static /\ m.ctor)}
Suits(k, m) ==
    /\ m.stdcall => k = "closure"
    /\ k # "reflection" => ~m.static /\ ~m.ctor
    /\ k = "reflection" => m.self = 1
    /\ k = "closure" => m.self = 1 /\ ~ReturnsStruct(m) /\ \A i \in DOMAIN m.params : m.params[i] = 1
    /\ k \in {"closure ctor", "boxed ctor"} => m.params = <<>> /\ m.ret = "object"

Init == /\ kind \in {"closure", "closure ctor", "boxed ctor", "boxed", "reflection"}
        /\ method \in Signatures /\ Suits(kind, method)
        /\ safe \in {"off", "asks", "aborts"} /\ foreign \in BOOLEAN
        /\ (kind # "closure" => safe = "off" /\ ~foreign)
        /\ text = [thunk |-> Compiled(kind, method), body |-> <<>>]
        /\ ip = <<"thunk", 1>> /\ stack = Frame(kind, method) /\ sp = Len(stack) /\ bp = 0
        /\ ax = <<"junk", 0>> /\ st = <<"junk", 0>> /\ memory = Memory(method)
        /\ calls = <<>> /\ round = 1 /\ halted = ""

-----------------------------------------------------------------------------
(***************************************************************************)
(* The code that thunks call. It sees the words on the stack, the return   *)
(* address popped again: Top(1) is its first argument.                     *)
(***************************************************************************)
Top(n) == stack[sp + 1 - n]
Words(n) == [i \in 1..n |-> IF i <= sp THEN Top(i) ELSE <<"nothing", 0>>]
Pops(n) == sp' = sp - n /\ UNCHANGED stack
Push(w) == stack' = Append(SubSeq(stack, 1, sp), w) /\ sp' = sp + 1
Local(n) == stack[bp - n]
At(p) == memory[p[1]][p[2] + 1]

Expects(m) == Hidden(m) + (IF kind = "closure" THEN 1
                           ELSE IF HasThis(m) THEN m.self ELSE 0) + ArgWords(m)
Log(f, n) == calls' = Append(calls, [code |-> f, words |-> Words(n)])
RunsMethod ==
    /\ Log("method", Expects(method))
    /\ CASE ReturnsStruct(method) ->
              /\ ax' = Top(1) /\ Pops(1) /\ UNCHANGED st
              /\ memory' = [memory EXCEPT ![Top(1)[1]] =
                               [@ EXCEPT ![Top(1)[2] + 1] = <<"result", 1>>,
                                         ![Top(1)[2] + 2] = <<"result", 2>>]]
         [] method.ret = "float" -> st' = <<"result", 1>> /\ ax' = <<"junk", 0>>
                                    /\ UNCHANGED <<stack, sp, memory>>
         [] OTHER -> /\ ax' = <<"result", 1>>
                     /\ Pops(IF method.stdcall THEN Expects(method) ELSE 0)
                     /\ UNCHANGED <<st, memory>>
    /\ UNCHANGED <<text, halted>>
\* The constructor of a box, called with the value.
Creates == /\ Log("create", IF ReturnsStruct(method) THEN 2 ELSE 1)
           /\ ax' = <<"new box", 0>>
           /\ UNCHANGED <<text, stack, sp, st, memory, halted>>
\* closureCtorHelper gets the environment, boxedCtorHelper a pointer to the value.
Constructs(f) ==
    /\ calls' = Append(calls, [code |-> f, words |->
                   IF f = "closureCtorHelper" THEN <<Top(2)>>
                   ELSE [i \in 1..method.self |-> stack[Top(2)[2] + 1 - i]]])
    /\ ax' = <<"new", 0>> /\ UNCHANGED <<text, stack, sp, st, memory, halted>>
\* closureChecker finds another domain: it aborts on POSIX. On Win32 it asks the user, who
\* lets the call go on or ends the process.
Checks == /\ halted' \in CASE ~foreign -> {""}
                           [] foreign /\ safe = "aborts" -> {"aborted"}
                           [] foreign /\ safe = "asks" -> {"", "failed fast"}
          /\ ax' = <<"junk", 0>> /\ UNCHANGED <<text, stack, sp, st, memory, calls>>
\* boxedMethodJit compiles the body and patches the trampoline, or finds no code.
Compiles == \/ /\ text' = [thunk |-> [text.thunk EXCEPT ![3] = <<"jmp body", 0>>],
                           body |-> BoxedBody(method)]
               /\ ax' = <<"junk", 0>> /\ UNCHANGED <<stack, sp, st, memory, calls, halted>>
            \/ halted' = "aborted" /\ UNCHANGED <<text, ax, stack, sp, st, memory, calls>>

-----------------------------------------------------------------------------
Instruction == text[ip[1]][ip[2]]
Goes(section, n) == ip' = <<section, n>>
Falls == Goes(ip[1], ip[2] + 1)

Moves == /\ Instruction[1] \in 
               {"mov ax", "mov ax local", "mov ax top", "add ax", "xor ax", "lea local"}
         /\ ax' = CASE Instruction[1] = "mov ax" -> <<Instruction[2], 0>>
                    [] Instruction[1] = "mov ax local" -> Local(Instruction[2])
                    [] Instruction[1] = "mov ax top" -> Top(1)
                    [] Instruction[1] = "add ax" -> Pointer(ax[1], ax[2] + Instruction[2])
                    [] Instruction[1] = "lea local" -> Pointer("stack", bp - Instruction[2])
                    [] OTHER -> <<"zero", 0>>
         /\ Falls /\ UNCHANGED <<text, stack, sp, bp, st, memory, calls, halted>>
Pushes == /\ Instruction[1] \in {"push bp", "push local", "push", "push field", "push ax"}
          /\ Push(CASE Instruction[1] = "push bp" -> <<"bp", bp>>
                    [] Instruction[1] = "push local" -> Local(Instruction[2])
                    [] Instruction[1] = "push" -> <<Instruction[2], 0>>
                    [] Instruction[1] = "push field" -> At(Pointer(ax[1], ax[2] + Instruction[2]))
                    [] OTHER -> ax)
          /\ Falls /\ UNCHANGED <<text, bp, ax, st, memory, calls, halted>>
Adjusts == /\ Instruction[1] \in {"add sp", "sub sp", "fstp", "mov bp sp", "nop"}
           /\ CASE Instruction[1] = "add sp" -> Pops(Instruction[2])
                [] Instruction[1] = "sub sp" -> Push(<<"blank", 0>>)
                [] Instruction[1] = "fstp" -> stack' = [stack EXCEPT ![sp] = st] /\ UNCHANGED sp
                [] OTHER -> UNCHANGED <<stack, sp>>
           /\ bp' = IF Instruction[1] = "mov bp sp" THEN sp ELSE bp
           /\ Falls /\ UNCHANGED <<text, ax, st, memory, calls, halted>>
Calls == /\ Instruction[1] = "call"
         /\ \/ ax[1] = "method" /\ RunsMethod
            \/ ax[1] = "create" /\ Creates
            \/ ax[1] \in {"closureCtorHelper", "boxedCtorHelper"} /\ Constructs(ax[1])
            \/ ax[1] = "closureChecker" /\ Checks
            \/ ax[1] = "boxedMethodJit" /\ Compiles
         /\ Falls /\ UNCHANGED bp
Jumps == /\ Instruction[1] \in {"jmp", "jmp body"}
         /\ IF Instruction[1] = "jmp" THEN Goes("thunk", Instruction[2]) ELSE Goes("body", 1)
         /\ UNCHANGED <<text, stack, sp, bp, ax, st, memory, calls, halted>>
Leaves == /\ Instruction[1] = "leave"
          /\ bp' = stack[bp][2] /\ sp' = bp - 1
          /\ Falls /\ UNCHANGED <<text, stack, ax, st, memory, calls, halted>>
Returns == /\ Instruction[1] = "ret"
           /\ Pops(1) /\ halted' = "returned"
           /\ UNCHANGED <<text, ip, bp, ax, st, memory, calls>>

Step == /\ halted = ""
        /\ Moves \/ Pushes \/ Adjusts \/ Calls \/ Jumps \/ Leaves \/ Returns
        /\ UNCHANGED <<thunkState, round>>
\* The thunk is kept (codeOffset, pReflectionThunk) and called again.
Again == /\ halted \in {"returned", "aborted"} /\ round < MaxRounds
         /\ round' = round + 1 /\ halted' = "" /\ ip' = <<"thunk", 1>>
         /\ stack' = Frame(kind, method) /\ sp' = Len(stack') /\ bp' = 0
         /\ memory' = Memory(method) /\ calls' = <<>>
         /\ UNCHANGED <<thunkState, text, ax, st>>
Next == Step \/ Again
Spec == Init /\ [][Next]_vars

-----------------------------------------------------------------------------
\* What the code behind a thunk is to be called with, and what the thunk returns.
Reached == [closure |-> <<<<"closure", 0>>>> \o Arguments(method),
            boxed |-> Self(method) \o Arguments(method),
            reflection |-> (IF HasThis(method) THEN Self(method) ELSE <<>>) \o Arguments(method)]
ResultPlace == IF kind = "boxed" THEN Pointer("struct", 0) ELSE Pointer("buffer", FrameWords(method))
MethodCall ==
    [code |-> "method",
     words |-> (IF ReturnsStruct(method) THEN <<ResultPlace>> ELSE <<>>) \o Reached[kind]]
ResultWords ==
    IF ReturnsStruct(method) THEN <<<<"result", 1>>, <<"result", 2>>>> ELSE <<<<"result", 1>>>>
Boxes == kind = "reflection" /\ method.ret \in {"int", "float", "struct"}
ExpectedCalls == CASE kind = "closure ctor" ->
                            <<[code |-> "closureCtorHelper", words |-> <<<<"env", 0>>>>]>>
                   [] kind = "boxed ctor" -> <<[code |-> "boxedCtorHelper", words |-> Self(method)]>>
                   [] OTHER -> <<MethodCall>>
                                \o (IF Boxes THEN <<[code |-> "create", words |-> ResultWords]>> ELSE <<>>)
ResultIsThere ==
    CASE kind \in {"closure ctor", "boxed ctor"} -> ax = <<"new", 0>>
      [] Boxes -> ax = <<"new box", 0>>
      [] kind = "reflection" -> ax = (IF method.ret = "void" THEN <<"zero", 0>> ELSE <<"result", 1>>)
      [] method.ret = "float" -> st = <<"result", 1>>
      [] ReturnsStruct(method) -> memory.struct = ResultWords
      [] method.ret = "void" -> TRUE
      [] OTHER -> ax = <<"result", 1>>
\* A callee pops the hidden argument, and all of them if it is stdcall.
PoppedByCallee == IF kind = "closure" /\ method.stdcall THEN ArgWords(method)
                  ELSE IF kind = "boxed" THEN Hidden(method) ELSE 0
\* Each call of a thunk, the first as well as a later one, calls the code behind it once,
\* with exactly the words it expects, returns its result, and leaves base pointer and
\* stack as its caller has them, except that it pops nothing for its caller. If callbacks
\* are safe, a call from a foreign domain is not forwarded, unless the user of a Win32
\* build lets it go on; it is then forwarded like any other.
ThunksForward ==
    /\ sp >= 1 /\ stack[1] = <<"caller", 0>>
    /\ halted = "returned" => /\ calls = ExpectedCalls
                              /\ ResultIsThere /\ bp = 0
                              /\ sp = 1 + Len(Passed(kind, method))
    /\ (safe = "aborts" /\ foreign) \/ halted = "failed fast" => calls = <<>>

\* "TCC implements cdecl just like GCC: it's the callee which is responsible for popping
\* the hidden buffer" (ThunkManager.cpp:691), and a "thunk which can be passed to native
\* code as a simple C function" (ThunkManager.h:58): refuted for a boxed method that returns
\* a struct, and for a stdcall closure.
CalleesPop == halted = "returned" => sp = 1 + Len(Passed(kind, method)) - PoppedByCallee
=============================================================================
