------------------------------ MODULE Closures ------------------------------
(***************************************************************************)
(* Closures: the transformer finds out what each closure captures and      *)
(* makes environment classes for the methods whose names are captured; the *)
(* emitter then writes paths through the environments at run time.         *)
(*                                                                         *)
(* The method Root of an ordinary class contains the closures, nested in   *)
(* each other. The transformer works through a queue of classes: that of   *)
(* Root, one class for each closure, one for each environment.             *)
(***************************************************************************)
EXTENDS Integers, Sequences, FiniteSets

CONSTANT Closures    \* bound: how many there are

ClosuresAssumption == Closures \in Nat

\* Closures are numbered as they begin in the source, so that a closure has a
\* greater number than those around it.
Closure  == 1..Closures
Root     == 0
Method   == 0..Closures
NoMethod == -1
Upper == <<"upper">>      \* _soX_upper
Self  == <<"self">>       \* _soX_self
Idle == <<"idle">>

VARIABLES parent,    \* m_parentMethod: the tree of the source
          use,       \* what a method refers to, apart from its closures
          rootKind,  \* Root is "instance", "static" or "dtor"
          queue,     \* classesToProcess: methods and the environments of methods
          cur,       \* curMethod, or NoMethod
          rest,      \* the expressions of curMethod to infer: closures, Idle or its use
          env,       \* the methods with a ClosureEnvClass
          envFields, \* the fields of the environment classes
          resolved,  \* those whose type is resolved
          selfCaptured, \* E_METHODFLAGS_IS_SELF_CAPTURED
          captured,  \* the methods whose local or parameter IsCaptured
          phase      \* "infer", "layout", "emit", or "failed"
source == <<parent, use, rootKind>>
vars == <<source, queue, cur, rest, env, envFields, resolved, selfCaptured, captured, phase>>

\* A use is a local or a parameter of method `of', a field of Root's class, or
\* `this'. Each method has one name that can be captured: "name".
Name(m) == <<"name", m>>
Uses == {<<"field">>, <<"this">>, Idle} \cup {Name(m) : m \in Method}

Class(m) == <<"class", m>>
Parents(p) == [m \in Method |-> IF m = Root THEN NoMethod ELSE p[m]]
\* The methods around m: its parent, and what is around that.
HasParents(S) == \A k \in S : parent[k] # NoMethod => parent[k] \in S
Around(m) == {k \in Method : \A S \in SUBSET Method :
                 (parent[m] # NoMethod => parent[m] \in S) /\ HasParents(S) => k \in S}

Init == /\ \E p \in [Closure -> Method] :
              (\A c \in Closure : p[c] < c) /\ parent = Parents(p)
        /\ use \in [Method -> Uses]
        /\ \A m \in Method : use[m][1] = "name" => use[m][2] \in {m} \cup Around(m)
        /\ rootKind \in {"instance", "static", "dtor"}
        /\ queue = <<Class(Root)>> /\ cur = NoMethod /\ rest = {}
        /\ env = {} /\ envFields = [m \in Method |-> {}] /\ resolved = [m \in Method |-> {}]
        /\ selfCaptured = {} /\ captured = {}
        /\ phase = "infer"

ClosuresOf(m) == {c \in Closure : parent[c] = m}

\* The loop of SkizoTransform takes the next class.
DequeueMethod ==
    /\ phase = "infer" /\ cur = NoMethod /\ queue # <<>> /\ Head(queue)[1] = "class"
    /\ LET m == Head(queue)[2]
       IN cur' = m /\ rest' = {<<"closure", c>> : c \in ClosuresOf(m)} \cup {use[m]}
    /\ queue' = Tail(queue)
    /\ UNCHANGED <<source, env, envFields, resolved, selfCaptured, captured, phase>>

\* inferFields of an environment class.
DequeueEnv ==
    /\ phase = "infer" /\ cur = NoMethod /\ queue # <<>> /\ Head(queue)[1] = "env"
    /\ LET m == Head(queue)[2] IN resolved' = [resolved EXCEPT ![m] = envFields[m]]
    /\ queue' = Tail(queue)
    /\ UNCHANGED <<source, cur, rest, env, envFields, selfCaptured, captured, phase>>

inferClosureExpr(c) ==
    /\ phase = "infer" /\ cur # NoMethod /\ <<"closure", c>> \in rest
    /\ rest' = rest \ {<<"closure", c>>} /\ queue' = Append(queue, Class(c))
    /\ UNCHANGED <<source, cur, env, envFields, resolved, selfCaptured, captured, phase>>

\* The environment classes of methods, innermost first.
Outwards(ms) == {s \in [1..Cardinality(ms) -> {<<"env", m>> : m \in ms}] :
                    \A i, j \in DOMAIN s : i < j => s[i][2] > s[j][2]}

\* makeSureEnvClassReady for the methods ms, and the fields that are added. A
\* captured name comes with its type resolved, and so does _soX_self.
AddFields(ms, f) ==
    /\ env' = env \cup ms
    /\ \E s \in Outwards(ms \ env) : queue' = queue \o s
    /\ envFields' = [m \in Method |-> envFields[m] \cup f[m]]
    /\ resolved'  = [m \in Method |-> resolved[m] \cup (f[m] \ {Upper})]

Fail == phase' = "failed" /\ UNCHANGED <<queue, env, envFields, resolved, selfCaptured, captured>>

\* The methods from the parent of curMethod up to method d.
Between(m, d) == {k \in Around(m) : k = d \/ d \in Around(k)}

\* Mutant of CaptureName: only the method that declares the name has an environment.
CaptureNameThere(d) ==
    IF d = cur THEN UNCHANGED <<queue, env, envFields, resolved, selfCaptured, captured, phase>>
    ELSE /\ AddFields({d}, [m \in Method |-> IF m = d THEN {Upper, Name(d)} ELSE {}])
         /\ captured' = captured \cup {d}
         /\ UNCHANGED <<selfCaptured, phase>>
\* inferIdentExpr of a local or a parameter of method d.
CaptureName(d) ==
    IF d = cur THEN UNCHANGED <<queue, env, envFields, resolved, selfCaptured, captured, phase>>
    ELSE /\ AddFields(Between(cur, d),
                      [m \in Method |-> (IF m \in Between(cur, d) THEN {Upper} ELSE {})
                                        \cup (IF m = d THEN {Name(d)} ELSE {})])
         /\ captured' = captured \cup {d}
         /\ UNCHANGED <<selfCaptured, phase>>

\* inferIdentExpr of a field. Only curMethod itself is asked if it is static.
CaptureField ==
    IF cur = Root
    THEN IF rootKind = "static" THEN Fail
         ELSE UNCHANGED <<queue, env, envFields, resolved, selfCaptured, captured, phase>>
    ELSE /\ AddFields(Around(cur),
                      [m \in Method |-> IF m \in Around(cur) THEN {Upper, Self} ELSE {}])
         /\ selfCaptured' = selfCaptured \cup Around(cur)
         /\ UNCHANGED <<captured, phase>>

\* inferThisExpr: the topmost method gets an environment, those between do not.
CaptureThis ==
    IF rootKind = "static" \/ (cur = Root /\ rootKind = "dtor") THEN Fail
    ELSE IF cur = Root
    THEN UNCHANGED <<queue, env, envFields, resolved, selfCaptured, captured, phase>>
    ELSE /\ AddFields({Root}, [m \in Method |-> IF m = Root THEN {Self} ELSE {}])
         /\ selfCaptured' = selfCaptured \cup {Root}
         /\ UNCHANGED <<captured, phase>>

InferUse(u) ==
    /\ phase = "infer" /\ cur # NoMethod /\ u \in rest \cap Uses
    /\ rest' = rest \ {u}
    /\ \/ u = Idle /\ UNCHANGED <<queue, env, envFields, resolved, selfCaptured, captured, phase>>
       \/ u[1] = "name"  /\ CaptureName(u[2])
       \/ u[1] = "field" /\ CaptureField
       \/ u[1] = "this"  /\ CaptureThis
    /\ UNCHANGED <<source, cur>>

MethodInferred ==
    /\ phase = "infer" /\ cur # NoMethod /\ rest = {}
    /\ cur' = NoMethod
    /\ UNCHANGED <<source, queue, rest, env, envFields, resolved, selfCaptured, captured, phase>>

QueueIsEmpty ==
    /\ phase = "infer" /\ cur = NoMethod /\ queue = <<>>
    /\ phase' = "layout"
    /\ UNCHANGED <<source, queue, cur, rest, env, envFields, resolved, selfCaptured, captured>>

\* CalcGCMap of the environment classes; what is not resolved then, it resolves.
ResolvedLate(m) == envFields[m]
CalcGCMap ==
    /\ phase = "layout"
    /\ resolved' = [m \in Method |-> ResolvedLate(m)]
    /\ phase' = "emit"
    /\ UNCHANGED <<source, queue, cur, rest, env, envFields, selfCaptured, captured>>

Next == \/ DequeueMethod \/ DequeueEnv
        \/ \E c \in Closure : inferClosureExpr(c)
        \/ \E u \in Uses : InferUse(u)
        \/ MethodInferred \/ QueueIsEmpty \/ CalcGCMap
Spec == Init /\ [][Next]_vars

-----------------------------------------------------------------------------
\* appendCapturePath: the path from method m to a field of the environment of
\* method d casts to the environment class of each method between. The struct
\* must have the fields the path names, and the program must have set them:
\* emitBodyExpr gives a closure the environment of the method that makes it, as
\* a closure with an environment of its own keeps in _soX_upper.
PathLeads(m, d, field) ==
    /\ \A k \in Between(m, d) : k \in env /\ (k # d => Upper \in envFields[k])
    /\ field \in envFields[d]
    /\ field = Self => d \in selfCaptured
    /\ field = Name(d) => d \in captured

\* "This allows for data chaining even if some closures in the middle have no
\* captured data whatsoever" (Transformer.cpp:963): whatever is captured by other
\* closures, before or after, a name or a field that a closure uses is at the end
\* of the path the emitter writes for it. A method uses a name of its own through
\* its environment exactly if a closure does.
NamesAreReachable ==
    phase = "emit" => \A m \in Method :
        /\ use[m][1] = "name" => LET d == use[m][2] IN
              IF d = m THEN m \in captured => m \in env /\ Name(m) \in envFields[m]
                       ELSE PathLeads(m, d, Name(d))
        /\ use[m][1] = "field" /\ m # Root => PathLeads(m, Root, Self)

\* The same for `this': not so in a closure inside a closure.
ThisIsReachable ==
    phase = "emit" => \A m \in Closure : use[m][1] = "this" => PathLeads(m, Root, Self)

\* The collector gets environment classes whose fields have their types, in
\* whatever order they were added: before the class is inferred or after.
EnvironmentsResolved ==
    phase = "emit" => \A m \in env : envFields[m] # {} /\ envFields[m] \subseteq resolved[m]

\* "Static methods can't access instance fields." (Transformer.cpp:1006), and the
\* closures in them neither; "'this' can escape the destructor and become a
\* zombie" (Transformer.cpp:2139).
StaticsHaveNoSelf == phase = "emit" /\ rootKind = "static" => Root \notin selfCaptured
=============================================================================
