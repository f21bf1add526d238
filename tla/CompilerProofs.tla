---------------------------- MODULE CompilerProofs ----------------------------
(***************************************************************************)
(* Proofs about the parts of the compiler, for any program: for any number *)
(* of classes, methods, extensions and nested closures.  The behaviours of *)
(* MCSpec are those of the parts; what is proved about one part is said of *)
(* the behaviours that exercise it.                                        *)
(***************************************************************************)
EXTENDS MCCompiler, FiniteSetTheorems, SequenceTheorems, NaturalsInduction, WellFoundedInduction, TLAPS

-----------------------------------------------------------------------------
(***************************************************************************)
(* Interfaces: who is let through as a value of the interface has had a    *)
(* signature that looked like that of the interface, and when the program  *)
(* runs every signature is resolved.                                       *)
(***************************************************************************)
Waiting == {queue[i] : i \in 1..Len(queue)}
LetThrough == converted \cup {c \in DOMAIN cache : cache[c]}
InterfacesInv ==
    /\ queue \in Seq(F!Everything)
    /\ phase \in {"finalize", "infer"} => F!Everything \subseteq resolved \cup Waiting
    /\ phase = "run" => F!Everything \subseteq resolved
    /\ \A c \in LetThrough : F!Names(c) \cap F!Names(Interface) # {}
    /\ F!CallsDispatch

\* The module Interfaces has FiniteSets of its own.
LEMMA SameFiniteSets ==
    ASSUME NEW S
    PROVE  (F!IsFiniteSet(S) <=> IsFiniteSet(S)) /\ F!Cardinality(S) = Cardinality(S)
<1>1. F!IsFiniteSet(S) <=> IsFiniteSet(S)
  BY DEF F!IsFiniteSet, IsFiniteSet
<1>2. F!Cardinality(S) = Cardinality(S)
  BY DEF F!Cardinality, Cardinality
<1> QED
  BY <1>1, <1>2

\* An order of all classes leaves none out.
LEMMA OrderIsComplete ==
    ASSUME NEW S, IsFiniteSet(S), NEW q \in F!SetToSeqs(S)
    PROVE  q \in Seq(S) /\ S \subseteq {q[i] : i \in 1..Len(q)}
<1>1. PICK n : n = Cardinality(S)
  OBVIOUS
<1>2. n \in Nat
  BY <1>1, FS_CardinalityType
<1>3. q \in [1..n -> S] /\ \A i, j \in 1..n : i # j => q[i] # q[j]
  BY <1>1, SameFiniteSets DEF F!SetToSeqs
<1>4. q \in Seq(S) /\ Len(q) = n
  BY <1>2, <1>3, SeqDef, LenProperties
<1>5. IsFiniteSet(1..n) /\ Cardinality(1..n) = n
  BY <1>2, FS_Interval
<1>6. q \in Injection(1..n, S)
  BY <1>3 DEF Injection, IsInjective
<1>7. q \in Surjection(1..n, S)
  BY <1>1, <1>5, <1>6, FS_Injection
<1>8. \A s \in S : \E i \in 1..n : q[i] = s
  BY <1>7 DEF Surjection
<1> QED
  BY <1>4, <1>8

\* A class that is let through has just been compared with the interface.
LEMMA AnswerMeansAlike ==
    ASSUME NEW c, NEW done, F!DoesImplementInterfaceNoCache(c, done)
    PROVE  F!Names(c) \cap F!Names(Interface) # {}
<1> DEFINE name(x) == IF x \in done THEN F!Meant(type[x]) ELSE F!Shown(type[x])
<1>1. name(c) = name(Interface)
  BY DEF F!DoesImplementInterfaceNoCache
<1>2. name(c) \in F!Names(c) /\ name(Interface) \in F!Names(Interface)
  BY DEF F!Names
<1> QED
  BY <1>1, <1>2

LEMMA InterfacesInit == F!Init => InterfacesInv
<1> SUFFICES ASSUME F!Init PROVE InterfacesInv
  OBVIOUS
<1>1. IsFiniteSet(F!Everything)
  <2>1. IsFiniteSet(Implementers)
    BY SameFiniteSets, ImplementersAreFinite DEF F!InterfacesAssumption
  <2> QED
    BY <2>1, FS_AddElement DEF F!Everything
<1>2. queue \in Seq(F!Everything) /\ F!Everything \subseteq Waiting
  BY <1>1, OrderIsComplete DEF F!Init, Waiting
<1>3. LetThrough = {}
  BY DEF F!Init, LetThrough
<1> QED
  BY <1>2, <1>3 DEF F!Init, InterfacesInv, F!CallsDispatch

\* What is remembered of a class that was asked about.
LEMMA RememberedAlike ==
    ASSUME InterfacesInv, NEW c, NEW done,
           cache' = F!Remembered(c, F!DoesImplementInterface(c, done)),
           converted' \subseteq converted \cup
                 (IF F!DoesImplementInterface(c, done) THEN {c} ELSE {}),
           UNCHANGED type
    PROVE  \A d \in LetThrough' : F!Names(d)' \cap F!Names(Interface)' # {}
<1>1. PICK a : a = F!DoesImplementInterface(c, done)
  OBVIOUS
<1>2. a => F!Names(c) \cap F!Names(Interface) # {}
  <2>1. CASE c \in DOMAIN cache
    BY <1>1, <2>1 DEF F!DoesImplementInterface, InterfacesInv, LetThrough
  <2>2. CASE c \notin DOMAIN cache
    BY <1>1, <2>2, AnswerMeansAlike DEF F!DoesImplementInterface
  <2> QED
    BY <2>1, <2>2
<1>3. /\ DOMAIN cache' = DOMAIN cache \cup {c}
      /\ \A d \in DOMAIN cache' : cache'[d] = IF d = c THEN a ELSE cache[d]
  BY <1>1 DEF F!Remembered
<1>4. \A d \in LetThrough' : d \in LetThrough \/ (d = c /\ a)
  BY <1>1, <1>3 DEF LetThrough
<1>5. \A d : F!Names(d)' = F!Names(d)
  BY DEF F!Names
<1> QED
  BY <1>2, <1>4, <1>5 DEF InterfacesInv

LEMMA InterfacesStep == InterfacesInv /\ [F!Next]_(F!vars) => InterfacesInv'
<1> SUFFICES ASSUME InterfacesInv, [F!Next]_(F!vars) PROVE InterfacesInv'
  OBVIOUS
<1>1. ASSUME UNCHANGED <<type, cache, converted>>
      PROVE  \A c \in LetThrough' : F!Names(c)' \cap F!Names(Interface)' # {}
  BY <1>1 DEF LetThrough, InterfacesInv, F!Names
<1>2. ASSUME UNCHANGED <<type, called>> PROVE F!CallsDispatch'
  BY <1>2 DEF InterfacesInv, F!CallsDispatch, F!LookAlike, F!Names
<1>3. ASSUME UNCHANGED <<queue, resolved>>,
             \/ phase' \in {"infer", "failed"} /\ phase = "finalize"
             \/ phase' = phase
      PROVE  /\ queue' \in Seq(F!Everything)
             /\ phase' \in {"finalize", "infer"} => F!Everything \subseteq resolved' \cup Waiting'
             /\ phase' = "run" => F!Everything \subseteq resolved'
  BY <1>3 DEF InterfacesInv, Waiting
<1>4. CASE F!MakeSureMethodsFinalized
  <2>1. /\ UNCHANGED <<queue, resolved, type, cache, converted, called>>
        /\ phase' \in {"infer", "failed"} /\ phase = "finalize"
    BY <1>4 DEF F!MakeSureMethodsFinalized, F!source
  <2> QED
    BY <1>1, <1>2, <1>3, <2>1 DEF InterfacesInv
<1>5. CASE F!inferMethod
  <2>1. /\ phase = "infer" /\ queue # <<>> /\ queue' = Tail(queue)
        /\ UNCHANGED <<type, called>>
    BY <1>5 DEF F!inferMethod, F!source
  <2>2. PICK k : k = Head(queue)
    OBVIOUS
  <2>3. /\ resolved \cup {k} \subseteq resolved'
        /\ phase' \in {"infer", "failed"}
        /\ \/ UNCHANGED <<cache, converted>>
           \/ \E c : /\ cache' = F!Remembered(c, F!DoesImplementInterface(c, resolved \cup {k}))
                     /\ converted' = IF F!DoesImplementInterface(c, resolved \cup {k})
                                     THEN converted \cup {c} ELSE converted
    BY <1>5, <2>1, <2>2 DEF F!inferMethod
  <2>4. queue' \in Seq(F!Everything) /\ Waiting \subseteq Waiting' \cup {k}
    <3>1. queue \in Seq(F!Everything)
      BY DEF InterfacesInv
    <3>2. /\ queue' \in Seq(F!Everything) /\ Len(queue') = Len(queue) - 1
          /\ \A i \in 1..Len(queue') : queue'[i] = queue[i + 1]
      BY <2>1, <3>1, HeadTailProperties
    <3>3. k = queue[1] /\ Len(queue) \in Nat
      BY <2>1, <2>2, <3>1, HeadTailProperties, LenProperties
    <3>4. ASSUME NEW i \in 1..Len(queue), i # 1 PROVE queue[i] \in Waiting'
      <4>1. i - 1 \in 1..Len(queue') /\ (i - 1) + 1 = i
        BY <3>2, <3>3, <3>4
      <4> QED
        BY <3>2, <4>1 DEF Waiting
    <3> QED
      BY <3>2, <3>3, <3>4 DEF Waiting
  <2>5. F!Everything \subseteq resolved' \cup Waiting'
    BY <2>1, <2>3, <2>4 DEF InterfacesInv
  <2>6. \A c \in LetThrough' : F!Names(c)' \cap F!Names(Interface)' # {}
    <3>1. CASE UNCHANGED <<cache, converted>>
      BY <1>1, <2>1, <3>1
    <3>2. ASSUME NEW c, cache' = F!Remembered(c, F!DoesImplementInterface(c, resolved \cup {k})),
                 converted' = IF F!DoesImplementInterface(c, resolved \cup {k})
                              THEN converted \cup {c} ELSE converted
          PROVE  \A d \in LetThrough' : F!Names(d)' \cap F!Names(Interface)' # {}
      BY <2>1, <3>2, RememberedAlike
    <3> QED
      BY <2>3, <3>1, <3>2
  <2> QED
    BY <1>2, <2>1, <2>3, <2>4, <2>5, <2>6 DEF InterfacesInv
<1>6. CASE F!Compiled
  <2>1. /\ phase = "infer" /\ queue = <<>> /\ phase' = "run"
        /\ UNCHANGED <<queue, resolved, type, cache, converted, called>>
    BY <1>6 DEF F!Compiled, F!source
  <2>2. Waiting = {}
    BY <2>1 DEF Waiting
  <2> QED
    BY <1>1, <1>2, <2>1, <2>2 DEF InterfacesInv
<1>7. ASSUME NEW c \in Implementers, F!Is(c) PROVE InterfacesInv'
  <2>1. /\ phase = "run" /\ UNCHANGED <<queue, phase, resolved, type, converted, called>>
        /\ cache' = F!Remembered(c, F!DoesImplementInterface(c, resolved))
    BY <1>7 DEF F!Is, F!source
  <2>2. \A d \in LetThrough' : F!Names(d)' \cap F!Names(Interface)' # {}
    BY <2>1, RememberedAlike
  <2> QED
    BY <1>2, <1>3, <2>1, <2>2 DEF InterfacesInv
<1>8. ASSUME NEW c \in Implementers, F!CallInterface(c) PROVE InterfacesInv'
  <2>1. /\ phase = "run" /\ UNCHANGED <<queue, phase, resolved, type, cache, converted>>
        /\ c \in LetThrough /\ called' = <<c, F!Equal(c, Interface)>>
    BY <1>8 DEF F!CallInterface, F!source, LetThrough
  <2>2. F!Names(c) \cap F!Names(Interface) # {} /\ c \in resolved /\ Interface \in resolved
    BY <2>1 DEF InterfacesInv, F!Everything
  <2>3. type[c] = type[Interface] => F!Equal(c, Interface)
    BY <2>2 DEF F!Equal, F!Name
  <2>4. F!CallsDispatch'
    BY <2>1, <2>2, <2>3 DEF F!CallsDispatch, F!LookAlike, F!Names
  <2> QED
    BY <1>1, <1>3, <2>1, <2>4 DEF InterfacesInv
<1>9. CASE UNCHANGED F!vars
  BY <1>1, <1>2, <1>3, <1>9 DEF F!vars, InterfacesInv
<1> QED
  BY <1>4, <1>5, <1>6, <1>7, <1>8, <1>9 DEF F!Next

\* An interface call finds its method in every object that was let through as a value
\* of the interface, for any number of classes, in whatever order they are inferred,
\* asked about and remembered, if no array or alias makes two signatures look alike.
THEOREM InterfaceCallsDispatch == MCSpec => []CallsDispatch
<1> DEFINE Inv == which = "interfaces" => InterfacesInv
<1>1. MCInit => Inv
  BY InterfacesInit DEF MCInit
<1>2. Inv /\ [MCNext]_allVars => Inv'
  <2> SUFFICES ASSUME Inv, [MCNext]_allVars, which' = "interfaces" PROVE InterfacesInv'
    OBVIOUS
  <2>1. which = "interfaces"
    BY DEF MCNext, allVars, common
  <2>2. [F!Next]_(F!vars)
    BY <2>1 DEF MCNext, allVars, common, madeVars, intfVars, F!vars
  <2> QED
    BY <2>1, <2>2, InterfacesStep
<1>3. Inv => CallsDispatch
  BY DEF InterfacesInv, CallsDispatch
<1> QED
  BY <1>1, <1>2, <1>3, PTL DEF MCSpec

-----------------------------------------------------------------------------
(***************************************************************************)
(* Access: a member belongs to the class, and to the extension of it, in   *)
(* which it is found; of the methods around a call only the first is of a  *)
(* class of the program.                                                   *)
(***************************************************************************)
MethodRecord == [class : HomeClasses \cup {A!Closure}, ext : {None} \cup Nat,
                 unsafe : BOOLEAN, module : A!Modules, text : A!Modules]
OfClass(c, e) == e # None => e \in 1..Len(merged) /\ merged[e].class = c
MembersInv ==
    /\ pending \in Seq(A!Extension) /\ merged \in Seq(A!Extension)
    /\ \A c \in HomeClasses : nameSet[c] # None =>
           nameSet[c].class = c /\ OfClass(c, nameSet[c].ext)
    /\ curMethod \in Seq(MethodRecord)
    /\ curMethod # <<>> => /\ curMethod[1].class \in HomeClasses
                           /\ OfClass(curMethod[1].class, curMethod[1].ext)
                           /\ curMethod[1].module = HomeModule[curMethod[1].class]
    /\ \A i \in 2..Len(curMethod) :
           /\ curMethod[i].class = A!Closure /\ curMethod[i].ext = None
           /\ curMethod[i].module = curMethod[1].text
AccessInv == MembersInv /\ A!HiddenStaysInside

LEMMA MembersDeclared ==
    ASSUME MembersInv, NEW m \in A!Declared
    PROVE  m # None /\ m.class \in HomeClasses /\ OfClass(m.class, m.ext)
BY DEF A!Declared, MembersInv

\* Only the first method can be enclosed by a class of the program.
LEMMA EnclosedByFirst ==
    ASSUME MembersInv, NEW i \in 1..Len(curMethod), NEW c \in HomeClasses
    PROVE  A!IsEnclosedByClass(i, c) <=> A!Is(curMethod[1].class, c)
<1>1. Len(curMethod) \in Nat /\ 1 \in 1..i
  BY LenProperties DEF MembersInv
<1>2. \A j \in 1..i : j # 1 => j \in 2..Len(curMethod)
  BY <1>1
<1>3. \A j \in 1..i : j # 1 => ~A!Is(curMethod[j].class, c)
  BY <1>2, HomesAreClasses DEF MembersInv, A!Is, A!IsSubclassOf, A!AccessAssumption
<1> QED
  BY <1>1, <1>3 DEF A!IsEnclosedByClass

LEMMA AccessMeans ==
    ASSUME MembersInv, NEW m \in A!Declared, curMethod # <<>>,
           A!IsAccessibleFromMethod(m, Len(curMethod))
    PROVE  /\ m.access \in {"private", "protected"} => A!Is(curMethod[1].class, m.class)
           /\ (m.access = "private" /\ curMethod[1].ext # None /\ Len(curMethod) <= 1)
                 => m.ext = curMethod[1].ext
<1>1. PICK i : i = Len(curMethod)
  OBVIOUS
<1>2. i \in Nat /\ i >= 1 /\ i \in 1..Len(curMethod)
  BY <1>1, LenProperties, EmptySeq DEF MembersInv
<1>3. m.class \in HomeClasses /\ OfClass(m.class, m.ext)
  BY MembersDeclared
<1>4. CASE ~A!ByAccess(m, i)
  BY <1>1, <1>2, <1>3, <1>4, EnclosedByFirst DEF A!IsAccessibleFromMethod
<1>5. CASE A!ByAccess(m, i) /\ i = 1
  <2>1. curMethod[1].class \in HomeClasses /\ OfClass(curMethod[1].class, curMethod[1].ext)
    BY DEF MembersInv
  <2>2. m.access = "private" => IF curMethod[1].ext # None THEN m.ext = curMethod[1].ext
                                ELSE m.class = curMethod[1].class
    BY <1>5 DEF A!ByAccess
  <2>3. m.access = "private" => m.class = curMethod[1].class
    BY <1>3, <2>1, <2>2 DEF OfClass
  <2>4. m.access = "protected" => A!Is(curMethod[1].class, m.class)
    BY <1>5 DEF A!ByAccess
  <2> QED
    BY <2>2, <2>3, <2>4 DEF A!Is
<1>6. CASE A!ByAccess(m, i) /\ i # 1
  <2>1. i \in 2..Len(curMethod) /\ ~(Len(curMethod) <= 1)
    BY <1>1, <1>2, <1>6
  <2>2. curMethod[i].class = A!Closure /\ curMethod[i].ext = None
    BY <2>1 DEF MembersInv
  <2>3. A!Closure # m.class
    BY <1>3, HomesAreClasses DEF A!AccessAssumption
  <2>4. m.access \notin {"private", "protected"}
    BY <1>6, <2>2, <2>3 DEF A!ByAccess, A!Is, A!IsSubclassOf
  <2> QED
    BY <2>1, <2>4
<1> QED
  BY <1>4, <1>5, <1>6

\* What a call finds is a member of a class of the program.
LEMMA TargetDeclared ==
    ASSUME MembersInv, NEW c \in HomeClasses, NEW m, m # None,
           \/ m = A!MyMethod(c, {"method"}) \/ m = A!MyConst(c) \/ m = A!StaticMethodOrCtor(c)
    PROVE  m \in A!Declared
<1>1. \A d \in HomeClasses : nameSet[d] # None => nameSet[d] \in A!Declared
  BY DEF A!Declared
<1>2. /\ HomeBase[c] \in HomeClasses \cup {None}
      /\ HomeBase[c] # None => HomeBase[HomeBase[c]] \in HomeClasses \cup {None}
  BY HomesAreClasses DEF A!AccessAssumption
<1>3. \A kinds : A!MyMethod(c, kinds) # None => A!MyMethod(c, kinds) \in A!Declared
  BY <1>1, <1>2 DEF A!MyMethod
<1>4. \A k : A!OwnMember(c, k) # None => A!OwnMember(c, k) \in A!Declared
  BY <1>1 DEF A!OwnMember
<1> QED
  BY <1>3, <1>4 DEF A!MyConst, A!StaticMethodOrCtor

\* A closure remembers no extension, but it is enclosed by all that the method around
\* it is enclosed by.
LEMMA ClosuresKeepAccess == MembersInv => A!ClosuresLoseNothing
<1> SUFFICES ASSUME MembersInv, NEW i \in A!Methods \ {1}, NEW m \in A!Declared,
                    A!IsAccessibleFromMethod(m, i - 1),
                    m.access = "internal" => A!Writer.text = A!Writer.module
             PROVE  A!IsAccessibleFromMethod(m, i)
  BY DEF A!ClosuresLoseNothing
<1>1. /\ i \in 2..Len(curMethod) /\ i \in 1..Len(curMethod) /\ i - 1 \in 1..Len(curMethod)
      /\ curMethod # <<>>
  BY LenProperties, EmptySeq DEF A!Methods, MembersInv
<1>2. m.class \in HomeClasses /\ OfClass(m.class, m.ext)
  BY MembersDeclared
<1>3. curMethod[i].ext = None /\ curMethod[i].module = curMethod[1].text
  BY <1>1 DEF MembersInv
<1>4. CASE A!Is(curMethod[1].class, m.class)
  BY <1>1, <1>2, <1>3, <1>4, EnclosedByFirst DEF A!IsAccessibleFromMethod
<1>5. CASE ~A!Is(curMethod[1].class, m.class)
  <2>1. A!ByAccess(m, i - 1)
    BY <1>1, <1>2, <1>5, EnclosedByFirst DEF A!IsAccessibleFromMethod
  <2>2. CASE i - 1 = 1
    <3>1. /\ curMethod[1].class \in HomeClasses
          /\ OfClass(curMethod[1].class, curMethod[1].ext)
          /\ curMethod[1].module = HomeModule[curMethod[1].class]
      BY <1>1 DEF MembersInv
    <3>2. m.access = "private" => m.class = curMethod[1].class
      BY <1>2, <2>1, <2>2, <3>1 DEF A!ByAccess, OfClass
    <3>3. m.access = "public" \/ m.access = "internal"
      BY <1>5, <2>1, <2>2, <3>2 DEF A!ByAccess, A!Is
    <3>4. m.access = "internal" => HomeModule[m.class] = curMethod[i].module
      BY <1>3, <2>1, <2>2 DEF A!ByAccess, A!Writer
    <3> QED
      BY <3>3, <3>4 DEF A!IsAccessibleFromMethod, A!ByAccess
  <2>3. CASE i - 1 # 1
    <3>1. i - 1 \in 2..Len(curMethod)
      BY <1>1, <2>3
    <3>2. /\ curMethod[i - 1].class = A!Closure /\ curMethod[i - 1].ext = None
          /\ curMethod[i - 1].module = curMethod[1].text
      BY <3>1 DEF MembersInv
    <3>3. A!Closure # m.class
      BY <1>2, HomesAreClasses DEF A!AccessAssumption
    <3>4. \/ m.access = "public"
          \/ m.access = "internal" /\ HomeModule[m.class] = curMethod[i].module
      BY <1>3, <2>1, <3>2, <3>3 DEF A!ByAccess, A!Is, A!IsSubclassOf
    <3> QED
      BY <3>4 DEF A!IsAccessibleFromMethod, A!ByAccess
  <2> QED
    BY <2>2, <2>3
<1> QED
  BY <1>4, <1>5

LEMMA AccessInit == A!Init => AccessInv
<1> SUFFICES ASSUME A!Init PROVE AccessInv
  OBVIOUS
<1>1. pending \in Seq(A!Extension)
  <2>1. \/ pending = <<>>
        \/ \E e \in A!Extension : pending = <<e>> \/ pending = <<e, [e EXCEPT !.adds = None]>>
    BY DEF A!Init
  <2>2. CASE pending = <<>>
    BY ONLY <2>2
  <2>3. ASSUME NEW e \in A!Extension,
               pending = <<e>> \/ pending = <<e, [e EXCEPT !.adds = None]>>
        PROVE  pending \in Seq(A!Extension)
    <3>1. PICK f : f = [e EXCEPT !.adds = None]
      OBVIOUS
    <3>2. f \in A!Extension
      BY ONLY <3>1, e \in A!Extension DEF A!Extension
    <3>3. pending = <<e>> \/ pending = <<e, f>>
      BY ONLY <2>3, <3>1
    <3>4. <<e>> \in Seq(A!Extension)
      BY ONLY e \in A!Extension
    <3>5. <<e, f>> \in Seq(A!Extension)
      BY ONLY e \in A!Extension, <3>2
    <3> QED
      BY ONLY <3>3, <3>4, <3>5
  <2> QED
    BY ONLY <2>1, <2>2, <2>3
<1>2. merged = <<>> /\ curMethod = <<>> /\ verdict = "open"
  BY DEF A!Init
<1>3. \A c \in HomeClasses : nameSet[c] # None => nameSet[c].class = c /\ nameSet[c].ext = None
  BY DEF A!Init, A!Member
<1> QED
  BY <1>1, <1>2, <1>3 DEF AccessInv, MembersInv, OfClass, A!HiddenStaysInside, A!LetThrough

LEMMA AccessStep == AccessInv /\ [A!Next]_(A!vars) => AccessInv'
<1> SUFFICES ASSUME AccessInv, [A!Next]_(A!vars) PROVE AccessInv'
  OBVIOUS
<1> USE DEF AccessInv
<1>1. verdict' # "allowed" => A!HiddenStaysInside'
  BY DEF A!HiddenStaysInside, A!LetThrough, A!Is, A!IsSubclassOf, A!Writer, A!Nested
<1>2. CASE A!mergeExtensions
  <2>1. /\ pending # <<>> /\ verdict' # "allowed" /\ UNCHANGED curMethod
        /\ \/ UNCHANGED <<nameSet, pending, merged>>
           \/ /\ pending' = Tail(pending) /\ merged' = Append(merged, Head(pending))
              /\ \/ nameSet' = nameSet
                 \/ nameSet' = [nameSet EXCEPT ![Head(pending).class] =
                       A!Member(Head(pending).adds.kind, Head(pending).adds.access,
                                Head(pending).class, Len(merged) + 1)]
    BY <1>2 DEF A!mergeExtensions
  <2>2. CASE UNCHANGED <<nameSet, pending, merged>>
    BY <1>1, <2>1, <2>2 DEF MembersInv, OfClass
  <2>3. CASE pending' = Tail(pending) /\ merged' = Append(merged, Head(pending))
    <3>1. PICK e : e = Head(pending)
      OBVIOUS
    <3>2. e \in A!Extension /\ pending' \in Seq(A!Extension)
      BY <2>1, <2>3, <3>1, HeadTailProperties DEF MembersInv
    <3>3. /\ merged' \in Seq(A!Extension) /\ Len(merged) \in Nat
          /\ Len(merged') = Len(merged) + 1
          /\ merged'[Len(merged) + 1] = e
          /\ \A i \in 1..Len(merged) : merged'[i] = merged[i]
      BY <2>3, <3>1, <3>2, AppendProperties, LenProperties DEF MembersInv
    <3>4. \A c, x : OfClass(c, x) => (x # None => x \in 1..Len(merged') /\ merged'[x].class = c)
      BY <3>3 DEF OfClass
    <3>5. \A c \in HomeClasses : nameSet'[c] # None =>
             /\ nameSet'[c].class = c
             /\ nameSet'[c].ext # None =>
                   nameSet'[c].ext \in 1..Len(merged') /\ merged'[nameSet'[c].ext].class = c
      <4>1. CASE nameSet' = nameSet
        BY <3>4, <4>1 DEF MembersInv
      <4>2. CASE nameSet' = [nameSet EXCEPT ![e.class] =
                       A!Member(e.adds.kind, e.adds.access, e.class, Len(merged) + 1)]
        <5>1. PICK m : m = A!Member(e.adds.kind, e.adds.access, e.class, Len(merged) + 1)
          OBVIOUS
        <5>2. m.class = e.class /\ m.ext = Len(merged) + 1
          BY <5>1 DEF A!Member
        <5>3. \A c \in HomeClasses : nameSet'[c] = nameSet[c] \/ (nameSet'[c] = m /\ c = e.class)
          BY <4>2, <5>1
        <5>4. Len(merged) + 1 \in 1..Len(merged')
          BY <3>3
        <5> QED
          BY <3>3, <3>4, <5>2, <5>3, <5>4 DEF MembersInv
      <4> QED
        BY <2>1, <2>3, <3>1, <3>2, <4>1, <4>2
    <3> QED
      BY <1>1, <2>1, <3>2, <3>3, <3>4, <3>5 DEF MembersInv, OfClass
  <2> QED
    BY <2>1, <2>2, <2>3
<1>3. CASE A!inferMethod
  <2>1. /\ verdict' # "allowed" /\ UNCHANGED <<nameSet, pending, merged>>
        /\ \E c \in HomeClasses, e \in {None} \cup DOMAIN merged, u \in BOOLEAN :
              /\ e # None => merged[e].class = c
              /\ curMethod' = <<[class |-> c, ext |-> e, unsafe |-> u, module |-> HomeModule[c],
                                 text |-> IF e = None THEN HomeModule[c] ELSE merged[e].module]>>
    BY <1>3 DEF A!inferMethod
  <2>2. PICK c \in HomeClasses, e \in {None} \cup DOMAIN merged, u \in BOOLEAN :
              /\ e # None => merged[e].class = c
              /\ curMethod' = <<[class |-> c, ext |-> e, unsafe |-> u, module |-> HomeModule[c],
                                 text |-> IF e = None THEN HomeModule[c] ELSE merged[e].module]>>
    BY <2>1
  <2>3. DOMAIN merged = 1..Len(merged) /\ \A i \in 1..Len(merged) : merged[i] \in A!Extension
    BY LenProperties, ElementOfSeq DEF MembersInv
  <2>4. PICK r : r = [class |-> c, ext |-> e, unsafe |-> u, module |-> HomeModule[c],
                      text |-> IF e = None THEN HomeModule[c] ELSE merged[e].module]
    OBVIOUS
  <2>5. r \in MethodRecord
    <3>1. HomeModule[c] \in A!Modules
      BY DEF A!Modules
    <3>2. e \in {None} \cup Nat
      BY <2>3
    <3>3. e # None => merged[e].module \in A!Modules
      BY <2>3 DEF A!Extension
    <3> QED
      BY <2>4, <3>1, <3>2, <3>3 DEF MethodRecord
  <2>6. curMethod' \in Seq(MethodRecord) /\ Len(curMethod') = 1 /\ curMethod'[1] = r
    BY <2>2, <2>4, <2>5
  <2>7. OfClass(r.class, r.ext)
    BY <2>2, <2>3, <2>4 DEF OfClass
  <2>8. r.module = HomeModule[r.class] /\ r.class \in HomeClasses
    BY <2>4
  <2>9. \A i \in 2..Len(curMethod') : FALSE
    BY ONLY <2>6
  <2>10. MembersInv'
    BY ONLY MembersInv, <2>1, <2>6, <2>7, <2>8, <2>9 DEF MembersInv, OfClass
  <2> QED
    BY <1>1, <2>1, <2>10
<1>4. CASE A!inferClosureExpr
  <2>1. /\ verdict' # "allowed" /\ UNCHANGED <<nameSet, pending, merged>>
        /\ curMethod # <<>>
        /\ curMethod' = Append(curMethod, [class |-> A!Closure, ext |-> None, unsafe |-> FALSE,
                               module |-> Head(curMethod).text, text |-> Head(curMethod).text])
    BY <1>4 DEF A!inferClosureExpr
  <2>2. PICK r : r = [class |-> A!Closure, ext |-> None, unsafe |-> FALSE,
                      module |-> Head(curMethod).text, text |-> Head(curMethod).text]
    OBVIOUS
  <2>3. /\ Head(curMethod) = curMethod[1] /\ curMethod[1] \in MethodRecord
        /\ Len(curMethod) >= 1 /\ Len(curMethod) \in Nat
    <3>1. curMethod \in Seq(MethodRecord)
      BY DEF MembersInv
    <3> QED
      BY ONLY <2>1, <3>1, HeadTailProperties, LenProperties, EmptySeq, ElementOfSeq
  <2>4. r \in MethodRecord
    BY <2>2, <2>3 DEF MethodRecord
  <2>5. /\ curMethod' \in Seq(MethodRecord) /\ Len(curMethod') = Len(curMethod) + 1
        /\ curMethod'[Len(curMethod) + 1] = r
        /\ \A i \in 1..Len(curMethod) : curMethod'[i] = curMethod[i]
    <3>1. curMethod \in Seq(MethodRecord) /\ curMethod' = Append(curMethod, r)
      BY <2>1, <2>2 DEF MembersInv
    <3> QED
      BY ONLY <2>4, <3>1, AppendProperties
  <2>6. curMethod'[1] = curMethod[1]
    BY ONLY <2>3, <2>5
  <2>7. \A i \in 2..Len(curMethod') : i \in 2..Len(curMethod) \/ i = Len(curMethod) + 1
    BY <2>3, <2>5
  <2>8. \A i \in 2..Len(curMethod') :
           /\ curMethod'[i].class = A!Closure /\ curMethod'[i].ext = None
           /\ curMethod'[i].module = curMethod[1].text
    BY <2>2, <2>3, <2>5, <2>7 DEF MembersInv
  <2> QED
    BY <1>1, <2>1, <2>5, <2>6, <2>8 DEF MembersInv, OfClass
<1>5. ASSUME NEW c \in HomeClasses, NEW s \in BOOLEAN, A!inferCallExpr(c, s)
      PROVE  AccessInv'
  <2>0. PICK m : m = IF ~s THEN A!MyMethod(c, {"method"})
                     ELSE IF A!MyConst(c) # None THEN A!MyConst(c) ELSE A!StaticMethodOrCtor(c)
    OBVIOUS
  <2>1. /\ curMethod # <<>> /\ UNCHANGED <<nameSet, pending, merged, curMethod>>
        /\ callee' = m
        /\ verdict' = "allowed" => /\ m # None
                                   /\ A!IsAccessibleFromMethod(m, Len(curMethod))
                                   /\ m.kind = "ecall" => A!IsUnsafe(Len(curMethod))
    BY <1>5, <2>0 DEF A!inferCallExpr, A!Target
  <2>2. MembersInv'
    BY <2>1 DEF MembersInv, OfClass
  <2>3. ASSUME verdict' = "allowed" PROVE A!HiddenStaysInside'
    <3>0. \/ m = A!MyMethod(c, {"method"}) \/ m = A!MyConst(c) \/ m = A!StaticMethodOrCtor(c)
      BY <2>0
    <3>1. m \in A!Declared
      BY ONLY MembersInv, c \in HomeClasses, <2>1, <2>3, <3>0, TargetDeclared
    <3>5. A!IsAccessibleFromMethod(m, Len(curMethod)) /\ callee' = m
      BY ONLY <2>1, <2>3
    <3>2. /\ m.access \in {"private", "protected"} => A!Is(curMethod[1].class, m.class)
          /\ (m.access = "private" /\ curMethod[1].ext # None /\ Len(curMethod) <= 1)
                => m.ext = curMethod[1].ext
      BY ONLY MembersInv, <2>1, <3>1, <3>5, AccessMeans
    <3>3. m.kind = "ecall" => curMethod[1].unsafe
      BY ONLY <2>1, <2>3 DEF A!IsUnsafe
    <3>4. Len(curMethod) \in Nat
      BY LenProperties DEF MembersInv
    <3> QED
      BY ONLY <2>1, <3>5, <3>2, <3>3, <3>4
         DEF A!HiddenStaysInside, A!LetThrough, A!Writer, A!Nested, A!Is, A!IsSubclassOf
  <2> QED
    BY <1>1, <2>2, <2>3
<1>6. CASE UNCHANGED A!vars
  BY <1>6 DEF A!vars, MembersInv, OfClass, A!HiddenStaysInside, A!LetThrough, A!Writer,
              A!Nested, A!Is, A!IsSubclassOf
<1> QED
  BY <1>2, <1>3, <1>4, <1>5, <1>6 DEF A!Next

\* Hidden members stay inside of their class and of the classes below, private members
\* of an extension inside of that extension, and calls out of the language in unsafe
\* methods; and a closure loses nothing of what the method around it may use: for any
\* classes, extensions and depth of closures.
THEOREM MembersStayHidden == MCSpec => []CallsMayBeMade
<1> DEFINE Inv == which = "access" => AccessInv
<1>1. MCInit => Inv
  BY AccessInit DEF MCInit
<1>2. Inv /\ [MCNext]_allVars => Inv'
  <2> SUFFICES ASSUME Inv, [MCNext]_allVars, which' = "access" PROVE AccessInv'
    OBVIOUS
  <2>1. which = "access"
    BY DEF MCNext, allVars, common
  <2>2. [A!Next]_(A!vars)
    BY <2>1 DEF MCNext, allVars, common, madeVars, accessVars, A!vars
  <2> QED
    BY <2>1, <2>2, AccessStep
<1>3. Inv => CallsMayBeMade
  BY ClosuresKeepAccess DEF AccessInv, CallsMayBeMade
<1> QED
  BY <1>1, <1>2, <1>3, PTL DEF MCSpec

-----------------------------------------------------------------------------
(***************************************************************************)
(* Closures: the transformer goes from a method to the closures in it, so  *)
(* none is left out when the queue is empty; and what one method captures  *)
(* is never taken away again by another.                                   *)
(***************************************************************************)
\* A set of numbers has a least one.
LEMMA LeastNumber ==
    ASSUME NEW S, S \subseteq Nat, S # {}
    PROVE  \E k \in S : \A j \in S : k <= j
<1> DEFINE less == {ss \in Nat \X Nat : ss[1] < ss[2]}
<1>1. \A j, k \in S : j < k => <<j, k>> \in less
  OBVIOUS
<1>2. IsWellFoundedOn(less, Nat)
  BY NatLessThanWellFounded DEF OpToRel
<1> HIDE DEF less
<1>3. PICK k \in S : \A j \in S : ~(<<j, k>> \in less)
  BY <1>2, WFMin
<1>4. \A j \in S : ~(j < k)
  BY <1>1, <1>3
<1> QED
  BY <1>4

AroundOf == [m \in K!Method |-> K!Around(m)]
ClassEntries  == {K!Class(m) : m \in K!Method} \cup {<<"env", m>> : m \in K!Method}
EnvFields   == {K!Upper, K!Self} \cup {K!Name(m) : m \in K!Method}

ProgramInv ==
    /\ parent \in [K!Method -> K!Method \cup {K!NoMethod}] /\ parent[K!Root] = K!NoMethod
    /\ \A c \in K!Closure : parent[c] \in K!Method /\ parent[c] < c
    /\ use \in [K!Method -> K!Uses]
    /\ \A m \in K!Method : use[m][1] = "name" => \E d \in {m} \cup AroundOf[m] : use[m] = K!Name(d)
FoundInv ==
    /\ cur \in K!Method \cup {K!NoMethod} /\ queue \in Seq(ClassEntries)
    /\ rest \subseteq IF cur = K!NoMethod THEN {}
                      ELSE {<<"closure", c>> : c \in K!ClosuresOf(cur)} \cup {use[cur]}
    /\ env \subseteq K!Method /\ captured \subseteq K!Method /\ selfCaptured \subseteq K!Method
    /\ envFields \in [K!Method -> SUBSET EnvFields]
    /\ \A m \in captured : m \in env /\ K!Name(m) \in envFields[m]
    /\ \A m \in env : envFields[m] # {}
\* The methods whose use is at the end of its path.
Served == {m \in K!Method :
    /\ \A d \in K!Method : use[m] = K!Name(d) /\ d # m =>
          /\ \A k \in AroundOf[m] : k = d \/ d \in AroundOf[k] =>
                k \in env /\ (k # d => K!Upper \in envFields[k])
          /\ K!Name(d) \in envFields[d] /\ d \in captured
    /\ use[m] = <<"field">> /\ m # K!Root =>
          /\ \A k \in AroundOf[m] : k = K!Root \/ K!Root \in AroundOf[k] =>
                k \in env /\ (k # K!Root => K!Upper \in envFields[k])
          /\ K!Self \in envFields[K!Root] /\ K!Root \in selfCaptured}
\* The transformer has been through the methods D, but for what is left of curMethod.
Through(D) ==
    /\ cur \in D \cup {K!NoMethod}
    /\ K!Root \in D \/ K!Class(K!Root) \in Waiting
    /\ \A c \in K!Closure : parent[c] \in D =>
          c \in D \/ K!Class(c) \in Waiting \/ (parent[c] = cur /\ <<"closure", c>> \in rest)
    /\ \A m \in D : m \in Served \/ (m = cur /\ use[m] \in rest)
ProgressInv ==
    /\ phase \in {"infer", "layout", "emit", "failed"}
    /\ phase = "infer" => \E D \in SUBSET K!Method : Through(D)
    /\ phase \in {"layout", "emit"} => Served = K!Method
    /\ phase = "emit" => resolved = envFields
ClosuresInv == ProgramInv /\ FoundInv /\ ProgressInv

\* Root is around every closure: from the least method of a set that has the parents
\* of its members there is nowhere to go.
LEMMA RootIsAround ==
    ASSUME ProgramInv, K!ClosuresAssumption, NEW m \in K!Closure
    PROVE  K!Root \in AroundOf[m]
<1>1. m \in K!Method /\ AroundOf[m] = K!Around(m) /\ parent[m] \in K!Method /\ parent[m] # K!NoMethod
  BY DEF AroundOf, K!Closure, K!Method, ProgramInv, K!NoMethod, K!ClosuresAssumption
<1>2. ASSUME NEW S \in SUBSET K!Method, parent[m] \in S, K!HasParents(S) PROVE K!Root \in S
  <2>1. S \subseteq Nat /\ S # {}
    BY <1>2 DEF K!Method
  <2>2. PICK k \in S : \A j \in S : k <= j
    BY <2>1, LeastNumber
  <2>3. CASE k = K!Root
    BY <2>3
  <2>4. CASE k # K!Root
    <3>1. k \in K!Closure
      BY <2>4 DEF K!Method, K!Closure, K!Root, K!ClosuresAssumption
    <3>2. parent[k] \in K!Method /\ parent[k] < k /\ parent[k] # K!NoMethod
      BY <3>1 DEF ProgramInv, K!Method, K!NoMethod
    <3>3. parent[k] \in S
      BY <1>2, <3>2 DEF K!HasParents
    <3>4. k \in Nat /\ parent[k] \in Nat
      BY <2>1, <3>3
    <3> QED
      BY <2>2, <3>2, <3>3, <3>4
  <2> QED
    BY <2>3, <2>4
<1>3. K!Root \in K!Method
  BY DEF K!Root, K!Method, K!ClosuresAssumption
<1> QED
  BY <1>1, <1>2, <1>3 DEF K!Around

LEMMA AroundIsMethods ==
    ASSUME NEW m \in K!Method PROVE AroundOf[m] = K!Around(m) /\ AroundOf[m] \subseteq K!Method
BY DEF AroundOf, K!Around

\* Names, fields and classes are told apart.
LEMMA WordsDiffer ==
    /\ \A m, d \in K!Method : K!Name(m) = K!Name(d) => m = d
    /\ \A m \in K!Method : K!Name(m)[1] = "name" /\ K!Name(m)[2] = m /\ K!Name(m) # K!Self
                         /\ K!Name(m) # K!Idle /\ K!Name(m) # <<"field">> /\ K!Name(m) # <<"this">>
    /\ <<"field">>[1] = "field" /\ <<"this">>[1] = "this" /\ K!Idle[1] = "idle"
    /\ \A m, d \in K!Method : K!Class(m) = K!Class(d) => m = d
    /\ \A m, d \in K!Method : K!Class(m) # <<"env", d>> /\ K!Class(m)[1] = "class" /\ K!Class(m)[2] = m
                            /\ <<"env", d>>[1] = "env" /\ <<"env", d>>[2] = d
    /\ \A c \in K!Closure : <<"closure", c>> \notin K!Uses
BY DEF K!Name, K!Self, K!Idle, K!Class, K!Uses

LEMMA ClosuresInit == K!ClosuresAssumption /\ K!Init => ClosuresInv
<1> SUFFICES ASSUME K!ClosuresAssumption, K!Init PROVE ClosuresInv
  OBVIOUS
<1>1. /\ use \in [K!Method -> K!Uses]
      /\ queue = <<K!Class(K!Root)>> /\ cur = K!NoMethod /\ rest = {}
      /\ env = {} /\ envFields = [m \in K!Method |-> {}] /\ resolved = [m \in K!Method |-> {}]
      /\ selfCaptured = {} /\ captured = {}
      /\ phase = "infer"
  BY DEF K!Init
<1>2. PICK p \in [K!Closure -> K!Method] : (\A c \in K!Closure : p[c] < c) /\ parent = K!Parents(p)
  BY DEF K!Init
<1>3. K!Root \in K!Method /\ K!Root \notin K!Closure /\ K!Method = K!Closure \cup {K!Root}
  BY DEF K!Root, K!Method, K!Closure, K!ClosuresAssumption
<1>4. /\ parent \in [K!Method -> K!Method \cup {K!NoMethod}] /\ parent[K!Root] = K!NoMethod
      /\ \A c \in K!Closure : parent[c] \in K!Method /\ parent[c] < c
  BY <1>2, <1>3 DEF K!Parents
<1>5. \A m \in K!Method : use[m][1] = "name" => \E d \in {m} \cup AroundOf[m] : use[m] = K!Name(d)
  <2> SUFFICES ASSUME NEW m \in K!Method, use[m][1] = "name"
               PROVE  \E d \in {m} \cup AroundOf[m] : use[m] = K!Name(d)
    OBVIOUS
  <2>1. use[m][2] \in {m} \cup AroundOf[m]
    BY AroundIsMethods DEF K!Init
  <2>2. PICK d \in K!Method : use[m] = K!Name(d)
    BY <1>1, WordsDiffer DEF K!Uses
  <2> QED
    BY <2>1, <2>2, WordsDiffer
<1>6. ProgramInv
  BY <1>1, <1>4, <1>5 DEF ProgramInv
<1>7. queue \in Seq(ClassEntries) /\ K!Class(K!Root) \in Waiting
  <2>1. K!Class(K!Root) \in ClassEntries
    BY <1>3 DEF ClassEntries
  <2>2. queue \in Seq(ClassEntries) /\ Len(queue) = 1 /\ queue[1] = K!Class(K!Root)
    BY <1>1, <2>1
  <2>3. 1 \in 1..Len(queue)
    BY <2>2
  <2> QED
    BY <2>2, <2>3 DEF Waiting
<1>8. FoundInv
  BY <1>1, <1>7 DEF FoundInv
<1>9. Through({})
  BY <1>1, <1>7 DEF Through
<1>10. ProgressInv
  <2>1. {} \in SUBSET K!Method
    OBVIOUS
  <2> QED
    BY <1>1, <1>9, <2>1 DEF ProgressInv
<1> QED
  BY <1>6, <1>8, <1>10 DEF ClosuresInv

LEMMA SourceStays ==
    ASSUME ProgramInv, UNCHANGED K!source
    PROVE  ProgramInv' /\ AroundOf' = AroundOf
           /\ K!ClosuresOf(cur)' = {c \in K!Closure : parent[c] = cur'}
<1>1. parent' = parent /\ use' = use
  BY DEF K!source
<1>2. AroundOf' = AroundOf
  BY <1>1 DEF AroundOf, K!Around, K!HasParents
<1> QED
  BY <1>1, <1>2 DEF ProgramInv, K!ClosuresOf

\* Fields are added to environments and never taken away.
Growing ==
    /\ env \subseteq env' /\ captured \subseteq captured' /\ selfCaptured \subseteq selfCaptured'
    /\ \A m \in K!Method : envFields[m] \subseteq envFields'[m]

LEMMA ServedStay ==
    ASSUME K!ClosuresAssumption, ProgramInv, UNCHANGED K!source, Growing
    PROVE  Served \subseteq Served'
<1>1. use' = use /\ AroundOf' = AroundOf
  BY SourceStays DEF K!source
<1>2. K!Root \in K!Method
  BY DEF K!Root, K!Method, K!ClosuresAssumption
<1>3. \A m \in K!Method : AroundOf[m] \subseteq K!Method
  BY AroundIsMethods
<1> QED
  BY <1>1, <1>2, <1>3, Zenon DEF Served, Growing

\* What is in the queue, after its first class is taken, or after more are put in.
LEMMA QueueTail ==
    ASSUME queue \in Seq(ClassEntries), queue # <<>>, queue' = Tail(queue)
    PROVE  queue' \in Seq(ClassEntries) /\ Head(queue) \in ClassEntries
           /\ Waiting \subseteq Waiting' \cup {Head(queue)}
<1>1. PICK n \in Nat : Len(queue) = n + 1
  BY EmptySeq
<1>2. /\ queue' \in Seq(ClassEntries) /\ Len(queue') = n /\ Head(queue) = queue[1]
      /\ Head(queue) \in ClassEntries
      /\ \A i \in 1..n : queue'[i] = queue[i + 1]
  BY <1>1, HeadTailProperties
<1>3. ASSUME NEW i \in 1..(n + 1), i # 1 PROVE queue[i] \in Waiting'
  <2>1. i - 1 \in 1..n /\ (i - 1) + 1 = i
    BY <1>3
  <2>2. queue'[i - 1] = queue[i]
    BY <1>2, <2>1
  <2> QED
    BY <1>2, <2>1, <2>2 DEF Waiting
<1> QED
  BY <1>1, <1>2, <1>3 DEF Waiting

LEMMA QueueMore ==
    ASSUME queue \in Seq(ClassEntries), NEW s \in Seq(ClassEntries), queue' = queue \o s
    PROVE  queue' \in Seq(ClassEntries) /\ Waiting \subseteq Waiting'
<1>1. PICK n \in Nat : Len(queue) = n
  OBVIOUS
<1>2. PICK k \in Nat : Len(s) = k
  OBVIOUS
<1>3. queue' \in Seq(ClassEntries) /\ Len(queue') = n + k
  BY <1>1, <1>2, ConcatProperties
<1>4. \A i \in 1..(n + k) : queue'[i] = IF i <= n THEN queue[i] ELSE s[i - n]
  BY <1>1, <1>2, ConcatProperties
<1>5. \A i \in 1..n : i \in 1..(n + k) /\ i <= n
  OBVIOUS
<1>6. \A i \in 1..n : queue'[i] = queue[i]
  BY <1>4, <1>5
<1> QED
  BY <1>1, <1>3, <1>5, <1>6 DEF Waiting

LEMMA QueueOne ==
    ASSUME queue \in Seq(ClassEntries), NEW e \in ClassEntries, queue' = Append(queue, e)
    PROVE  queue' \in Seq(ClassEntries) /\ Waiting \subseteq Waiting' /\ e \in Waiting'
<1>1. PICK n \in Nat : Len(queue) = n
  OBVIOUS
<1>2. /\ queue' \in Seq(ClassEntries) /\ Len(queue') = n + 1 /\ queue'[n + 1] = e
      /\ \A i \in 1..n : queue'[i] = queue[i]
  BY <1>1, AppendProperties
<1>3. \A i \in 1..n : i \in 1..(n + 1)
  OBVIOUS
<1>4. n + 1 \in 1..(n + 1)
  OBVIOUS
<1> QED
  BY <1>1, <1>2, <1>3, <1>4 DEF Waiting

LEMMA DequeueMethodStep ==
    ASSUME K!ClosuresAssumption, ClosuresInv, K!DequeueMethod
    PROVE  ClosuresInv'
<1>1. /\ phase = "infer" /\ cur = K!NoMethod /\ queue # <<>> /\ Head(queue)[1] = "class"
      /\ queue' = Tail(queue)
      /\ UNCHANGED <<K!source, env, envFields, resolved, selfCaptured, captured, phase>>
  BY DEF K!DequeueMethod
<1>2. PICK m : m = Head(queue)[2]
  OBVIOUS
<1>3. cur' = m /\ rest' = {<<"closure", c>> : c \in K!ClosuresOf(m)} \cup {use[m]}
  BY <1>2 DEF K!DequeueMethod
<1>4. queue' \in Seq(ClassEntries) /\ Head(queue) \in ClassEntries
      /\ Waiting \subseteq Waiting' \cup {Head(queue)}
  BY <1>1, QueueTail DEF ClosuresInv, FoundInv
<1>5. m \in K!Method /\ Head(queue) = K!Class(m)
  BY <1>1, <1>2, <1>4, WordsDiffer DEF ClassEntries
<1>6. ProgramInv' /\ parent' = parent /\ use' = use /\ m # K!NoMethod
  BY <1>1, <1>5, SourceStays DEF ClosuresInv, K!source, K!Method, K!NoMethod
<1>7. FoundInv'
  <2>1. (rest \subseteq {<<"closure", c>> : c \in K!ClosuresOf(cur)} \cup {use[cur]})'
    BY <1>3, <1>6 DEF K!ClosuresOf
  <2> QED
    BY <1>1, <1>3, <1>4, <1>5, <1>6, <2>1 DEF ClosuresInv, FoundInv
<1>8. Served \subseteq Served'
  BY <1>1, ServedStay DEF Growing, ClosuresInv
<1>9. PICK D \in SUBSET K!Method : Through(D)
  BY <1>1 DEF ClosuresInv, ProgressInv
<1>10. rest = {}
  BY <1>1 DEF ClosuresInv, FoundInv
<1>11. /\ K!Root \in D \/ K!Class(K!Root) \in Waiting
       /\ \A c \in K!Closure : parent[c] \in D => c \in D \/ K!Class(c) \in Waiting
       /\ D \subseteq Served
  BY <1>9, <1>10 DEF Through
<1>12. PICK E : E = D \cup {m}
  OBVIOUS
<1>13. \A c \in K!Method : K!Class(c) \in Waiting => K!Class(c) \in Waiting' \/ c \in E
  BY <1>4, <1>5, <1>12, WordsDiffer
<1>14. K!Root \in E \/ K!Class(K!Root) \in Waiting'
  <2>1. K!Root \in K!Method
    BY DEF K!Root, K!Method, K!ClosuresAssumption
  <2> QED
    BY <1>11, <1>12, <1>13, <2>1
<1>15. ASSUME NEW c \in K!Closure, parent[c] \in E
       PROVE  c \in E \/ K!Class(c) \in Waiting' \/ (parent[c] = m /\ <<"closure", c>> \in rest')
  <2>1. CASE parent[c] = m
    BY <1>3, <2>1 DEF K!ClosuresOf
  <2>2. CASE parent[c] \in D
    <3>1. c \in K!Method
      BY DEF K!Closure, K!Method
    <3> QED
      BY <1>11, <1>12, <1>13, <2>2, <3>1
  <2> QED
    BY <1>12, <1>15, <2>1, <2>2
<1>16. \A k \in E : k \in Served' \/ (k = m /\ use[k] \in rest')
  BY <1>3, <1>8, <1>11, <1>12
<1>17. Through(E)'
  BY <1>3, <1>6, <1>12, <1>14, <1>15, <1>16 DEF Through, Waiting, Served, K!Class
<1>18. ProgressInv'
  BY <1>1, <1>5, <1>12, <1>17 DEF ProgressInv
<1> QED
  BY <1>6, <1>7, <1>18 DEF ClosuresInv

\* A step within curMethod: what is put off is done, or goes into the queue.
LEMMA ThroughStays ==
    ASSUME K!ClosuresAssumption, ProgramInv, UNCHANGED <<K!source, cur>>, Growing,
           Waiting \subseteq Waiting', NEW D \in SUBSET K!Method, Through(D),
           \A c \in K!Closure : parent[c] = cur /\ <<"closure", c>> \in rest =>
               <<"closure", c>> \in rest' \/ K!Class(c) \in Waiting',
           cur # K!NoMethod /\ use[cur] \in rest => use[cur] \in rest' \/ cur \in Served'
    PROVE  Through(D)'
<1>1. Served \subseteq Served'
  BY ServedStay
<1>2. parent' = parent /\ use' = use /\ cur' = cur
  BY DEF K!source
<1>3. K!NoMethod \notin K!Method
  BY DEF K!NoMethod, K!Method
<1>4. \A m \in D : m \in Served' \/ (m = cur' /\ use'[m] \in rest')
  BY <1>1, <1>2, <1>3 DEF Through
<1>5. \A c \in K!Closure : parent'[c] \in D =>
          c \in D \/ K!Class(c) \in Waiting' \/ (parent'[c] = cur' /\ <<"closure", c>> \in rest')
  BY <1>2 DEF Through
<1>6. cur' \in D \cup {K!NoMethod} /\ (K!Root \in D \/ K!Class(K!Root) \in Waiting')
  BY <1>2 DEF Through
<1> QED
  BY <1>4, <1>5, <1>6 DEF Through, K!Class

LEMMA DequeueEnvStep ==
    ASSUME K!ClosuresAssumption, ClosuresInv, K!DequeueEnv
    PROVE  ClosuresInv'
<1>1. /\ phase = "infer" /\ cur = K!NoMethod /\ queue # <<>> /\ Head(queue)[1] = "env"
      /\ queue' = Tail(queue)
      /\ UNCHANGED <<K!source, cur, rest, env, envFields, selfCaptured, captured, phase>>
  BY DEF K!DequeueEnv
<1>2. queue' \in Seq(ClassEntries) /\ Head(queue) \in ClassEntries
      /\ Waiting \subseteq Waiting' \cup {Head(queue)}
  BY <1>1, QueueTail DEF ClosuresInv, FoundInv
<1>3. \A m \in K!Method : K!Class(m) # Head(queue)
  BY <1>1, WordsDiffer, Zenon
<1>4. ProgramInv' /\ parent' = parent /\ use' = use
  BY <1>1, SourceStays DEF ClosuresInv, K!source
<1>5. FoundInv'
  BY <1>1, <1>2, <1>4 DEF ClosuresInv, FoundInv, K!ClosuresOf
<1>6. PICK D \in SUBSET K!Method : Through(D)
  BY <1>1 DEF ClosuresInv, ProgressInv
<1>7. Served \subseteq Served'
  BY <1>1, ServedStay DEF Growing, ClosuresInv
<1>8. \A m \in K!Method : K!Class(m) \in Waiting => K!Class(m) \in Waiting'
  BY <1>2, <1>3
<1>9. K!Root \in K!Method /\ K!Closure \subseteq K!Method
  BY DEF K!Root, K!Method, K!Closure, K!ClosuresAssumption
<1>10. Through(D)'
  <2>1. cur' \in D \cup {K!NoMethod} /\ (K!Root \in D \/ K!Class(K!Root) \in Waiting')
    BY <1>1, <1>6, <1>8, <1>9 DEF Through
  <2>2. \A c \in K!Closure : parent'[c] \in D =>
          c \in D \/ K!Class(c) \in Waiting' \/ (parent'[c] = cur' /\ <<"closure", c>> \in rest')
    BY <1>1, <1>4, <1>6, <1>8, <1>9 DEF Through
  <2>3. \A m \in D : m \in Served' \/ (m = cur' /\ use'[m] \in rest')
    BY <1>1, <1>4, <1>6, <1>7 DEF Through
  <2> QED
    BY <2>1, <2>2, <2>3 DEF Through, K!Class
<1>11. ProgressInv'
  BY <1>1, <1>10 DEF ProgressInv
<1> QED
  BY <1>4, <1>5, <1>11 DEF ClosuresInv

LEMMA ClosureStep ==
    ASSUME K!ClosuresAssumption, ClosuresInv, NEW c \in K!Closure, K!inferClosureExpr(c)
    PROVE  ClosuresInv'
<1>1. /\ phase = "infer" /\ cur # K!NoMethod /\ <<"closure", c>> \in rest
      /\ rest' = rest \ {<<"closure", c>>} /\ queue' = Append(queue, K!Class(c))
      /\ UNCHANGED <<K!source, cur, env, envFields, resolved, selfCaptured, captured, phase>>
  BY DEF K!inferClosureExpr
<1>2. K!Class(c) \in ClassEntries
  BY DEF ClassEntries, K!Closure, K!Method
<1>3. queue' \in Seq(ClassEntries) /\ Waiting \subseteq Waiting' /\ K!Class(c) \in Waiting'
  BY <1>1, <1>2, QueueOne DEF ClosuresInv, FoundInv
<1>4. ProgramInv' /\ parent' = parent /\ use' = use
  BY <1>1, SourceStays DEF ClosuresInv, K!source
<1>5. FoundInv'
  BY <1>1, <1>3, <1>4 DEF ClosuresInv, FoundInv, K!ClosuresOf
<1>6. PICK D \in SUBSET K!Method : Through(D)
  BY <1>1 DEF ClosuresInv, ProgressInv
<1>7. Growing
  BY <1>1 DEF Growing
<1>8. \A d \in K!Closure :
         <<"closure", d>> \in rest => <<"closure", d>> \in rest' \/ K!Class(d) \in Waiting'
  <2>1. \A d \in K!Closure : <<"closure", d>> = <<"closure", c>> => d = c
    OBVIOUS
  <2> QED
    BY <1>1, <1>3, <2>1
<1>9. cur # K!NoMethod /\ use[cur] \in rest => use[cur] \in rest'
  <2>1. cur # K!NoMethod => use[cur] \in K!Uses
    BY DEF ClosuresInv, FoundInv, ProgramInv
  <2> QED
    BY <1>1, <2>1, WordsDiffer
<1>10. Through(D)'
  BY <1>1, <1>3, <1>6, <1>7, <1>8, <1>9, ThroughStays DEF ClosuresInv
<1>11. ProgressInv'
  BY <1>1, <1>10 DEF ProgressInv
<1> QED
  BY <1>4, <1>5, <1>11 DEF ClosuresInv

LEMMA MethodDoneStep ==
    ASSUME K!ClosuresAssumption, ClosuresInv, K!MethodInferred
    PROVE  ClosuresInv'
<1>1. /\ phase = "infer" /\ cur # K!NoMethod /\ rest = {} /\ cur' = K!NoMethod
      /\ UNCHANGED <<K!source, queue, rest, env, envFields, resolved, selfCaptured, captured, phase>>
  BY DEF K!MethodInferred
<1>2. ProgramInv' /\ parent' = parent /\ use' = use
  BY <1>1, SourceStays DEF ClosuresInv, K!source
<1>3. FoundInv'
  BY <1>1, <1>2 DEF ClosuresInv, FoundInv
<1>4. PICK D \in SUBSET K!Method : Through(D)
  BY <1>1 DEF ClosuresInv, ProgressInv
<1>5. Served \subseteq Served' /\ Waiting' = Waiting
  BY <1>1, ServedStay DEF Growing, ClosuresInv, Waiting
<1>6. Through(D)'
  <2>1. cur' \in D \cup {K!NoMethod} /\ (K!Root \in D \/ K!Class(K!Root) \in Waiting')
    BY <1>1, <1>4, <1>5 DEF Through
  <2>2. \A c \in K!Closure : parent'[c] \in D => c \in D \/ K!Class(c) \in Waiting'
    BY <1>1, <1>2, <1>4, <1>5 DEF Through
  <2>3. \A m \in D : m \in Served'
    BY <1>1, <1>4, <1>5 DEF Through
  <2> QED
    BY <2>1, <2>2, <2>3 DEF Through, K!Class
<1>7. ProgressInv'
  BY <1>1, <1>6 DEF ProgressInv
<1> QED
  BY <1>2, <1>3, <1>7 DEF ClosuresInv

\* When the queue is empty all methods have been gone through.
LEMMA QueueEmptyStep ==
    ASSUME K!ClosuresAssumption, ClosuresInv, K!QueueIsEmpty
    PROVE  ClosuresInv'
<1>1. /\ phase = "infer" /\ cur = K!NoMethod /\ queue = <<>> /\ phase' = "layout"
      /\ UNCHANGED <<K!source, queue, cur, rest, env, envFields, resolved, selfCaptured, captured>>
  BY DEF K!QueueIsEmpty
<1>2. ProgramInv' /\ parent' = parent /\ use' = use
  BY <1>1, SourceStays DEF ClosuresInv, K!source
<1>3. FoundInv'
  BY <1>1, <1>2 DEF ClosuresInv, FoundInv, K!ClosuresOf
<1>4. PICK D \in SUBSET K!Method : Through(D)
  BY <1>1 DEF ClosuresInv, ProgressInv
<1>5. Waiting = {} /\ rest = {}
  BY <1>1 DEF Waiting, ClosuresInv, FoundInv
<1>6. K!Root \in D /\ D \subseteq Served /\ \A c \in K!Closure : parent[c] \in D => c \in D
  BY <1>4, <1>5 DEF Through
<1>7. K!Method \subseteq D
  <2> SUFFICES ASSUME K!Method \ D # {} PROVE FALSE
    OBVIOUS
  <2>1. K!Method \ D \subseteq Nat
    BY DEF K!Method
  <2>2. PICK k \in K!Method \ D : \A j \in K!Method \ D : k <= j
    BY <2>1, LeastNumber
  <2>3. k \in K!Closure
    BY <1>6, <2>2 DEF K!Method, K!Closure, K!Root, K!ClosuresAssumption
  <2>4. parent[k] \in K!Method /\ parent[k] < k
    BY <2>3 DEF ClosuresInv, ProgramInv
  <2>5. parent[k] \in D
    BY <2>1, <2>2, <2>4 DEF K!Method
  <2> QED
    BY <1>6, <2>2, <2>3, <2>5
<1>8. Served = K!Method
  BY <1>6, <1>7 DEF Served
<1>9. Served \subseteq Served'
  BY <1>1, ServedStay DEF Growing, ClosuresInv
<1>10. Served' \subseteq K!Method
  BY DEF Served
<1>11. ProgressInv'
  BY <1>1, <1>8, <1>9, <1>10 DEF ProgressInv
<1> QED
  BY <1>2, <1>3, <1>11 DEF ClosuresInv

LEMMA LayoutStep ==
    ASSUME K!ClosuresAssumption, ClosuresInv, K!CalcGCMap
    PROVE  ClosuresInv'
<1>1. /\ phase = "layout" /\ phase' = "emit" /\ resolved' = [m \in K!Method |-> envFields[m]]
      /\ UNCHANGED <<K!source, queue, cur, rest, env, envFields, selfCaptured, captured>>
  BY DEF K!CalcGCMap, K!ResolvedLate
<1>2. ProgramInv' /\ parent' = parent /\ use' = use
  BY <1>1, SourceStays DEF ClosuresInv, K!source
<1>3. FoundInv'
  BY <1>1, <1>2 DEF ClosuresInv, FoundInv, K!ClosuresOf
<1>4. Served \subseteq Served' /\ Served' \subseteq K!Method
  BY <1>1, ServedStay DEF Growing, ClosuresInv, Served
<1>5. resolved' = envFields'
  BY <1>1 DEF ClosuresInv, FoundInv
<1>6. ProgressInv'
  BY <1>1, <1>4, <1>5 DEF ClosuresInv, ProgressInv
<1> QED
  BY <1>2, <1>3, <1>6 DEF ClosuresInv

LEMMA FieldsAdded ==
    ASSUME K!ClosuresAssumption, ProgramInv, FoundInv, NEW ms \in SUBSET K!Method,
           NEW f \in [K!Method -> SUBSET EnvFields], \A m \in ms : f[m] # {}, K!AddFields(ms, f)
    PROVE  /\ queue' \in Seq(ClassEntries) /\ Waiting \subseteq Waiting'
           /\ env' = env \cup ms /\ env' \subseteq K!Method
           /\ envFields' \in [K!Method -> SUBSET EnvFields]
           /\ \A m \in K!Method : envFields'[m] = envFields[m] \cup f[m]
           /\ \A m \in env' : envFields'[m] # {}
<1>1. /\ env' = env \cup ms /\ envFields' = [m \in K!Method |-> envFields[m] \cup f[m]]
      /\ \E s \in K!Outwards(ms \ env) : queue' = queue \o s
  BY DEF K!AddFields
<1>2. PICK new : new = ms \ env
  OBVIOUS
<1>3. PICK s \in K!Outwards(new) : queue' = queue \o s
  BY <1>1, <1>2
<1>4. K!Cardinality(new) \in Nat
  <2>1. IsFiniteSet(K!Method)
    BY FS_Interval DEF K!Method, K!ClosuresAssumption
  <2>2. K!Cardinality(new) = Cardinality(new)
    BY DEF K!Cardinality, Cardinality
  <2> QED
    BY <1>2, <2>1, <2>2, FS_Subset, FS_CardinalityType
<1>5. s \in Seq(ClassEntries)
  <2>1. PICK n \in Nat : n = K!Cardinality(new)
    BY <1>4
  <2>2. s \in [1..n -> {<<"env", m>> : m \in new}]
    BY <1>3, <2>1 DEF K!Outwards
  <2>3. {<<"env", m>> : m \in new} \subseteq ClassEntries
    BY <1>2 DEF ClassEntries
  <2>4. s \in [1..n -> ClassEntries]
    BY <2>2, <2>3
  <2> QED
    BY <2>4
<1>6. queue' \in Seq(ClassEntries) /\ Waiting \subseteq Waiting'
  BY <1>3, <1>5, QueueMore DEF FoundInv
<1>7. envFields' \in [K!Method -> SUBSET EnvFields]
      /\ \A m \in K!Method : envFields'[m] = envFields[m] \cup f[m]
  BY <1>1 DEF FoundInv
<1>8. \A m \in env' : envFields'[m] # {}
  BY <1>1, <1>7 DEF FoundInv
<1> QED
  BY <1>1, <1>6, <1>7, <1>8 DEF FoundInv

\* What inferring the use of curMethod does, whatever is used.
LEMMA UseStep ==
    ASSUME K!ClosuresAssumption, ClosuresInv, NEW u \in K!Uses, K!InferUse(u)
    PROVE  /\ phase = "infer" /\ cur \in K!Method /\ u = use[cur] /\ u \in rest
           /\ rest' = rest \ {u} /\ UNCHANGED <<K!source, cur>>
           /\ ProgramInv' /\ parent' = parent /\ use' = use /\ AroundOf' = AroundOf
           /\ \/ u = K!Idle /\ UNCHANGED <<queue, env, envFields, resolved, selfCaptured, captured, phase>>
              \/ \E d \in K!Method : u = K!Name(d) /\ K!CaptureName(d) /\ (d = cur \/ d \in K!Around(cur))
              \/ u = <<"field">> /\ K!CaptureField
              \/ u = <<"this">> /\ K!CaptureThis
<1>1. /\ phase = "infer" /\ cur # K!NoMethod /\ u \in rest
      /\ rest' = rest \ {u} /\ UNCHANGED <<K!source, cur>>
      /\ \/ u = K!Idle /\ UNCHANGED <<queue, env, envFields, resolved, selfCaptured, captured, phase>>
         \/ u[1] = "name"  /\ K!CaptureName(u[2])
         \/ u[1] = "field" /\ K!CaptureField
         \/ u[1] = "this"  /\ K!CaptureThis
  BY DEF K!InferUse
<1>2. cur \in K!Method
  BY <1>1 DEF ClosuresInv, FoundInv
<1>3. u = use[cur]
  <2>1. u \in {<<"closure", c>> : c \in K!ClosuresOf(cur)} \cup {use[cur]}
    BY <1>1 DEF ClosuresInv, FoundInv
  <2> QED
    BY <2>1, WordsDiffer DEF K!ClosuresOf
<1>4. ProgramInv' /\ parent' = parent /\ use' = use /\ AroundOf' = AroundOf
  BY <1>1, SourceStays DEF ClosuresInv, K!source
<1>5. u[1] = "field" => u = <<"field">>
  BY WordsDiffer DEF K!Uses
<1>6. u[1] = "this" => u = <<"this">>
  BY WordsDiffer DEF K!Uses
<1>7. u[1] = "name" => \E d \in K!Method : u = K!Name(d) /\ u[2] = d /\ (d = cur \/ d \in K!Around(cur))
  <2> SUFFICES ASSUME u[1] = "name"
               PROVE  \E d \in K!Method : u = K!Name(d) /\ u[2] = d /\ (d = cur \/ d \in K!Around(cur))
    OBVIOUS
  <2>1. PICK d \in {cur} \cup AroundOf[cur] : u = K!Name(d)
    BY <1>2, <1>3 DEF ClosuresInv, ProgramInv
  <2>2. d \in K!Method /\ (d = cur \/ d \in K!Around(cur))
    BY <1>2, AroundIsMethods
  <2> QED
    BY <2>1, <2>2, WordsDiffer
<1>8. \/ u = K!Idle /\ UNCHANGED <<queue, env, envFields, resolved, selfCaptured, captured, phase>>
      \/ \E d \in K!Method : u = K!Name(d) /\ K!CaptureName(d) /\ (d = cur \/ d \in K!Around(cur))
      \/ u = <<"field">> /\ K!CaptureField
      \/ u = <<"this">> /\ K!CaptureThis
  BY <1>1, <1>5, <1>6, <1>7
<1> QED
  BY <1>1, <1>2, <1>3, <1>4, <1>8

\* When the use has been found or captured, the invariant is as it was.
LEMMA UseFound ==
    ASSUME K!ClosuresAssumption, ClosuresInv, NEW u, phase = "infer", cur \in K!Method,
           u = use[cur], u \in K!Uses,
           rest' = rest \ {u}, UNCHANGED <<K!source, cur, phase>>, ProgramInv', Growing,
           queue' \in Seq(ClassEntries), Waiting \subseteq Waiting',
           env' \subseteq K!Method, captured' \subseteq K!Method, selfCaptured' \subseteq K!Method,
           envFields' \in [K!Method -> SUBSET EnvFields],
           \A m \in captured' : m \in env' /\ K!Name(m) \in envFields'[m],
           \A m \in env' : envFields'[m] # {},
           cur \in Served'
    PROVE  ClosuresInv'
<1>1. parent' = parent /\ use' = use /\ cur' = cur
  BY DEF K!source
<1>2. FoundInv'
  <2>1. (rest \subseteq IF cur = K!NoMethod THEN {}
                        ELSE {<<"closure", c>> : c \in K!ClosuresOf(cur)} \cup {use[cur]})'
    BY <1>1 DEF ClosuresInv, FoundInv, K!ClosuresOf
  <2>2. (\A m \in captured : m \in env /\ K!Name(m) \in envFields[m])'
    BY DEF K!Name
  <2> QED
    BY <1>1, <2>1, <2>2 DEF ClosuresInv, FoundInv
<1>3. PICK D \in SUBSET K!Method : Through(D)
  BY DEF ClosuresInv, ProgressInv
<1>4. \A c \in K!Closure : <<"closure", c>> \in rest => <<"closure", c>> \in rest'
  BY WordsDiffer
<1>5. Through(D)'
  BY <1>3, <1>4, ThroughStays DEF ClosuresInv
<1>6. ProgressInv'
  BY <1>5 DEF ProgressInv
<1> QED
  BY <1>2, <1>6 DEF ClosuresInv

\* A use that changes nothing: one that needs no path.
LEMMA UseKeeps ==
    ASSUME K!ClosuresAssumption, ClosuresInv, NEW u \in K!Uses, K!InferUse(u),
           UNCHANGED <<queue, env, envFields, resolved, selfCaptured, captured, phase>>,
           u = K!Idle \/ u = <<"this">> \/ u = K!Name(cur) \/ (u = <<"field">> /\ cur = K!Root)
    PROVE  ClosuresInv'
<1>1. /\ phase = "infer" /\ cur \in K!Method /\ u = use[cur]
      /\ rest' = rest \ {u} /\ UNCHANGED <<K!source, cur>> /\ ProgramInv' /\ use' = use
  BY UseStep
<1>2. Growing /\ Waiting' = Waiting
  BY DEF Growing, Waiting
<1>3. /\ \A d \in K!Method : u = K!Name(d) => d = cur
      /\ u = <<"field">> => cur = K!Root
  BY <1>1, WordsDiffer
<1>4. cur \in Served'
  BY <1>1, <1>3 DEF Served, K!Name
<1> QED
  BY <1>1, <1>2, <1>4, UseFound DEF ClosuresInv, FoundInv

\* A use that is refused ends the compilation.
LEMMA UseFails ==
    ASSUME K!ClosuresAssumption, ClosuresInv, NEW u \in K!Uses, K!InferUse(u), K!Fail
    PROVE  ClosuresInv'
<1>1. /\ rest' = rest \ {u} /\ UNCHANGED <<K!source, cur>>
      /\ ProgramInv' /\ parent' = parent /\ use' = use
  BY UseStep
<1>2. phase' = "failed" /\ UNCHANGED <<queue, env, envFields, resolved, selfCaptured, captured>>
  BY DEF K!Fail
<1>3. FoundInv'
  BY <1>1, <1>2 DEF ClosuresInv, FoundInv, K!ClosuresOf
<1>4. ProgressInv'
  BY <1>2 DEF ProgressInv
<1> QED
  BY <1>1, <1>3, <1>4 DEF ClosuresInv

\* A name of a method around curMethod is captured, with a field for each method between.
LEMMA NameStep ==
    ASSUME K!ClosuresAssumption, ClosuresInv, NEW u \in K!Uses, K!InferUse(u),
           NEW d \in K!Method, u = K!Name(d), K!CaptureName(d), d \in K!Around(cur), d # cur
    PROVE  ClosuresInv'
<1>1. /\ phase = "infer" /\ cur \in K!Method /\ u = use[cur]
      /\ rest' = rest \ {u} /\ UNCHANGED <<K!source, cur>>
      /\ ProgramInv' /\ use' = use /\ AroundOf' = AroundOf
  BY UseStep
<1>2. PICK ms : ms = K!Between(cur, d)
  OBVIOUS
<1>3. PICK f : f = [m \in K!Method |-> (IF m \in ms THEN {K!Upper} ELSE {})
                                      \cup (IF m = d THEN {K!Name(d)} ELSE {})]
  OBVIOUS
<1>4. K!AddFields(ms, f) /\ captured' = captured \cup {d} /\ UNCHANGED <<selfCaptured, phase>>
  BY <1>2, <1>3 DEF K!CaptureName
<1>5. AroundOf[cur] = K!Around(cur) /\ AroundOf[cur] \subseteq K!Method
  BY <1>1, AroundIsMethods
<1>6. /\ ms \in SUBSET K!Method /\ d \in ms
      /\ \A k \in AroundOf[cur] : k = d \/ d \in AroundOf[k] => k \in ms
  BY <1>2, <1>5, AroundIsMethods DEF K!Between
<1>7. f \in [K!Method -> SUBSET EnvFields]
  BY <1>3 DEF EnvFields
<1>8. (\A m \in ms : f[m] # {} /\ K!Upper \in f[m]) /\ K!Name(d) \in f[d]
  BY <1>3, <1>6
<1>9. /\ queue' \in Seq(ClassEntries) /\ Waiting \subseteq Waiting'
      /\ env' = env \cup ms /\ env' \subseteq K!Method
      /\ envFields' \in [K!Method -> SUBSET EnvFields]
      /\ \A m \in K!Method : envFields'[m] = envFields[m] \cup f[m]
      /\ \A m \in env' : envFields'[m] # {}
  BY <1>4, <1>6, <1>7, <1>8, FieldsAdded DEF ClosuresInv
<1>10. Growing
  BY <1>4, <1>9 DEF Growing
<1>11. \A m \in captured' : m \in env' /\ K!Name(m) \in envFields'[m]
  <2>1. captured \subseteq K!Method /\ \A m \in captured : m \in env /\ K!Name(m) \in envFields[m]
    BY DEF ClosuresInv, FoundInv
  <2> QED
    BY <1>4, <1>6, <1>8, <1>9, <2>1
<1>12. /\ \A k \in AroundOf[cur] : k = d \/ d \in AroundOf[k] =>
              k \in env' /\ (k # d => K!Upper \in envFields'[k])
       /\ K!Name(d) \in envFields'[d] /\ d \in captured'
  BY <1>4, <1>5, <1>6, <1>8, <1>9
<1>13. cur \in Served'
  <2>1. \A e \in K!Method : u = K!Name(e) => e = d
    BY WordsDiffer
  <2>2. u # <<"field">>
    BY WordsDiffer
  <2> QED
    BY <1>1, <1>12, <2>1, <2>2 DEF Served, K!Name
<1>14. captured' \subseteq K!Method /\ selfCaptured' \subseteq K!Method
  BY <1>4 DEF ClosuresInv, FoundInv
<1> QED
  BY <1>1, <1>4, <1>9, <1>10, <1>11, <1>13, <1>14, UseFound

\* A field is used in a closure: every method around it keeps `self' and its upper one.
LEMMA FieldStep ==
    ASSUME K!ClosuresAssumption, ClosuresInv, NEW u \in K!Uses, K!InferUse(u),
           u = <<"field">>, K!CaptureField, cur # K!Root
    PROVE  ClosuresInv'
<1>1. /\ phase = "infer" /\ cur \in K!Method /\ u = use[cur]
      /\ rest' = rest \ {u} /\ UNCHANGED <<K!source, cur>>
      /\ ProgramInv' /\ use' = use /\ AroundOf' = AroundOf
  BY UseStep
<1>2. PICK ms : ms = K!Around(cur)
  OBVIOUS
<1>3. PICK f : f = [m \in K!Method |-> IF m \in ms THEN {K!Upper, K!Self} ELSE {}]
  OBVIOUS
<1>4. K!AddFields(ms, f) /\ selfCaptured' = selfCaptured \cup ms /\ UNCHANGED <<captured, phase>>
  BY <1>2, <1>3 DEF K!CaptureField
<1>5. AroundOf[cur] = K!Around(cur) /\ ms \in SUBSET K!Method /\ AroundOf[cur] = ms
  BY <1>1, <1>2, AroundIsMethods
<1>6. K!Root \in ms
  <2>1. cur \in K!Closure
    BY <1>1 DEF K!Method, K!Closure, K!Root, K!ClosuresAssumption
  <2> QED
    BY <1>5, <2>1, RootIsAround DEF ClosuresInv
<1>7. f \in [K!Method -> SUBSET EnvFields]
      /\ \A m \in ms : f[m] # {} /\ K!Upper \in f[m] /\ K!Self \in f[m]
  BY <1>3, <1>5 DEF EnvFields
<1>8. /\ queue' \in Seq(ClassEntries) /\ Waiting \subseteq Waiting'
      /\ env' = env \cup ms /\ env' \subseteq K!Method
      /\ envFields' \in [K!Method -> SUBSET EnvFields]
      /\ \A m \in K!Method : envFields'[m] = envFields[m] \cup f[m]
      /\ \A m \in env' : envFields'[m] # {}
  BY <1>4, <1>5, <1>7, FieldsAdded DEF ClosuresInv
<1>9. Growing
  BY <1>4, <1>8 DEF Growing
<1>10. \A m \in captured' : m \in env' /\ K!Name(m) \in envFields'[m]
  <2>1. captured \subseteq K!Method /\ \A m \in captured : m \in env /\ K!Name(m) \in envFields[m]
    BY DEF ClosuresInv, FoundInv
  <2> QED
    BY <1>4, <1>8, <2>1
<1>11. /\ \A k \in AroundOf[cur] : k \in env' /\ K!Upper \in envFields'[k]
       /\ K!Self \in envFields'[K!Root] /\ K!Root \in selfCaptured'
  BY <1>4, <1>5, <1>6, <1>7, <1>8
<1>12. cur \in Served'
  <2>1. \A e \in K!Method : u # K!Name(e)
    BY WordsDiffer
  <2> QED
    BY <1>1, <1>11, <2>1 DEF Served, K!Name
<1>13. captured' \subseteq K!Method /\ selfCaptured' \subseteq K!Method
  BY <1>4, <1>5 DEF ClosuresInv, FoundInv
<1> QED
  BY <1>1, <1>4, <1>8, <1>9, <1>10, <1>12, <1>13, UseFound

\* `this' is used in a closure: the topmost method keeps it.
LEMMA ThisStep ==
    ASSUME K!ClosuresAssumption, ClosuresInv, NEW u \in K!Uses, K!InferUse(u), u = <<"this">>,
           NEW f, f = [m \in K!Method |-> IF m = K!Root THEN {K!Self} ELSE {}], K!AddFields({K!Root}, f),
           selfCaptured' = selfCaptured \cup {K!Root}, UNCHANGED <<captured, phase>>
    PROVE  ClosuresInv'
<1>1. /\ phase = "infer" /\ cur \in K!Method /\ u = use[cur]
      /\ rest' = rest \ {u} /\ UNCHANGED <<K!source, cur>> /\ ProgramInv' /\ use' = use
  BY UseStep
<1>2. K!Root \in K!Method /\ {K!Root} \in SUBSET K!Method
  BY DEF K!Root, K!Method, K!ClosuresAssumption
<1>3. f \in [K!Method -> SUBSET EnvFields] /\ \A m \in {K!Root} : f[m] # {}
  BY <1>2 DEF EnvFields
<1>4. /\ queue' \in Seq(ClassEntries) /\ Waiting \subseteq Waiting'
      /\ env' = env \cup {K!Root} /\ env' \subseteq K!Method
      /\ envFields' \in [K!Method -> SUBSET EnvFields]
      /\ \A m \in K!Method : envFields'[m] = envFields[m] \cup f[m]
      /\ \A m \in env' : envFields'[m] # {}
  BY <1>2, <1>3, FieldsAdded DEF ClosuresInv
<1>5. Growing
  BY <1>4 DEF Growing
<1>6. \A m \in captured' : m \in env' /\ K!Name(m) \in envFields'[m]
  <2>1. captured \subseteq K!Method /\ \A m \in captured : m \in env /\ K!Name(m) \in envFields[m]
    BY DEF ClosuresInv, FoundInv
  <2> QED
    BY <1>4, <2>1
<1>7. cur \in Served'
  <2>1. u # <<"field">> /\ \A e \in K!Method : u # K!Name(e)
    BY WordsDiffer
  <2> QED
    BY <1>1, <2>1 DEF Served, K!Name
<1>8. captured' \subseteq K!Method /\ selfCaptured' \subseteq K!Method
  BY <1>2 DEF ClosuresInv, FoundInv
<1> QED
  BY <1>1, <1>4, <1>5, <1>6, <1>7, <1>8, UseFound

LEMMA InferUseStep ==
    ASSUME K!ClosuresAssumption, ClosuresInv, NEW u \in K!Uses, K!InferUse(u)
    PROVE  ClosuresInv'
<1>1. CASE u = K!Idle /\ UNCHANGED <<queue, env, envFields, resolved, selfCaptured, captured, phase>>
  BY <1>1, UseKeeps
<1>2. ASSUME NEW d \in K!Method, u = K!Name(d), K!CaptureName(d), d = cur \/ d \in K!Around(cur)
      PROVE  ClosuresInv'
  <2>1. CASE d = cur
    BY <1>2, <2>1, UseKeeps DEF K!CaptureName
  <2>2. CASE d # cur
    BY <1>2, <2>2, NameStep
  <2> QED
    BY <2>1, <2>2
<1>3. CASE u = <<"field">> /\ K!CaptureField
  <2>1. CASE cur = K!Root
    BY <1>3, <2>1, UseKeeps, UseFails DEF K!CaptureField
  <2>2. CASE cur # K!Root
    BY <1>3, <2>2, FieldStep
  <2> QED
    BY <2>1, <2>2
<1>4. CASE u = <<"this">> /\ K!CaptureThis
  <2>1. CASE K!Fail
    BY <2>1, UseFails
  <2>2. CASE UNCHANGED <<queue, env, envFields, resolved, selfCaptured, captured, phase>>
    BY <1>4, <2>2, UseKeeps
  <2>3. ASSUME NEW f, f = [m \in K!Method |-> IF m = K!Root THEN {K!Self} ELSE {}],
               K!AddFields({K!Root}, f), selfCaptured' = selfCaptured \cup {K!Root}, UNCHANGED <<captured, phase>>
        PROVE  ClosuresInv'
    BY <1>4, <2>3, ThisStep
  <2> QED
    BY <1>4, <2>1, <2>2, <2>3 DEF K!CaptureThis
<1> QED
  BY <1>1, <1>2, <1>3, <1>4, UseStep

LEMMA ClosuresStep == K!ClosuresAssumption /\ ClosuresInv /\ (K!Next \/ UNCHANGED K!vars) => ClosuresInv'
<1> SUFFICES ASSUME K!ClosuresAssumption, ClosuresInv, K!Next \/ UNCHANGED K!vars PROVE ClosuresInv'
  OBVIOUS
<1>1. CASE UNCHANGED K!vars
  <2>1. UNCHANGED <<parent, use, K!source, cur, queue, rest, env, envFields, resolved,
                    selfCaptured, captured, phase>>
    BY <1>1 DEF K!vars, K!source
  <2>2. ProgramInv' /\ FoundInv'
    <3>1. ProgramInv'
      BY <2>1, SourceStays DEF ClosuresInv, K!source
    <3>2. K!ClosuresOf(cur)' = K!ClosuresOf(cur) /\ use[cur]' = use[cur]
      BY <2>1 DEF K!ClosuresOf
    <3>3. FoundInv'
      BY <2>1, <3>2 DEF ClosuresInv, FoundInv, K!Name
    <3> QED
      BY <3>1, <3>3
  <2>3. AroundOf' = AroundOf /\ Waiting' = Waiting
    BY <2>1 DEF AroundOf, K!Around, K!HasParents, Waiting
  <2>4. Served' = Served
    BY <2>1, <2>3 DEF Served
  <2>5. ASSUME NEW D \in SUBSET K!Method, Through(D) PROVE Through(D)'
    BY <2>1, <2>3, <2>4, <2>5 DEF Through
  <2>6. ProgressInv'
    BY <2>1, <2>4, <2>5 DEF ClosuresInv, ProgressInv
  <2> QED
    BY <2>2, <2>6 DEF ClosuresInv
<1>2. CASE K!Next
  BY <1>2, DequeueMethodStep, DequeueEnvStep, ClosureStep, InferUseStep, MethodDoneStep,
     QueueEmptyStep, LayoutStep DEF K!Next
<1> QED
  BY <1>1, <1>2

LEMMA ClosuresServe ==
    K!ClosuresAssumption /\ ClosuresInv => K!NamesAreReachable /\ K!EnvironmentsResolved
<1> SUFFICES ASSUME K!ClosuresAssumption, ClosuresInv, phase = "emit"
             PROVE  K!NamesAreReachable /\ K!EnvironmentsResolved
  BY DEF K!NamesAreReachable, K!EnvironmentsResolved
<1>1. Served = K!Method /\ resolved = envFields
  BY DEF ClosuresInv, ProgressInv
<1>2. K!Root \in K!Method
  BY DEF K!Root, K!Method, K!ClosuresAssumption
<1>3. ASSUME NEW m \in K!Method, use[m][1] = "name"
      PROVE  LET d == use[m][2] IN
             IF d = m THEN m \in captured => m \in env /\ K!Name(m) \in envFields[m]
                      ELSE K!PathLeads(m, d, K!Name(d))
  <2>1. PICK d \in {m} \cup AroundOf[m] : use[m] = K!Name(d)
    BY <1>3 DEF ClosuresInv, ProgramInv
  <2>2. d \in K!Method /\ AroundOf[m] = K!Around(m) /\ use[m][2] = d
    BY <2>1, AroundIsMethods, WordsDiffer
  <2>3. CASE d = m
    BY <2>2, <2>3 DEF ClosuresInv, FoundInv
  <2>4. CASE d # m
    <3>1. /\ \A k \in AroundOf[m] : k = d \/ d \in AroundOf[k] =>
                k \in env /\ (k # d => K!Upper \in envFields[k])
          /\ K!Name(d) \in envFields[d] /\ d \in captured
      BY <1>1, <2>1, <2>2, <2>4 DEF Served
    <3>2. \A k \in K!Between(m, d) : k \in AroundOf[m] /\ (k = d \/ d \in AroundOf[k])
      BY <2>2, AroundIsMethods DEF K!Between
    <3>3. K!Name(d) # K!Self
      BY <2>2, WordsDiffer
    <3>4. K!PathLeads(m, d, K!Name(d))
      BY <3>1, <3>2, <3>3 DEF K!PathLeads
    <3> QED
      BY <2>2, <2>4, <3>4
  <2> QED
    BY <2>3, <2>4
<1>4. ASSUME NEW m \in K!Method, use[m][1] = "field", m # K!Root
      PROVE  K!PathLeads(m, K!Root, K!Self)
  <2>1. use[m] = <<"field">>
    <3>1. use[m] \in K!Uses
      BY DEF ClosuresInv, ProgramInv
    <3> QED
      BY <1>4, <3>1, WordsDiffer DEF K!Uses
  <2>2. /\ \A k \in AroundOf[m] : k = K!Root \/ K!Root \in AroundOf[k] =>
                k \in env /\ (k # K!Root => K!Upper \in envFields[k])
        /\ K!Self \in envFields[K!Root] /\ K!Root \in selfCaptured
    BY <1>1, <1>4, <2>1 DEF Served
  <2>3. \A k \in K!Between(m, K!Root) : k \in AroundOf[m] /\ (k = K!Root \/ K!Root \in AroundOf[k])
    BY AroundIsMethods DEF K!Between
  <2>4. K!Self # K!Name(K!Root)
    BY <1>2, WordsDiffer
  <2> QED
    BY <2>2, <2>3, <2>4 DEF K!PathLeads
<1>5. K!NamesAreReachable
  BY <1>3, <1>4 DEF K!NamesAreReachable
<1>6. K!EnvironmentsResolved
  <2>1. \A m \in env : m \in K!Method /\ envFields[m] # {}
    BY DEF ClosuresInv, FoundInv
  <2> QED
    BY <1>1, <2>1 DEF K!EnvironmentsResolved
<1> QED
  BY <1>5, <1>6

\* What a closure uses of the methods around it is at the end of the path that is
\* written for it, and every environment is resolved when the program runs: for any
\* number of closures, however they are nested and whatever they use.
THEOREM CapturedNamesAreReachable == MCSpec => []NamesAreReachable
<1> DEFINE Inv == which = "closures" => ClosuresInv
<1>1. MCInit => Inv
  BY ClosuresInit, ClosuresAreCounted DEF MCInit
<1>2. Inv /\ [MCNext]_allVars => Inv'
  <2> SUFFICES ASSUME Inv, [MCNext]_allVars, which' = "closures" PROVE ClosuresInv'
    OBVIOUS
  <2>1. which = "closures"
    BY DEF MCNext, allVars, common
  <2>2. K!Next \/ UNCHANGED K!vars
    BY <2>1 DEF MCNext, allVars, common, madeVars, closVars, K!vars, K!source
  <2> QED
    BY <2>1, <2>2, ClosuresStep, ClosuresAreCounted
<1>3. Inv => NamesAreReachable
  BY ClosuresServe, ClosuresAreCounted DEF NamesAreReachable
<1> QED
  BY <1>1, <1>2, <1>3, PTL DEF MCSpec

-----------------------------------------------------------------------------
(***************************************************************************)
(* Typing: whatever conversions a value goes through, it is of its static  *)
(* type. What a failable or a box has inside may have gone through         *)
(* conversions before it got there: a value is sound if it is in some set  *)
(* of values each of which is well made of members of the set.             *)
(***************************************************************************)
Words == {"any", "I", "J", "A", "B", "S", "Error", "Problem", "Action", "Array", "Closure", "null", "^", "array"}
Parts == {"any", "A", "S", "Error", "Action", "Array"}
Boxes == {<<"box", "S">>} \cup {<<"box", "?", n>> : n \in Parts}
\* All types, and all classes of objects.
Universe == {<<n>> : n \in Words} \cup {<<"?", n>> : n \in Parts} \cup Boxes

LEMMA FormsOfTypes ==
    /\ Y!Types \subseteq Universe
    /\ Y!Types = {<<n>> : n \in {"any", "I", "J", "A", "B", "S", "Error", "Problem", "Action", "Array"}}
               \cup {<<"?", n>> : n \in Parts}
    /\ \A t \in Y!Types : ~Y!IsLiteral(t) /\ ~Y!IsBoxed(t)
<1>1. Y!Types = {<<n>> : n \in {"any", "I", "J", "A", "B", "S", "Error", "Problem", "Action", "Array"}}
               \cup {<<"?", n>> : n \in Parts}
  BY DEF Y!Types, Y!Needs, Parts
<1>2. \A t \in Y!Types : ~Y!IsLiteral(t) /\ ~Y!IsBoxed(t)
  BY <1>1 DEF Parts, Y!IsLiteral, Y!NullType, Y!ClosureType, Y!NewArrayType, Y!IsBoxed
<1> QED
  BY <1>1, <1>2 DEF Universe, Words

LEMMA Interfaces == \A t \in Universe : Y!IsInterface(t) <=> t \in {<<"any">>, <<"I">>, <<"J">>}
  BY DEF Universe, Words, Boxes, Y!IsInterface, Y!Needs
LEMMA WrappedTypes ==
    /\ \A n : Y!Wrapped(<<"?", n>>) = <<n>>
    /\ Y!Wrapped(<<"box", "S">>) = <<"S">> /\ \A n : Y!Wrapped(<<"box", "?", n>>) = <<"?", n>>
  BY DEF Y!Wrapped
LEMMA Failables == \A t \in Universe : Y!IsFailable(t) <=> \E n \in Parts : t = <<"?", n>>
  BY DEF Universe, Words, Boxes, Y!IsFailable
LEMMA ValueTypes ==
    \A t \in Universe : Y!IsValueType(t) <=> t = <<"S">> \/ \E n \in Parts : t = <<"?", n>>
  BY Failables DEF Y!IsValueType
LEMMA BoxedTypes == \A t \in Universe : Y!IsBoxed(t) <=> t \in Boxes
  BY DEF Universe, Words, Boxes, Y!IsBoxed
LEMMA Subclasses ==
    \A t, u \in Universe : Y!IsSubclassOf(t, u) <=> <<t, u>> \in {<<<<"B">>, <<"A">>>>, <<<<"Problem">>, <<"Error">>>>,
                                                      <<<<"Closure">>, <<"Action">>>>}
  BY DEF Universe, Words, Boxes, Y!IsSubclassOf, Y!BaseOf
LEMMA Methods ==
    /\ \A t \in Universe : Y!IsInterface(t) => Y!PublicMethods(t) = Y!Needs[t[1]]
    /\ \A n \in Parts : Y!PublicMethods(<<"?", n>>) = {} /\ Y!PublicMethods(<<"box", "?", n>>) = {}
    /\ \A t \in {<<"Error">>, <<"Problem">>, <<"Action">>, <<"Closure">>, <<"Array">>, <<"null">>} : Y!PublicMethods(t) = {}
    /\ Y!PublicMethods(<<"A">>) \subseteq Y!PublicMethods(<<"B">>)
  BY DEF Y!PublicMethods, Y!IsInterface, Universe, Words, Boxes, Parts, Y!Needs

-----------------------------------------------------------------------------
\* A value with all that is in it; what a value of each class has inside.
ObjectClasses == {<<n>> : n \in {"A", "B", "S", "Error", "Problem", "Closure", "Array", "null"}}
Holds(v, t) == /\ Y!ClassOf(v) \in Universe /\ Y!Conforms(v, t)
               /\ Y!IsValueType(Y!ClassOf(v)) => Y!ClassOf(v) = t
WellMade(v, V) ==
    \/ \E c \in ObjectClasses : v = Y!Object(c)
    \/ \E n \in Parts, e \in V, u \in V :
          /\ v = <<<<"?", n>>, <<e, u>>>> /\ Holds(e, <<"Error">>) /\ Holds(u, <<n>>)
    \/ \E u \in V : /\ v = Y!Box(u) /\ Y!ClassOf(u) \in Universe /\ Y!IsValueType(Y!ClassOf(u))

LEMMA ClassesOfValues ==
    /\ \A c, x : Y!ClassOf(<<c, x>>) = c /\ <<c, x>>[2] = x
    /\ \A c : Y!ClassOf(Y!Object(c)) = c
    /\ \A u : Y!ClassOf(Y!Box(u)) = <<"box">> \o Y!ClassOf(u) /\ Y!Box(u)[2] = <<u>>
  BY DEF Y!ClassOf, Y!Object, Y!Box
\* Tuples, put one behind the other.
LEMMA OneAndOne == ASSUME NEW n, NEW m PROVE <<n>> \o <<m>> = <<n, m>>
<1> DEFINE S == {n, m}
<1>1. <<n>> \in Seq(S) /\ <<m>> \in Seq(S)
  OBVIOUS
<1>2. PICK q : q = <<n>> \o <<m>>
  OBVIOUS
<1> HIDE DEF S
<1>3. q \in Seq(S) /\ Len(q) = 2 /\ q[1] = n /\ q[2] = m
  BY <1>1, <1>2, ConcatProperties
<1>4. q = <<n, m>>
  BY <1>3
<1> QED
  BY <1>2, <1>4, Zenon
LEMMA OneAndTwo == ASSUME NEW n, NEW m, NEW k PROVE <<n>> \o <<m, k>> = <<n, m, k>>
<1> DEFINE S == {n, m, k}
<1>1. <<n>> \in Seq(S) /\ <<m, k>> \in Seq(S)
  OBVIOUS
<1>2. PICK q : q = <<n>> \o <<m, k>>
  OBVIOUS
<1> HIDE DEF S
<1>3. q \in Seq(S) /\ Len(q) = 3 /\ q[1] = n /\ q[2] = m /\ q[3] = k
  BY <1>1, <1>2, ConcatProperties
<1>4. q = <<n, m, k>>
  BY <1>3
<1> QED
  BY <1>2, <1>4, Zenon
LEMMA BoxClasses ==
    /\ <<"box">> \o <<"S">> = <<"box", "S">>
    /\ \A n : <<"box">> \o <<"?", n>> = <<"box", "?", n>>
  BY OneAndOne, OneAndTwo, Zenon

LEMMA MoreMethods ==
    ASSUME NEW c \in Universe, NEW s \in Universe, Y!Is(c, s)
    PROVE  Y!PublicMethods(s) \subseteq Y!PublicMethods(c)
<1>1. CASE c = s
  BY <1>1
<1>2. CASE Y!IsInterface(s) /\ Y!DoesImplementInterface(c, s)
  BY <1>2, Methods DEF Y!DoesImplementInterface
<1>3. CASE Y!IsSubclassOf(c, s)
  BY <1>3, Subclasses, Methods
<1> QED
  BY <1>1, <1>2, <1>3 DEF Y!Is

\* What is of a type is of its base, and of the interfaces it implements.
LEMMA IsOfBoth ==
    ASSUME NEW c \in Universe, NEW s \in Y!Types, NEW t \in Y!Types, Y!Is(c, s),
           Y!IsSubclassOf(s, t) \/ (Y!IsInterface(t) /\ Y!DoesImplementInterface(s, t))
    PROVE  Y!Is(c, t)
<1>0. s \in Universe /\ t \in Universe
  BY FormsOfTypes
<1>1. CASE Y!IsSubclassOf(s, t)
  <2>1. <<s, t>> \in {<<<<"B">>, <<"A">>>>, <<<<"Problem">>, <<"Error">>>>}
    BY <1>0, <1>1, Subclasses, FormsOfTypes DEF Parts
  <2>2. ~Y!IsInterface(s) /\ ~Y!IsInterface(t) /\ ~Y!IsSubclassOf(c, s)
    BY <1>0, <2>1, Interfaces, Subclasses
  <2> QED
    BY <1>1, <2>2 DEF Y!Is
<1>2. CASE Y!IsInterface(t) /\ Y!DoesImplementInterface(s, t)
  BY <1>0, <1>2, MoreMethods DEF Y!Is, Y!DoesImplementInterface
<1> QED
  BY <1>1, <1>2

LEMMA UpcastHolds ==
    ASSUME NEW t \in Y!Types, NEW s \in Y!Types, NEW v, Holds(v, s), Y!GetCastInfo(t, s) = "upcast"
    PROVE  Holds(v, t)
<1>1. t = s \/ /\ ~Y!IsValueType(t) /\ ~Y!IsValueType(s)
               /\ Y!IsSubclassOf(s, t) \/ (Y!IsInterface(t) /\ Y!DoesImplementInterface(s, t))
  BY DEF Y!GetCastInfo, Y!OfValues, Y!OfReferences
<1>2. CASE t = s
  BY <1>2
<1>3. CASE /\ ~Y!IsValueType(t) /\ ~Y!IsValueType(s)
           /\ Y!IsSubclassOf(s, t) \/ (Y!IsInterface(t) /\ Y!DoesImplementInterface(s, t))
  <2>1. Y!Conforms(v, t)
    BY <1>3, IsOfBoth DEF Holds, Y!Conforms
  <2>2. ~Y!IsValueType(Y!ClassOf(v))
    BY <1>3 DEF Holds
  <2> QED
    BY <2>1, <2>2 DEF Holds
<1> QED
  BY <1>1, <1>2, <1>3

LEMMA BoxHolds ==
    ASSUME NEW t \in Y!Types, NEW s \in Y!Types, NEW v, Holds(v, s), Y!GetCastInfo(t, s) = "box"
    PROVE  Holds(Y!Box(v), t) /\ Y!IsValueType(Y!ClassOf(v)) /\ Y!ClassOf(v) \in Universe
<1>1. /\ t # s /\ Y!IsInterface(t) /\ Y!DoesImplementInterface(s, t)
      /\ Y!IsValueType(t) \/ Y!IsValueType(s)
  BY DEF Y!GetCastInfo, Y!OfValues, Y!OfReferences
<1>2. s \in Universe /\ t \in Universe /\ ~Y!IsValueType(t) /\ Y!IsValueType(s)
  BY <1>1, FormsOfTypes, Interfaces, ValueTypes
<1>3. Y!ClassOf(v) = s
  BY <1>2 DEF Holds, Y!Conforms
<1>4. PICK b : b = Y!ClassOf(Y!Box(v))
  OBVIOUS
<1>5. (s = <<"S">> /\ b = <<"box", "S">>) \/ \E n \in Parts : s = <<"?", n>> /\ b = <<"box", "?", n>>
  <2>1. b = <<"box">> \o s
    BY <1>3, <1>4, ClassesOfValues
  <2>2. s = <<"S">> \/ \E n \in Parts : s = <<"?", n>>
    BY <1>2, ValueTypes
  <2> QED
    BY <2>1, <2>2, BoxClasses
<1>6. b \in Boxes /\ b \in Universe /\ Y!Wrapped(b) = s
  BY <1>5, WrappedTypes DEF Boxes, Universe
<1>7. Y!IsBoxed(b) /\ ~Y!IsValueType(b)
  BY <1>5, <1>6, BoxedTypes, ValueTypes
<1>8. Y!Is(b, t) \/ ~Y!Transparent(Y!Box(v))
  <2>1. Y!Unboxed(b) = s
    BY <1>6, <1>7 DEF Y!Unboxed
  <2>2. Y!PublicMethods(b) = Y!PublicMethods(s) \/ ~Y!Transparent(Y!Box(v))
    BY <1>4, <2>1 DEF Y!Transparent
  <2>3. Y!PublicMethods(b) = Y!PublicMethods(s) => Y!DoesImplementInterface(b, t)
    BY <1>1 DEF Y!DoesImplementInterface
  <2> QED
    BY <1>1, <2>2, <2>3 DEF Y!Is
<1> QED
  BY <1>2, <1>3, <1>4, <1>6, <1>7, <1>8 DEF Holds, Y!Conforms

-----------------------------------------------------------------------------
\* A value is in a set of values that are well made of values of the set.
Grounded(v) == \E V : v \in V /\ \A w \in V : WellMade(w, V)

LEMMA MadeOfMore ==
    ASSUME NEW V, NEW W, V \subseteq W, NEW v, WellMade(v, V)
    PROVE  WellMade(v, W)
BY DEF WellMade

LEMMA ObjectsAreGrounded == ASSUME NEW c \in ObjectClasses PROVE Grounded(Y!Object(c))
<1>1. \A w \in {Y!Object(c)} : WellMade(w, {Y!Object(c)})
  BY DEF WellMade
<1> QED
  BY <1>1 DEF Grounded

LEMMA FailableHolds ==
    ASSUME NEW n \in Parts, NEW e, NEW u, Holds(e, <<"Error">>), Grounded(e), Holds(u, <<n>>), Grounded(u),
           NEW v, v = <<<<"?", n>>, <<e, u>>>>
    PROVE  Holds(v, <<"?", n>>) /\ Grounded(v)
<1>1. Y!ClassOf(v) = <<"?", n>> /\ <<"?", n>> \in Universe
  BY ClassesOfValues DEF Universe
<1>2. Y!IsValueType(<<"?", n>>)
  BY <1>1, ValueTypes
<1>3. Holds(v, <<"?", n>>)
  BY <1>1, <1>2 DEF Holds, Y!Conforms
<1>4. PICK E : e \in E /\ \A w \in E : WellMade(w, E)
  BY DEF Grounded
<1>5. PICK U : u \in U /\ \A w \in U : WellMade(w, U)
  BY DEF Grounded
<1>6. PICK V : V = E \cup U \cup {v}
  OBVIOUS
<1>7. WellMade(v, V)
  BY <1>4, <1>5, <1>6 DEF WellMade
<1>8. E \subseteq V /\ U \subseteq V
  BY <1>6
<1>9. \A w \in V : WellMade(w, V)
  BY <1>4, <1>5, <1>6, <1>7, <1>8, MadeOfMore
<1> QED
  BY <1>3, <1>6, <1>9 DEF Grounded

LEMMA BoxIsGrounded ==
    ASSUME NEW u, Grounded(u), Y!ClassOf(u) \in Universe, Y!IsValueType(Y!ClassOf(u)), NEW v, v = Y!Box(u)
    PROVE  Grounded(v)
<1>1. PICK U : u \in U /\ \A w \in U : WellMade(w, U)
  BY DEF Grounded
<1>2. PICK V : V = U \cup {v}
  OBVIOUS
<1>3. WellMade(v, V)
  BY <1>1, <1>2 DEF WellMade
<1>4. U \subseteq V
  BY <1>2
<1>5. \A w \in V : WellMade(w, V)
  BY <1>1, <1>2, <1>3, <1>4, MadeOfMore
<1> QED
  BY <1>2, <1>5 DEF Grounded

LEMMA InFailable ==
    ASSUME NEW n \in Parts, NEW v, Grounded(v), Y!ClassOf(v) = <<"?", n>>
    PROVE  /\ Holds(v[2][1], <<"Error">>) /\ Grounded(v[2][1])
           /\ Holds(v[2][2], <<n>>) /\ Grounded(v[2][2])
<1>1. PICK V : v \in V /\ \A w \in V : WellMade(w, V)
  BY DEF Grounded
<1>2. ASSUME NEW c \in ObjectClasses, v = Y!Object(c) PROVE FALSE
  BY <1>2, ClassesOfValues DEF ObjectClasses
<1>3. ASSUME NEW u \in V, v = Y!Box(u), Y!ClassOf(u) \in Universe, Y!IsValueType(Y!ClassOf(u)) PROVE FALSE
  <2>1. <<"?", n>> = <<"box">> \o Y!ClassOf(u)
    BY <1>3, ClassesOfValues
  <2>2. Y!ClassOf(u) = <<"S">> \/ \E m \in Parts : Y!ClassOf(u) = <<"?", m>>
    BY <1>3, ValueTypes
  <2>3. <<"?", n>> = <<"box", "S">> \/ \E m \in Parts : <<"?", n>> = <<"box", "?", m>>
    BY <2>1, <2>2, BoxClasses
  <2> QED
    BY <2>3
<1>4. PICK m \in Parts, e \in V, u \in V :
         v = <<<<"?", m>>, <<e, u>>>> /\ Holds(e, <<"Error">>) /\ Holds(u, <<m>>)
  BY <1>1, <1>2, <1>3 DEF WellMade
<1>5. <<"?", m>> = <<"?", n>> /\ v[2] = <<e, u>>
  BY <1>4, ClassesOfValues
<1>6. m = n
  BY <1>5
<1>7. v[2][1] = e /\ v[2][2] = u
  BY <1>5
<1>8. Grounded(e) /\ Grounded(u)
  BY <1>1 DEF Grounded
<1> QED
  BY <1>4, <1>6, <1>7, <1>8

LEMMA InBox ==
    ASSUME NEW v, Grounded(v), Y!ClassOf(v) \in Universe, Y!IsBoxed(Y!ClassOf(v))
    PROVE  /\ Grounded(v[2][1]) /\ Y!ClassOf(v[2][1]) = Y!Wrapped(Y!ClassOf(v))
           /\ Y!ClassOf(v[2][1]) \in Universe
<1>1. PICK V : v \in V /\ \A w \in V : WellMade(w, V)
  BY DEF Grounded
<1>0. Y!ClassOf(v) \in Boxes
  BY BoxedTypes
<1>2. ASSUME NEW c \in ObjectClasses, v = Y!Object(c) PROVE FALSE
  <2>1. c \in Boxes
    BY <1>0, <1>2, ClassesOfValues
  <2> QED
    BY <2>1 DEF ObjectClasses, Boxes
<1>3. ASSUME NEW m \in Parts, NEW e, NEW u, v = <<<<"?", m>>, <<e, u>>>> PROVE FALSE
  <2>1. <<"?", m>> \in Boxes
    BY <1>0, <1>3, ClassesOfValues
  <2> QED
    BY <2>1 DEF Boxes
<1>4. PICK u \in V : v = Y!Box(u) /\ Y!ClassOf(u) \in Universe /\ Y!IsValueType(Y!ClassOf(u))
  BY <1>1, <1>2, <1>3 DEF WellMade
<1>5. v[2] = <<u>> /\ Y!ClassOf(v) = <<"box">> \o Y!ClassOf(u)
  BY <1>4, ClassesOfValues
<1>6. Y!Wrapped(Y!ClassOf(v)) = Y!ClassOf(u)
  <2>1. Y!ClassOf(u) = <<"S">> \/ \E m \in Parts : Y!ClassOf(u) = <<"?", m>>
    BY <1>4, ValueTypes
  <2> QED
    BY <1>5, <2>1, BoxClasses, WrappedTypes
<1>7. v[2][1] = u
  BY <1>5
<1> QED
  BY <1>1, <1>4, <1>6, <1>7 DEF Grounded

LEMMA ZeroHolds == ASSUME NEW n \in Parts PROVE Holds(Y!Zero(<<n>>), <<n>>) /\ Grounded(Y!Zero(<<n>>))
<1>1. CASE n = "S"
  <2>1. Y!Zero(<<n>>) = Y!Object(<<"S">>) /\ <<"S">> \in ObjectClasses /\ <<"S">> \in Universe
    BY <1>1 DEF Y!Zero, ObjectClasses, Universe, Words
  <2>2. Y!IsValueType(<<"S">>)
    BY <2>1, ValueTypes
  <2> QED
    BY <1>1, <2>1, <2>2, ClassesOfValues, ObjectsAreGrounded DEF Holds, Y!Conforms
<1>2. CASE n # "S"
  <2>1. Y!Zero(<<n>>) = Y!Null /\ Y!Null = Y!Object(<<"null">>) /\ <<"null">> \in ObjectClasses
        /\ <<"null">> \in Universe /\ <<n>> \in Universe
    BY <1>2 DEF Y!Zero, Y!Null, Y!NullType, ObjectClasses, Universe, Words, Parts
  <2>2. ~Y!IsValueType(<<"null">>) /\ ~Y!IsValueType(<<n>>)
    BY <1>2, <2>1, ValueTypes
  <2> QED
    BY <2>1, <2>2, ClassesOfValues, ObjectsAreGrounded DEF Holds, Y!Conforms
<1> QED
  BY <1>1, <1>2

LEMMA NullHolds == ASSUME NEW t \in Y!Types, ~Y!IsValueType(t) PROVE Holds(Y!Null, t) /\ Grounded(Y!Null)
<1>1. Y!Null = Y!Object(<<"null">>) /\ <<"null">> \in ObjectClasses /\ <<"null">> \in Universe
  BY DEF Y!Null, Y!NullType, ObjectClasses, Universe, Words
<1>2. ~Y!IsValueType(<<"null">>)
  BY <1>1, ValueTypes
<1> QED
  BY <1>1, <1>2, ClassesOfValues, ObjectsAreGrounded DEF Holds, Y!Conforms

LEMMA LiteralsDiffer ==
    Y!NullType # Y!ClosureType /\ Y!NullType # Y!NewArrayType /\ Y!ClosureType # Y!NewArrayType
  BY DEF Y!NullType, Y!ClosureType, Y!NewArrayType

\* A null, a closure and an array fit the types they may become.
LEMMA LiteralHolds ==
    ASSUME NEW t \in Y!Types, Y!Fits(t), NEW b, b = (IF Y!IsFailable(t) THEN Y!Wrapped(t) ELSE t)
    PROVE  Holds(Y!LiteralValue, b) /\ Grounded(Y!LiteralValue)
<1>1. b \in Y!Types /\ b \in Universe /\ (~Y!IsFailable(t) => b = t)
      /\ (Y!IsFailable(t) => \E n \in Parts : t = <<"?", n>> /\ b = <<n>>)
  BY FormsOfTypes, Failables, WrappedTypes DEF Parts
<1>2. CASE staticType = Y!NullType /\ Y!IsNullAssignable(t)
  <2>1. ~Y!IsValueType(b)
    BY <1>2 DEF Y!IsNullAssignable
  <2>2. Y!LiteralValue = Y!Null
    BY <1>2, LiteralsDiffer DEF Y!LiteralValue
  <2> QED
    BY <1>1, <2>1, <2>2, NullHolds
<1>3. CASE staticType = Y!ClosureType /\ Y!IsMethodClass(t)
  <2>1. b = <<"Action">> /\ Y!LiteralValue = Y!Object(<<"Closure">>)
    <3>1. Y!LiteralValue = Y!Object(<<"Closure">>)
      BY <1>3, LiteralsDiffer DEF Y!LiteralValue
    <3>2. t = <<"Action">> \/ t = <<"?", "Action">>
      BY <1>3 DEF Y!IsMethodClass
    <3> QED
      BY <1>1, <3>1, <3>2, FormsOfTypes, Failables
  <2>2. <<"Closure">> \in ObjectClasses /\ <<"Closure">> \in Universe
    BY DEF ObjectClasses, Universe, Words
  <2>3. Y!IsSubclassOf(<<"Closure">>, b) /\ ~Y!IsInterface(b) /\ ~Y!IsValueType(b) /\ ~Y!IsValueType(<<"Closure">>)
    BY <1>1, <2>1, <2>2, Subclasses, Interfaces, ValueTypes
  <2> QED
    BY <2>1, <2>2, <2>3, ClassesOfValues, ObjectsAreGrounded DEF Holds, Y!Conforms, Y!Is
<1>4. CASE staticType = Y!NewArrayType /\ Y!IsArrayClass(t)
  <2>1. b = <<"Array">> /\ Y!LiteralValue = Y!Object(<<"Array">>)
    <3>1. Y!LiteralValue = Y!Object(<<"Array">>)
      BY <1>4, LiteralsDiffer DEF Y!LiteralValue
    <3>2. t = <<"Array">> \/ t = <<"?", "Array">>
      BY <1>4 DEF Y!IsArrayClass
    <3> QED
      BY <1>1, <3>1, <3>2, FormsOfTypes, Failables
  <2>2. <<"Array">> \in ObjectClasses /\ <<"Array">> \in Universe
    BY DEF ObjectClasses, Universe, Words
  <2>3. ~Y!IsValueType(<<"Array">>)
    BY <2>2, ValueTypes
  <2> QED
    BY <2>1, <2>2, <2>3, ClassesOfValues, ObjectsAreGrounded DEF Holds, Y!Conforms, Y!Is
<1> QED
  BY <1>2, <1>3, <1>4 DEF Y!Fits

LEMMA ErrorHolds ==
    ASSUME NEW s \in Y!Types, Y!IsErrorClass(s), NEW v, Holds(v, s)
    PROVE  Holds(v, <<"Error">>)
<1>1. s \in Universe /\ <<"Error">> \in Y!Types /\ <<"Error">> \in Universe
  BY FormsOfTypes DEF Universe, Words
<1>2. s = <<"Error">> \/ s = <<"Problem">>
  BY <1>1, Subclasses DEF Y!IsErrorClass
<1>3. CASE s = <<"Problem">>
  <2>1. Y!IsSubclassOf(s, <<"Error">>) /\ ~Y!IsValueType(s) /\ ~Y!IsValueType(<<"Error">>)
    BY <1>1, <1>3, Subclasses, ValueTypes
  <2> QED
    BY <1>1, <2>1, IsOfBoth DEF Holds, Y!Conforms
<1> QED
  BY <1>2, <1>3

\* What becomes of a value by a conversion that the compiler inserts.
LEMMA BecomesHolds ==
    ASSUME NEW t \in Y!Types, Y!Becomes(t)
    PROVE  staticType' = t /\ has' = has /\ Holds(value', t) /\ Grounded(value')
<1>1. Y!Fits(t) /\ staticType' = t /\ has' = has
      /\ value' = (IF Y!IsFailable(t) THEN Y!FromValue(t, Y!LiteralValue) ELSE Y!LiteralValue)
  BY DEF Y!Becomes, Y!Goes
<1>2. PICK b : b = (IF Y!IsFailable(t) THEN Y!Wrapped(t) ELSE t)
  OBVIOUS
<1>3. PICK x : x = Y!LiteralValue
  OBVIOUS
<1>4. Holds(x, b) /\ Grounded(x)
  BY <1>1, <1>2, <1>3, LiteralHolds
<1>5. CASE Y!IsFailable(t)
  <2>1. PICK n \in Parts : t = <<"?", n>> /\ b = <<n>>
    BY <1>2, <1>5, FormsOfTypes, Failables, WrappedTypes
  <2>2. PICK w : w = value'
    OBVIOUS
  <2>3. w = <<t, <<Y!Null, x>>>>
    BY <1>1, <1>3, <1>5, <2>2 DEF Y!FromValue
  <2>4. Holds(Y!Null, <<"Error">>) /\ Grounded(Y!Null)
    BY NullHolds, FormsOfTypes, ValueTypes DEF Universe, Words
  <2> QED
    BY <1>1, <1>4, <2>1, <2>2, <2>3, <2>4, FailableHolds
<1>6. CASE ~Y!IsFailable(t)
  BY <1>1, <1>2, <1>3, <1>4, <1>6
<1> QED
  BY <1>5, <1>6

-----------------------------------------------------------------------------
ValueOK == /\ staticType \in Y!Types \cup {Y!NullType, Y!ClosureType, Y!NewArrayType}
           /\ IF Y!IsLiteral(staticType) THEN value = Y!Null ELSE Holds(value, staticType) /\ Grounded(value)

LEMMA NotLiteral == ASSUME ValueOK, NEW t, Y!GetCastInfo(t, staticType) # "none"
                    PROVE  staticType \in Y!Types /\ Holds(value, staticType) /\ Grounded(value)
<1>1. ~Y!IsLiteral(staticType)
  BY DEF Y!GetCastInfo
<1> QED
  BY <1>1 DEF ValueOK, Y!IsLiteral

\* The conversions that make something of a value of another type.
LEMMA ConvertedHolds ==
    ASSUME ValueOK, NEW t \in Y!Types, has' = has, staticType' = t,
           \/ Y!GetCastInfo(t, staticType) = "upcast" /\ value' = value
           \/ Y!GetCastInfo(t, staticType) = "box" /\ value' = Y!Box(value)
           \/ Y!GetCastInfo(t, staticType) = "value_to_failable" /\ value' = Y!FromValue(t, value)
           \/ Y!GetCastInfo(t, staticType) = "error_to_failable" /\ value' = Y!FromError(t, value)
    PROVE  Holds(value', t) /\ Grounded(value')
<1>1. staticType \in Y!Types /\ Holds(value, staticType) /\ Grounded(value)
  BY NotLiteral
<1>2. PICK v, w : v = value /\ w = value'
  OBVIOUS
<1>3. PICK s \in Y!Types : s = staticType
  BY <1>1
<1>4. CASE Y!GetCastInfo(t, s) = "upcast" /\ w = v
  BY <1>1, <1>2, <1>3, <1>4, UpcastHolds
<1>5. CASE Y!GetCastInfo(t, s) = "box" /\ w = Y!Box(v)
  <2>1. Holds(w, t) /\ Y!IsValueType(Y!ClassOf(v)) /\ Y!ClassOf(v) \in Universe
    BY <1>1, <1>2, <1>3, <1>5, BoxHolds
  <2>2. Grounded(w)
    BY <1>1, <1>2, <1>5, <2>1, BoxIsGrounded
  <2> QED
    BY <1>2, <2>1, <2>2
<1>6. CASE Y!GetCastInfo(t, s) = "value_to_failable" /\ w = Y!FromValue(t, v)
  <2>1. Y!IsFailable(t) /\ Y!Wrapped(t) = s
    BY <1>6 DEF Y!GetCastInfo, Y!OfValues, Y!OfReferences
  <2>2. PICK n \in Parts : t = <<"?", n>> /\ s = <<n>>
    BY <2>1, FormsOfTypes, Failables, WrappedTypes
  <2>3. w = <<t, <<Y!Null, v>>>>
    BY <1>6 DEF Y!FromValue
  <2>4. Holds(Y!Null, <<"Error">>) /\ Grounded(Y!Null)
    BY NullHolds, FormsOfTypes, ValueTypes DEF Universe, Words
  <2> QED
    BY <1>1, <1>2, <1>3, <2>2, <2>3, <2>4, FailableHolds
<1>7. CASE Y!GetCastInfo(t, s) = "error_to_failable" /\ w = Y!FromError(t, v)
  <2>1. Y!IsFailable(t) /\ Y!IsErrorClass(s)
    BY <1>7 DEF Y!GetCastInfo, Y!OfValues, Y!OfReferences
  <2>2. PICK n \in Parts : t = <<"?", n>> /\ Y!Wrapped(t) = <<n>>
    BY <2>1, FormsOfTypes, Failables, WrappedTypes
  <2>3. PICK z : z = Y!Zero(<<n>>)
    OBVIOUS
  <2>4. w = <<t, <<v, z>>>>
    BY <1>7, <2>2, <2>3 DEF Y!FromError
  <2>5. Holds(z, <<n>>) /\ Grounded(z)
    BY <2>3, ZeroHolds
  <2>6. Holds(v, <<"Error">>) /\ Grounded(v)
    BY <1>1, <1>2, <1>3, <2>1, ErrorHolds
  <2> QED
    BY <1>2, <2>2, <2>4, <2>5, <2>6, FailableHolds
<1> QED
  BY <1>2, <1>3, <1>4, <1>5, <1>6, <1>7

LEMMA DowncastHolds ==
    ASSUME NEW t \in Y!Types, NEW s \in Y!Types, NEW v, Holds(v, s), Y!GetCastInfo(t, s) = "downcast",
           v = Y!Null \/ Y!Is(Y!ClassOf(v), t)
    PROVE  Holds(v, t)
<1>1. ~Y!IsValueType(t) /\ ~Y!IsValueType(s)
  BY DEF Y!GetCastInfo, Y!OfValues, Y!OfReferences
<1> QED
  BY <1>1 DEF Holds, Y!Conforms

LEMMA UnboxHolds ==
    ASSUME NEW t \in Y!Types, NEW s \in Y!Types, NEW v, Holds(v, s), Grounded(v),
           Y!GetCastInfo(t, s) = "unbox", Y!IsBoxed(Y!ClassOf(v)), Y!Wrapped(Y!ClassOf(v)) = t
    PROVE  Holds(v[2][1], t) /\ Grounded(v[2][1])
<1>1. Y!ClassOf(v[2][1]) = t /\ Grounded(v[2][1]) /\ t \in Universe
  BY InBox, FormsOfTypes DEF Holds
<1>2. Y!IsValueType(t)
  <2>1. Y!IsInterface(s) /\ (Y!IsValueType(t) \/ Y!IsValueType(s))
    BY DEF Y!GetCastInfo, Y!OfValues, Y!OfReferences
  <2> QED
    BY <2>1, FormsOfTypes, Interfaces, ValueTypes
<1> QED
  BY <1>1, <1>2 DEF Holds, Y!Conforms

LEMMA ImplicitlyHolds ==
    ASSUME ValueOK, NEW t \in Y!Types, Y!Implicitly(t)
    PROVE  staticType' = t /\ has' = has /\ Holds(value', t) /\ Grounded(value')
<1>1. CASE Y!Becomes(t)
  BY <1>1, BecomesHolds
<1>2. CASE \/ Y!GetCastInfo(t, staticType) = "upcast" /\ Y!Goes(t, value)
           \/ Y!GetCastInfo(t, staticType) = "box" /\ Y!Goes(t, Y!Box(value))
           \/ Y!GetCastInfo(t, staticType) = "value_to_failable" /\ Y!Goes(t, Y!FromValue(t, value))
           \/ Y!GetCastInfo(t, staticType) = "error_to_failable" /\ Y!Goes(t, Y!FromError(t, value))
  BY <1>2, ConvertedHolds DEF Y!Goes
<1> QED
  BY <1>1, <1>2 DEF Y!Implicitly

LEMMA ExplicitlyHolds ==
    ASSUME ValueOK, NEW t \in Y!Types, Y!Explicitly(t)
    PROVE  \/ staticType' = t /\ has' = has /\ Holds(value', t) /\ Grounded(value')
           \/ UNCHANGED <<has, staticType, value>>
<1>1. CASE Y!Becomes(t)
  BY <1>1, BecomesHolds
<1>2. CASE \/ Y!GetCastInfo(t, staticType) = "upcast" /\ Y!Goes(t, value)
           \/ Y!GetCastInfo(t, staticType) = "box" /\ Y!Goes(t, Y!Box(value))
  BY <1>2, ConvertedHolds DEF Y!Goes
<1>3. CASE Y!GetCastInfo(t, staticType) = "downcast" /\ Y!Downcast(t) /\ Y!Goes(t, value)
  <2>1. staticType \in Y!Types /\ Holds(value, staticType) /\ Grounded(value)
    BY <1>3, NotLiteral
  <2> QED
    BY <1>3, <2>1, DowncastHolds DEF Y!Downcast, Y!Goes
<1>4. CASE Y!GetCastInfo(t, staticType) = "unbox" /\ Y!Unboxes(t) /\ Y!Goes(t, value[2][1])
  <2>1. staticType \in Y!Types /\ Holds(value, staticType) /\ Grounded(value)
    BY <1>4, NotLiteral
  <2> QED
    BY <1>4, <2>1, UnboxHolds DEF Y!Unboxes, Y!Goes
<1>5. CASE \E how : Y!Ends(how)
  BY <1>5 DEF Y!Ends
<1> QED
  BY <1>1, <1>2, <1>3, <1>4, <1>5 DEF Y!Explicitly

LEMMA UnwrapHolds ==
    ASSUME ValueOK, Y!Unwrap \/ Y!ErrorOf
    PROVE  \/ has' = has /\ staticType' \in Y!Types /\ Holds(value', staticType') /\ Grounded(value')
           \/ UNCHANGED <<has, staticType, value>>
<1>1. Y!IsFailable(staticType)
  BY DEF Y!Unwrap, Y!ErrorOf
<1>2. staticType \in Y!Types /\ Holds(value, staticType) /\ Grounded(value)
  BY <1>1 DEF ValueOK, Y!IsLiteral, Y!IsFailable, Y!NullType, Y!ClosureType, Y!NewArrayType
<1>3. PICK n \in Parts : staticType = <<"?", n>> /\ Y!Wrapped(staticType) = <<n>>
  BY <1>1, <1>2, FormsOfTypes, Failables, WrappedTypes
<1>4. Y!IsValueType(staticType)
  BY <1>1 DEF Y!IsValueType
<1>5. Y!ClassOf(value) = <<"?", n>>
  BY <1>2, <1>3, <1>4 DEF Holds, Y!Conforms
<1>6. /\ Holds(value[2][1], <<"Error">>) /\ Grounded(value[2][1])
      /\ Holds(value[2][2], <<n>>) /\ Grounded(value[2][2])
  BY <1>2, <1>5, InFailable
<1>7. <<n>> \in Y!Types /\ <<"Error">> \in Y!Types
  BY FormsOfTypes DEF Parts
<1>8. CASE Y!Unwrap
  BY <1>3, <1>6, <1>7, <1>8 DEF Y!Unwrap, Y!Goes, Y!Ends
<1>9. CASE Y!ErrorOf
  BY <1>3, <1>6, <1>7, <1>9 DEF Y!ErrorOf, Y!Goes, Y!Failure
<1> QED
  BY <1>8, <1>9

\* The methods of the program stay what they are, and so does what a value holds.
LEMMA SameHolds ==
    ASSUME has' = has, NEW nt, NEW nv, staticType' = nt, value' = nv
    PROVE  /\ Holds(nv, nt) => Holds(value, staticType)'
           /\ Grounded(nv) => Grounded(value)'
<1>1. ASSUME NEW t PROVE Y!PublicMethods(t)' = Y!PublicMethods(t)
  BY DEF Y!PublicMethods
<1>2. ASSUME NEW v, NEW t PROVE Holds(v, t)' = Holds(v, t)
  BY <1>1 DEF Holds, Y!Conforms, Y!Is, Y!DoesImplementInterface, Y!Transparent
<1> QED
  BY <1>2 DEF Grounded, WellMade

LEMMA ValueOKInit == Y!Init => ValueOK
<1> SUFFICES ASSUME Y!Init PROVE ValueOK
  OBVIOUS
<1>1. ASSUME NEW n \in {"A", "B", "S", "Error", "Problem"}, staticType = <<n>>, value = Y!Object(<<n>>)
      PROVE  ValueOK
  <2>1. <<n>> \in Y!Types /\ <<n>> \in Universe /\ <<n>> \in ObjectClasses /\ ~Y!IsLiteral(<<n>>)
    BY FormsOfTypes DEF Universe, Words, ObjectClasses
  <2>2. Holds(Y!Object(<<n>>), <<n>>)
    BY <2>1, ClassesOfValues DEF Holds, Y!Conforms, Y!Is
  <2> QED
    BY <1>1, <2>1, <2>2, ObjectsAreGrounded DEF ValueOK
<1>2. CASE staticType \in {Y!NullType, Y!ClosureType, Y!NewArrayType} /\ value = Y!Null
  BY <1>2 DEF ValueOK, Y!IsLiteral
<1> QED
  BY <1>1, <1>2 DEF Y!Init

LEMMA ValueOKStep == ValueOK /\ (Y!Next \/ UNCHANGED Y!vars) => ValueOK'
<1> SUFFICES ASSUME ValueOK, Y!Next \/ UNCHANGED Y!vars PROVE ValueOK'
  OBVIOUS
<1>1. CASE has' = has /\ staticType' \in Y!Types /\ Holds(value', staticType') /\ Grounded(value')
  <2>1. PICK nt, nv : nt = staticType' /\ nv = value'
    OBVIOUS
  <2>2. Holds(value, staticType)' /\ Grounded(value)'
    BY <1>1, <2>1, SameHolds
  <2> QED
    BY <1>1, <2>2, FormsOfTypes DEF ValueOK, Y!IsLiteral
<1>2. CASE UNCHANGED <<has, staticType, value>>
  <2>1. PICK nt, nv : nt = staticType /\ nv = value
    OBVIOUS
  <2>2. /\ Holds(value, staticType) => Holds(value, staticType)'
        /\ Grounded(value) => Grounded(value)'
    BY <1>2, <2>1, SameHolds
  <2> QED
    BY <1>2, <2>2 DEF ValueOK, Y!IsLiteral
<1>3. ASSUME NEW t \in Y!Types, Y!Assign(t) PROVE ValueOK'
  BY <1>1, <1>3, ImplicitlyHolds DEF Y!Assign
<1>4. ASSUME NEW t \in Y!Types, Y!Cast(t) PROVE ValueOK'
  BY <1>1, <1>2, <1>4, ExplicitlyHolds DEF Y!Cast
<1>5. CASE Y!Unwrap \/ Y!ErrorOf
  BY <1>1, <1>2, <1>5, UnwrapHolds
<1> QED
  BY <1>2, <1>3, <1>4, <1>5 DEF Y!Next, Y!vars

\* Whether a cast succeeds is what `is' says of the value.
LEMMA CastsAgree ==
    ASSUME NEW t \in Y!Types, staticType \in Y!Types, Holds(value, staticType), value # Y!Null, Y!Transparent(value)
    PROVE  Y!CastSucceeds(t) <=> Y!IsExpr(t)
<1>1. t \in Universe /\ staticType \in Universe /\ Y!ClassOf(value) \in Universe
  BY FormsOfTypes DEF Holds
<1>2. PICK c \in Universe : c = Y!ClassOf(value)
  BY <1>1
<1>3. Y!PublicMethods(c) = Y!PublicMethods(Y!Unboxed(c))
  BY <1>2 DEF Y!Transparent
<1>4. Y!IsBoxed(c) => /\ ~Y!IsValueType(c) /\ Y!Unboxed(c) = Y!Wrapped(c) /\ Y!IsValueType(Y!Wrapped(c))
                      /\ Y!Wrapped(c) \in Universe /\ c \notin Y!Types
  <2> SUFFICES ASSUME Y!IsBoxed(c) PROVE /\ ~Y!IsValueType(c) /\ Y!Unboxed(c) = Y!Wrapped(c) /\ Y!IsValueType(Y!Wrapped(c))
                                         /\ Y!Wrapped(c) \in Universe /\ c \notin Y!Types
    OBVIOUS
  <2>1. Y!Unboxed(c) = Y!Wrapped(c) /\ c \in Boxes /\ c \notin Y!Types
    BY BoxedTypes, FormsOfTypes DEF Y!Unboxed
  <2>2. ~Y!IsValueType(c)
    <3>1. Y!IsFailable(c) => FALSE
      BY DEF Y!IsBoxed, Y!IsFailable
    <3>2. c # <<"S">>
      BY DEF Y!IsBoxed
    <3> QED
      BY <3>1, <3>2 DEF Y!IsValueType
  <2>3. Y!Wrapped(c) = <<"S">> \/ \E n \in Parts : Y!Wrapped(c) = <<"?", n>>
    BY <2>1, WrappedTypes DEF Boxes
  <2>4. <<"S">> \in Universe /\ \A n \in Parts : <<"?", n>> \in Universe
    BY DEF Universe, Words
  <2> QED
    BY <2>1, <2>2, <2>3, <2>4, ValueTypes
<1>5. CASE Y!GetCastInfo(t, staticType) = "downcast"
  <2>1. ~Y!IsValueType(t) /\ ~Y!IsValueType(staticType)
    BY <1>5 DEF Y!GetCastInfo, Y!OfValues, Y!OfReferences
  <2>2. Y!CastSucceeds(t) <=> Y!Is(c, t)
    BY <1>2, <1>5 DEF Y!CastSucceeds, Y!Downcast
  <2>3. Y!IsExpr(t) <=> Y!Is(Y!Unboxed(c), t)
    BY <1>2, <2>1 DEF Y!IsExpr
  <2>4. CASE Y!IsBoxed(c)
    <3>1. c # t /\ Y!Unboxed(c) # t
      BY <1>4, <2>1, <2>4
    <3>2. ~Y!IsSubclassOf(c, t) /\ ~Y!IsSubclassOf(Y!Unboxed(c), t)
      <4>1. \A u \in Universe : Y!IsValueType(u) => ~Y!IsSubclassOf(u, t)
        BY <1>1, Subclasses, ValueTypes
      <4>2. ~Y!IsSubclassOf(c, t)
        BY <1>1, <2>4, Subclasses, BoxedTypes DEF Boxes
      <4> QED
        BY <1>4, <2>4, <4>1, <4>2
    <3>3. Y!DoesImplementInterface(c, t) <=> Y!DoesImplementInterface(Y!Unboxed(c), t)
      BY <1>3 DEF Y!DoesImplementInterface
    <3> QED
      BY <2>2, <2>3, <3>1, <3>2, <3>3 DEF Y!Is
  <2>5. CASE ~Y!IsBoxed(c)
    BY <2>2, <2>3, <2>5 DEF Y!Unboxed
  <2> QED
    BY <2>4, <2>5
<1>6. CASE Y!GetCastInfo(t, staticType) = "unbox"
  <2>1. Y!IsInterface(staticType) /\ (Y!IsValueType(t) \/ Y!IsValueType(staticType))
    BY <1>6 DEF Y!GetCastInfo, Y!OfValues, Y!OfReferences
  <2>2. ~Y!IsValueType(staticType) /\ Y!IsValueType(t)
    BY <1>1, <2>1, Interfaces, ValueTypes
  <2>3. ~Y!IsInterface(t) /\ \A u \in Universe : ~Y!IsSubclassOf(u, t)
    BY <1>1, <2>2, Interfaces, ValueTypes, Subclasses
  <2>4. Y!IsExpr(t) <=> Y!Unboxed(c) = t
    BY <1>2, <1>4, <2>2, <2>3 DEF Y!IsExpr, Y!Is, Y!Unboxed
  <2>5. c # t
    BY <1>2, <2>2 DEF Holds
  <2>6. Y!CastSucceeds(t) <=> Y!IsBoxed(c) /\ Y!Wrapped(c) = t
    BY <1>2, <1>6 DEF Y!CastSucceeds, Y!Unboxes
  <2> QED
    BY <2>4, <2>5, <2>6 DEF Y!Unboxed
<1>7. CASE Y!GetCastInfo(t, staticType) \notin {"downcast", "unbox"}
  BY <1>7 DEF Y!CastSucceeds
<1> QED
  BY <1>5, <1>6, <1>7

LEMMA ValuesAreSound == ValueOK => Y!ConversionsAreSound
<1> SUFFICES ASSUME ValueOK PROVE Y!ConversionsAreSound
  OBVIOUS
<1>1. ~Y!IsLiteral(staticType) => staticType \in Y!Types /\ Holds(value, staticType) /\ Grounded(value)
  BY DEF ValueOK, Y!IsLiteral
<1>2. ~Y!IsLiteral(staticType) => Y!Conforms(value, staticType)
  BY <1>1 DEF Holds
<1>3. ASSUME Y!IsFailable(staticType)
      PROVE  Y!Conforms(value[2][1], <<"Error">>) /\ Y!Conforms(value[2][2], Y!Wrapped(staticType))
  <2>1. ~Y!IsLiteral(staticType)
    BY <1>3 DEF Y!IsLiteral, Y!IsFailable, Y!NullType, Y!ClosureType, Y!NewArrayType
  <2>2. PICK n \in Parts : staticType = <<"?", n>> /\ Y!Wrapped(staticType) = <<n>>
    BY <1>1, <1>3, <2>1, FormsOfTypes, Failables, WrappedTypes
  <2>3. Y!ClassOf(value) = <<"?", n>>
    BY <1>1, <1>3, <2>1, <2>2 DEF Holds, Y!Conforms, Y!IsValueType
  <2> QED
    BY <1>1, <2>1, <2>2, <2>3, InFailable DEF Holds
<1> QED
  BY <1>1, <1>2, <1>3, CastsAgree DEF Y!ConversionsAreSound

\* An expression's value is of its static type and a cast succeeds just if `is' says
\* so: for all programs and after any number of conversions.
THEOREM ValuesKeepTheirTypes == MCSpec => []ConversionsAreSound
<1> DEFINE Inv == which = "typing" => ValueOK
<1>1. MCInit => Inv
  BY ValueOKInit DEF MCInit
<1>2. Inv /\ [MCNext]_allVars => Inv'
  <2> SUFFICES ASSUME Inv, [MCNext]_allVars, which' = "typing" PROVE ValueOK'
    OBVIOUS
  <2>1. which = "typing"
    BY DEF MCNext, allVars, common
  <2>2. Y!Next \/ UNCHANGED Y!vars
    BY <2>1 DEF MCNext, allVars, madeVars, typingVars, Y!vars
  <2> QED
    BY <2>1, <2>2, ValueOKStep
<1>3. Inv => ConversionsAreSound
  BY ValuesAreSound DEF ConversionsAreSound
<1> QED
  BY <1>1, <1>2, <1>3, PTL DEF MCSpec

-----------------------------------------------------------------------------
(***************************************************************************)
(* Declarations: modifiers wait in the parser from where they are written  *)
(* until a declaration takes them.                                         *)
(***************************************************************************)
Modifiers == Decls!Flags \cup {"attribute"}
MemberRecord == [name : MemberNames \cup {"", Decls!DefaultCtor},
                 what : {"field", "property", "const", "method", "ctor", "dtor"},
                 has : SUBSET Modifiers, access : {"public", "protected", "private"},
                 written : SUBSET Modifiers, writtenAccess : {"public", "protected", "private"}]
DeclaredKinds == Decls!ClassKinds \cup {"enum", "methodClass", "eventClass", "alias"}
ClassRecord == [kind : DeclaredKinds, name : TypeNames, members : SUBSET MemberRecord,
                has : SUBSET Modifiers, written : SUBSET Modifiers]

\* Members have different names, but for destructors and static constructors, and of
\* destructors there is a static one and another.
OneOfEach(c) ==
    /\ \A m, n \in c.members : m # n /\ m.name = n.name => m.name \in {"", Decls!DefaultCtor}
    /\ \A m, n \in c.members : /\ m.what = "dtor" /\ n.what = "dtor"
                               /\ "static" \in m.has <=> "static" \in n.has
                               => m = n
    /\ c.kind = "extend" => \A m \in c.members : m.what \in {"method", "const"}
Faithful(c) == Decls!MembersAsWritten(c) /\ (c.kind # "extend" => Decls!AsWritten(c))
HasCtor(c) == c.kind \in {"class", "struct"} /\ c.has \cap {"abstract", "static"} = {} =>
                  \E m \in c.members : m.what = "ctor" /\ "static" \notin m.has
\* `lost' says that modifiers have stood before what takes none.
Kept(c, lost) == c \in ClassRecord /\ OneOfEach(c) /\ (~lost => Faithful(c))

\* The parser's fields hold what is written since the last declaration.
ModifiersOK ==
    /\ flags \subseteq Decls!Flags /\ attrs \subseteq {"attribute"}
    /\ access \in {"public", "protected"} /\ writtenAccess = access
    /\ written \subseteq Modifiers /\ astray \in BOOLEAN
    /\ ~astray => written = flags \cup attrs /\ (Decls!TopLevel => flags \subseteq {"static", "abstract"})
\* The class whose body is parsed, the classes, and the extensions not merged yet.
KlassOK == ~Decls!TopLevel => Kept(klass, astray) /\ klass.kind \in Decls!ClassKinds
TypesOK == /\ \A c \in declared : Kept(c, astray) /\ HasCtor(c) /\ c.kind # "extend"
           /\ \A c, d \in declared : c.name = d.name => c = d
ExtensionsOK == /\ extensions \in Seq(ClassRecord)
                /\ \A i \in 1..Len(extensions) : Kept(extensions[i], astray) /\ extensions[i].kind = "extend"
DeclOK == ModifiersOK /\ KlassOK /\ TypesOK /\ ExtensionsOK

LEMMA FailKeeps == DeclOK /\ Decls!Fail => DeclOK'
<1> SUFFICES ASSUME DeclOK, Decls!Fail PROVE DeclOK'
  OBVIOUS
<1>1. UNCHANGED <<flags, attrs, access, written, writtenAccess, klass, declared, extensions, astray>>
  BY DEF Decls!Fail, Decls!modifiers
<1>2. ModifiersOK'
  BY <1>1 DEF DeclOK, ModifiersOK, Decls!TopLevel
<1>3. KlassOK'
  BY <1>1 DEF DeclOK, KlassOK, Decls!TopLevel
<1>4. TypesOK' /\ ExtensionsOK'
  BY <1>1 DEF DeclOK, TypesOK, ExtensionsOK
<1> QED
  BY <1>2, <1>3, <1>4 DEF DeclOK

LEMMA DeclInit == Decls!Init => DeclOK
<1> SUFFICES ASSUME Decls!Init PROVE DeclOK
  OBVIOUS
<1>1. ModifiersOK /\ KlassOK
  BY DEF Decls!Init, ModifiersOK, KlassOK, Decls!TopLevel, Modifiers
<1>2. TypesOK /\ ExtensionsOK
  BY DEF Decls!Init, TypesOK, ExtensionsOK
<1> QED
  BY <1>1, <1>2 DEF DeclOK

LEMMA ModifierKeeps ==
    ASSUME DeclOK, NEW w,
           \/ Decls!Modifier(w) /\ w \in Decls!Flags
           \/ Decls!parseAttribute(w) /\ w = "attribute"
           \/ Decls!Access(w) /\ w \in {"protected", "public"}
    PROVE  DeclOK'
<1>1. CASE Decls!Fail
  BY <1>1, FailKeeps
<1>2. CASE ~Decls!Fail
  <2>1. UNCHANGED <<klass, declared, extensions, astray>>
    BY <1>2 DEF Decls!Modifier, Decls!parseAttribute, Decls!Access
  <2>2. ModifiersOK'
    BY <1>2, <2>1
    DEF DeclOK, ModifiersOK, Decls!Modifier, Decls!parseAttribute, Decls!Access, Decls!TopLevel, Modifiers, Decls!Flags
  <2>3. KlassOK'
    BY <2>1 DEF DeclOK, KlassOK, Decls!TopLevel
  <2>4. TypesOK'
    BY <2>1 DEF DeclOK, TypesOK
  <2>5. ExtensionsOK'
    BY <2>1 DEF DeclOK, ExtensionsOK
  <2> QED
    BY <2>2, <2>3, <2>4, <2>5 DEF DeclOK
<1> QED
  BY <1>1, <1>2

LEMMA BeginKeeps ==
    ASSUME DeclOK, NEW kind \in Decls!ClassKinds, NEW name \in TypeNames, Decls!BeginClass(kind, name)
    PROVE  DeclOK'
<1>1. CASE Decls!Fail
  BY <1>1, FailKeeps
<1>2. CASE ~Decls!Fail
  <2>0. /\ Decls!Reading /\ Decls!TopLevel /\ ~Decls!BadClass(kind)
        /\ klass' = [kind |-> kind, name |-> name, members |-> {},
                     has |-> Decls!ClassFlags(kind) \cup attrs
                             \cup (IF kind = "interface" THEN {"abstract"} ELSE {}),
                     written |-> written]
        /\ flags' = flags \ {"static", "abstract"} /\ attrs' = {}
        /\ access' = "public" /\ written' = {} /\ writtenAccess' = "public"
        /\ UNCHANGED <<declared, extensions, result, astray>>
    BY <1>2 DEF Decls!BeginClass, Decls!AccessAtStart
  <2>1. ModifiersOK'
    BY <2>0 DEF DeclOK, ModifiersOK, Modifiers, Decls!TopLevel, Decls!Flags
  <2>2. klass' \in ClassRecord /\ klass'.members = {} /\ klass'.kind = kind
    BY <2>0 DEF ClassRecord, DeclaredKinds, DeclOK, ModifiersOK, Decls!ClassFlags, Modifiers, Decls!Flags
  <2>3. OneOfEach(klass')
    BY <2>2 DEF OneOfEach
  <2>4. ASSUME ~astray, kind # "extend" PROVE Decls!AsWritten(klass')
    <3>1. written = flags \cup attrs /\ flags \subseteq {"static", "abstract"} /\ attrs \subseteq {"attribute"}
      BY <2>0, <2>4 DEF DeclOK, ModifiersOK
    <3>2. /\ klass'.has = flags \cup attrs \cup (IF kind = "interface" THEN {"abstract"} ELSE {})
          /\ klass'.written = flags \cup attrs
      BY <2>0, <2>4, <3>1 DEF Decls!ClassFlags
    <3>3. CASE kind = "interface"
      BY <3>2, <3>3 DEF Decls!AsWritten
    <3>4. CASE kind # "interface"
      BY <3>2, <3>4 DEF Decls!AsWritten
    <3> QED
      BY <3>3, <3>4
  <2>5. ~astray' => Faithful(klass')
    BY <2>0, <2>2, <2>4 DEF Faithful, Decls!MembersAsWritten
  <2>6. KlassOK'
    BY <2>2, <2>3, <2>5 DEF KlassOK, Kept
  <2>7. TypesOK' /\ ExtensionsOK'
    BY <2>0 DEF DeclOK, TypesOK, ExtensionsOK
  <2> QED
    BY <2>1, <2>6, <2>7 DEF DeclOK
<1> QED
  BY <1>1, <1>2

\* A member that is added to a class.
LEMMA AddMember ==
    ASSUME NEW c \in ClassRecord, NEW m \in MemberRecord, NEW d, d = [c EXCEPT !.members = @ \cup {m}],
           OneOfEach(c), m.name \notin Decls!Names(c.members),
           c.kind = "extend" => m.what \in {"method", "const"},
           m.what = "dtor" => \A n \in c.members :
                                 n.what = "dtor" => ("static" \in m.has <=> "static" \notin n.has)
    PROVE  /\ d \in ClassRecord /\ d.kind = c.kind /\ d.members = c.members \cup {m}
           /\ d.has = c.has /\ d.written = c.written
           /\ OneOfEach(d)
<1>1. /\ d \in ClassRecord /\ d.kind = c.kind /\ d.members = c.members \cup {m}
      /\ d.has = c.has /\ d.written = c.written
  BY DEF ClassRecord
<1>2. \A n \in c.members : n.name = m.name => m.name = ""
  BY DEF Decls!Names
<1>3. \A o, n \in d.members : o # n /\ o.name = n.name => o.name \in {"", Decls!DefaultCtor}
  BY <1>1, <1>2 DEF OneOfEach
<1>4. ASSUME NEW o \in d.members, NEW n \in d.members, o.what = "dtor", n.what = "dtor",
             "static" \in o.has <=> "static" \in n.has
      PROVE  o = n
  <2>1. CASE o \in c.members /\ n \in c.members
    BY <1>4, <2>1 DEF OneOfEach
  <2>2. CASE o = m \/ n = m
    BY <1>1, <1>4, <2>2
  <2> QED
    BY <1>1, <2>1, <2>2
<1>5. d.kind = "extend" => \A o \in d.members : o.what \in {"method", "const"}
  BY <1>1 DEF OneOfEach
<1> QED
  BY <1>1, <1>3, <1>4, <1>5 DEF OneOfEach

LEMMA FaithfulMember ==
    ASSUME NEW c, NEW d, NEW m, d.members = c.members \cup {m}, d.has = c.has, d.written = c.written,
           d.kind = c.kind, Faithful(c), Decls!AsWritten(m),
           m.access = IF m.what = "field" THEN "private" ELSE m.writtenAccess
    PROVE  Faithful(d)
  BY DEF Faithful, Decls!MembersAsWritten, Decls!AsWritten

LEMMA DeclareKeeps ==
    ASSUME DeclOK, ~Decls!TopLevel, NEW m \in MemberRecord, m.name \notin Decls!Names(klass.members),
           klass' = [klass EXCEPT !.members = @ \cup {m}],
           klass.kind = "extend" => m.what \in {"method", "const"},
           m.what = "dtor" => \A n \in klass.members :
                                 n.what = "dtor" => ("static" \in m.has <=> "static" \notin n.has),
           ~astray => Decls!AsWritten(m),
           m.access = IF m.what = "field" THEN "private" ELSE m.writtenAccess,
           flags' = {}, attrs' = {}, written' = {},
           UNCHANGED <<access, writtenAccess, declared, extensions, astray>>
    PROVE  DeclOK'
<1>1. klass \in ClassRecord /\ OneOfEach(klass) /\ klass.kind \in Decls!ClassKinds /\ (~astray => Faithful(klass))
  BY DEF DeclOK, KlassOK, Kept
<1>2. /\ klass' \in ClassRecord /\ klass'.kind = klass.kind /\ klass'.members = klass.members \cup {m}
      /\ klass'.has = klass.has /\ klass'.written = klass.written /\ OneOfEach(klass')
  BY <1>1, AddMember
<1>3. ~astray => Faithful(klass')
  BY <1>1, <1>2, FaithfulMember
<1>4. KlassOK'
  BY <1>1, <1>2, <1>3 DEF KlassOK, Kept
<1>5. ModifiersOK'
  BY DEF DeclOK, ModifiersOK, Decls!TopLevel, Modifiers
<1>6. TypesOK' /\ ExtensionsOK'
  BY DEF DeclOK, TypesOK, ExtensionsOK
<1> QED
  BY <1>4, <1>5, <1>6 DEF DeclOK

LEMMA MadeAsWritten ==
    ASSUME ModifiersOK, ~astray, NEW m, m.written = written,
           m.has = flags \cup attrs \/ m.has = flags \cup attrs \cup {"abstract"}
    PROVE  Decls!AsWritten(m)
  BY DEF Decls!AsWritten, ModifiersOK

LEMMA FieldKeeps ==
    ASSUME DeclOK, NEW kind \in {"field", "property"}, NEW name \in MemberNames,
           Decls!parseFieldPropertyOrEvent(kind, name)
    PROVE  DeclOK'
<1>1. CASE Decls!Fail
  BY <1>1, FailKeeps
<1>2. CASE ~Decls!Fail
  <2> DEFINE m == [name |-> name, what |-> kind, has |-> flags \cup attrs,
                   access |-> IF kind = "field" THEN "private" ELSE access,
                   written |-> written, writtenAccess |-> writtenAccess]
  <2>1. /\ ~Decls!TopLevel /\ klass.kind # "extend" /\ m.name \notin Decls!Names(klass.members)
        /\ klass' = [klass EXCEPT !.members = @ \cup {m}]
        /\ written' = {} /\ UNCHANGED <<access, writtenAccess, declared, extensions, astray>>
        /\ result = "open" /\ result' = result
    BY <1>2 DEF Decls!parseFieldPropertyOrEvent, Decls!Declare, Decls!Reading
  <2>2. flags' = {} /\ attrs' = {}
    BY <1>2, <2>1 DEF Decls!parseFieldPropertyOrEvent
  <2>3. m \in MemberRecord
    BY DEF MemberRecord, DeclOK, ModifiersOK, Modifiers
  <2>4. ~astray => Decls!AsWritten(m)
    BY MadeAsWritten DEF DeclOK
  <2>5. m.access = IF m.what = "field" THEN "private" ELSE m.writtenAccess
    BY DEF DeclOK, ModifiersOK
  <2>6. m.what # "dtor"
    OBVIOUS
  <2> HIDE DEF m
  <2> QED
    BY <2>1, <2>2, <2>3, <2>4, <2>5, <2>6, DeclareKeeps
<1> QED
  BY <1>1, <1>2

LEMMA ConstKeeps == ASSUME DeclOK, NEW name \in MemberNames, Decls!parseConst(name) PROVE DeclOK'
<1>1. CASE Decls!Fail
  BY <1>1, FailKeeps
<1>2. CASE ~Decls!Fail
  <2> DEFINE m == [name |-> name, what |-> "const", has |-> {}, access |-> access,
                   written |-> written, writtenAccess |-> writtenAccess]
  <2>1. /\ ~Decls!TopLevel /\ flags = {} /\ attrs = {} /\ m.name \notin Decls!Names(klass.members)
        /\ klass' = [klass EXCEPT !.members = @ \cup {m}]
        /\ written' = {} /\ UNCHANGED <<access, writtenAccess, declared, extensions, astray>>
        /\ result = "open" /\ result' = result
    BY <1>2 DEF Decls!parseConst, Decls!Declare, Decls!Reading
  <2>2. flags' = {} /\ attrs' = {}
    BY <1>2, <2>1 DEF Decls!parseConst
  <2>3. m \in MemberRecord
    BY DEF MemberRecord, DeclOK, ModifiersOK, Modifiers
  <2>4. ~astray => Decls!AsWritten(m)
    BY <2>1, MadeAsWritten DEF DeclOK
  <2>5. m.access = m.writtenAccess /\ m.what = "const"
    BY DEF DeclOK, ModifiersOK
  <2> HIDE DEF m
  <2> QED
    BY <2>1, <2>2, <2>3, <2>4, <2>5, DeclareKeeps
<1> QED
  BY <1>1, <1>2

LEMMA MethodKeeps ==
    ASSUME DeclOK, NEW what \in {"method", "ctor", "dtor"}, NEW name \in MemberNames \cup {""},
           Decls!parseMethod(what, name)
    PROVE  DeclOK'
<1>1. CASE Decls!Fail
  BY <1>1, FailKeeps
<1>2. CASE ~Decls!Fail
  <2> DEFINE m == [name |-> name, what |-> what, access |-> access,
                   has |-> flags \cup attrs
                           \cup (IF klass.kind = "interface" THEN {"abstract"} ELSE {}),
                   written |-> written, writtenAccess |-> writtenAccess]
  <2>1. /\ ~Decls!TopLevel /\ ~Decls!BadMethod(what) /\ m.name \notin Decls!Names(klass.members)
        /\ klass' = [klass EXCEPT !.members = @ \cup {m}]
        /\ written' = {} /\ UNCHANGED <<access, writtenAccess, declared, extensions, astray>>
        /\ result = "open" /\ result' = result
    BY <1>2 DEF Decls!parseMethod, Decls!Declare, Decls!Reading
  <2>2. flags' = {} /\ attrs' = {}
    BY <1>2, <2>1 DEF Decls!parseMethod, Decls!FlagsLeft
  <2>3. m \in MemberRecord
    BY DEF MemberRecord, DeclOK, ModifiersOK, Modifiers, Decls!Flags
  <2>4. ~astray => Decls!AsWritten(m)
    BY MadeAsWritten DEF DeclOK
  <2>5. m.access = m.writtenAccess /\ m.what = what /\ what # "field"
    BY DEF DeclOK, ModifiersOK
  <2>6. klass.kind = "extend" => m.what \in {"method", "const"}
    BY <2>1 DEF Decls!BadMethod
  <2>7. "static" \in m.has <=> "static" \in flags
    BY DEF DeclOK, ModifiersOK
  <2>8. ASSUME m.what = "dtor", NEW n \in klass.members, n.what = "dtor"
        PROVE  "static" \in m.has <=> "static" \notin n.has
    <3>1. ~Decls!Has("dtor", "static" \in flags)
      BY <2>1, <2>8 DEF Decls!BadMethod
    <3>2. ~\E x \in klass.members : x.what = "dtor" /\ ("static" \in x.has <=> "static" \in flags)
      BY <3>1 DEF Decls!Has
    <3> HIDE DEF m
    <3> QED
      BY <2>7, <2>8, <3>2
  <2> HIDE DEF m
  <2> QED
    BY <2>1, <2>2, <2>3, <2>4, <2>5, <2>6, <2>8, DeclareKeeps
<1> QED
  BY <1>1, <1>2

LEMMA RegisterKeeps ==
    ASSUME DeclOK, NEW c, Kept(c, astray'), HasCtor(c), c.kind # "extend",
           \A t \in declared : t.name # c.name,
           declared' = declared \cup {c}, astray => astray', astray' \in BOOLEAN
    PROVE  TypesOK'
<1>1. \A d \in declared : Kept(d, astray')
  BY DEF DeclOK, TypesOK, Kept
<1> QED
  BY <1>1 DEF DeclOK, TypesOK

LEMMA ExtensionsStay ==
    ASSUME DeclOK, UNCHANGED extensions, astray => astray' PROVE ExtensionsOK'
  BY DEF DeclOK, ExtensionsOK, Kept
LEMMA TypesStay ==
    ASSUME DeclOK, UNCHANGED declared, astray => astray' PROVE TypesOK'
  BY DEF DeclOK, TypesOK, Kept

LEMMA DefaultCtorKeeps ==
    ASSUME DeclOK, ~Decls!TopLevel, NEW d, d = [klass EXCEPT !.members = Decls!WithDefaultCtor],
           klass.kind # "extend"
    PROVE  Kept(d, astray) /\ HasCtor(d) /\ d.kind = klass.kind
<1> DEFINE m == [name |-> Decls!DefaultCtor, what |-> "ctor", access |-> "public",
                 has |-> {}, written |-> {}, writtenAccess |-> "public"]
<1>1. klass \in ClassRecord /\ OneOfEach(klass) /\ (~astray => Faithful(klass))
  BY DEF DeclOK, KlassOK, Kept
<1>2. m \in MemberRecord /\ Decls!AsWritten(m)
  BY DEF MemberRecord, Decls!AsWritten
<1>3. \/ d.members = klass.members \cup {m}
      \/ d.members = klass.members /\ (klass.has \cap {"static", "abstract"} = {} => Decls!Has("ctor", FALSE))
  BY <1>1 DEF Decls!WithDefaultCtor, ClassRecord
<1>4. /\ d.kind = klass.kind /\ d.has = klass.has /\ d.written = klass.written
      /\ d.members \in {klass.members, klass.members \cup {m}}
  BY <1>1, <1>3 DEF ClassRecord
<1>5. d \in ClassRecord
  BY <1>1, <1>2, <1>4 DEF ClassRecord
<1>6. m.name = Decls!DefaultCtor /\ m.what = "ctor" /\ m.access = m.writtenAccess /\ m.has = {}
  OBVIOUS
<1> HIDE DEF m
<1>7. OneOfEach(d)
  BY <1>1, <1>4, <1>6 DEF OneOfEach
<1>8. ~astray => Faithful(d)
  <2>1. CASE d.members = klass.members
    BY <1>1, <1>4, <2>1 DEF Faithful, Decls!MembersAsWritten, Decls!AsWritten
  <2>2. CASE d.members = klass.members \cup {m}
    BY <1>1, <1>2, <1>4, <1>6, <2>2, FaithfulMember
  <2> QED
    BY <1>4, <2>1, <2>2
<1>9. HasCtor(d)
  <2>1. CASE d.members = klass.members \cup {m}
    BY <1>6, <2>1 DEF HasCtor
  <2>2. CASE klass.has \cap {"static", "abstract"} = {} => Decls!Has("ctor", FALSE)
    <3>1. Decls!Has("ctor", FALSE) => \E n \in klass.members : n.what = "ctor" /\ "static" \notin n.has
      BY Zenon DEF Decls!Has
    <3> QED
      BY <1>4, <2>2, <3>1 DEF HasCtor
  <2> QED
    BY <1>3, <2>1, <2>2
<1> QED
  BY <1>4, <1>5, <1>7, <1>8, <1>9 DEF Kept

LEMMA EndKeeps == ASSUME DeclOK, Decls!EndClass PROVE DeclOK'
<1>1. CASE Decls!Fail
  BY <1>1, FailKeeps
<1>2. CASE ~Decls!Fail
  <2>1. /\ ~Decls!TopLevel /\ result = "open" /\ flags \ {"native"} = {} /\ attrs = {}
    BY <1>2 DEF Decls!EndClass, Decls!Reading
  <2>2. \/ /\ klass.kind = "extend" /\ extensions' = Append(extensions, klass)
           /\ UNCHANGED <<declared, result>>
        \/ /\ klass.kind # "extend"
           /\ declared' = declared \cup {[klass EXCEPT !.members = Decls!WithDefaultCtor]}
           /\ \A t \in declared : t.name # [klass EXCEPT !.members = Decls!WithDefaultCtor].name
           /\ UNCHANGED <<extensions, result>>
    BY <1>2, <2>1 DEF Decls!EndClass, Decls!RegisterClass
  <2>3. /\ klass' = Decls!NoKlass /\ written' = {} /\ astray' = (astray \/ flags # {})
        /\ UNCHANGED <<flags, attrs, access, writtenAccess>>
    BY <1>2, <2>1, <2>2 DEF Decls!EndClass
  <2>4. astray \in BOOLEAN /\ (astray => astray') /\ (~astray' => flags = {}) /\ astray' \in BOOLEAN
    BY <2>3 DEF DeclOK, ModifiersOK
  <2>5. ModifiersOK'
    BY <2>1, <2>3, <2>4 DEF DeclOK, ModifiersOK, Decls!TopLevel, Modifiers
  <2>6. KlassOK'
    BY <2>3 DEF KlassOK, Decls!TopLevel
  <2>7. klass \in ClassRecord /\ Kept(klass, astray)
    BY <2>1 DEF DeclOK, KlassOK, Kept
  <2>8. TypesOK' /\ ExtensionsOK'
    <3>1. CASE klass.kind = "extend"
      <4>1. extensions' = Append(extensions, klass) /\ UNCHANGED declared
        BY <2>2, <3>1
      <4>2. /\ extensions \in Seq(ClassRecord) /\ extensions' \in Seq(ClassRecord)
            /\ Len(extensions') = Len(extensions) + 1
            /\ \A i \in 1..Len(extensions') :
                   extensions'[i] = klass \/ (i \in 1..Len(extensions) /\ extensions'[i] = extensions[i])
        BY <2>7, <4>1 DEF DeclOK, ExtensionsOK
      <4>3. \A i \in 1..Len(extensions') : Kept(extensions'[i], astray) /\ extensions'[i].kind = "extend"
        BY <2>7, <3>1, <4>2 DEF DeclOK, ExtensionsOK
      <4>4. ExtensionsOK'
        BY <2>4, <4>2, <4>3 DEF ExtensionsOK, Kept
      <4> QED
        BY <2>4, <4>1, <4>4, TypesStay
    <3>2. CASE klass.kind # "extend"
      <4>1. PICK d : d = [klass EXCEPT !.members = Decls!WithDefaultCtor]
        OBVIOUS
      <4>2. Kept(d, astray) /\ HasCtor(d) /\ d.kind = klass.kind
        BY <2>1, <3>2, <4>1, DefaultCtorKeeps
      <4>3. declared' = declared \cup {d} /\ (\A t \in declared : t.name # d.name) /\ UNCHANGED extensions
        BY <2>2, <3>2, <4>1
      <4>4. Kept(d, astray')
        BY <2>4, <4>2 DEF Kept
      <4> QED
        BY <2>4, <3>2, <4>2, <4>3, <4>4, RegisterKeeps, ExtensionsStay
    <3> QED
      BY <3>1, <3>2
  <2> QED
    BY <2>5, <2>6, <2>8 DEF DeclOK
<1> QED
  BY <1>1, <1>2

OtherKinds == {"enum", "methodClass", "eventClass", "alias", "import"}
LEMMA OtherKeeps ==
    ASSUME DeclOK, NEW kind \in OtherKinds, NEW name \in TypeNames, Decls!parseOther(kind, name)
    PROVE  DeclOK'
<1>1. CASE Decls!Fail
  BY <1>1, FailKeeps
<1>2. CASE ~Decls!Fail
  <2> DEFINE c == [kind |-> kind, name |-> name, members |-> {},
                   has |-> Decls!Takes(kind) \cup (IF kind = "methodClass" THEN {"abstract"} ELSE {}),
                   written |-> written]
  <2>1. /\ Decls!TopLevel /\ result = "open" /\ ~Decls!Refuses(kind)
        /\ \/ kind = "import" /\ UNCHANGED <<declared, extensions, result>>
           \/ /\ kind # "import" /\ declared' = declared \cup {c}
              /\ \A t \in declared : t.name # c.name
              /\ UNCHANGED <<extensions, result>>
    BY <1>2 DEF Decls!parseOther, Decls!RegisterClass, Decls!Reading
  <2>2. /\ attrs' = attrs \ Decls!Takes(kind) /\ written' = {}
        /\ astray' = (astray \/ flags \cup (attrs \ Decls!Takes(kind)) # {})
        /\ UNCHANGED <<flags, access, writtenAccess, klass>>
    BY <1>2, <2>1 DEF Decls!parseOther
  <2>3. /\ astray \in BOOLEAN /\ (astray => astray') /\ astray' \in BOOLEAN
        /\ ~astray' => ~astray /\ flags = {} /\ attrs = Decls!Takes(kind)
    BY <2>2 DEF DeclOK, ModifiersOK, Decls!Takes
  <2>4. ModifiersOK'
    BY <2>1, <2>2, <2>3 DEF DeclOK, ModifiersOK, Decls!TopLevel, Modifiers
  <2>5. KlassOK'
    BY <2>1, <2>2 DEF KlassOK, Decls!TopLevel
  <2>6. CASE kind = "import"
    <3>1. TypesOK' /\ ExtensionsOK'
      BY <2>1, <2>3, <2>6, TypesStay, ExtensionsStay
    <3> QED
      BY <2>4, <2>5, <3>1 DEF DeclOK
  <2>7. CASE kind # "import"
    <3>1. c \in ClassRecord
      BY <2>7
      DEF ClassRecord, DeclaredKinds, OtherKinds, Decls!Takes, DeclOK, ModifiersOK, Modifiers, Decls!Flags
    <3>2. OneOfEach(c)
      BY DEF OneOfEach
    <3>3. ~astray' => Decls!AsWritten(c)
      BY <2>3 DEF Decls!AsWritten, DeclOK, ModifiersOK
    <3>4. ~astray' => Faithful(c)
      BY <3>3 DEF Faithful, Decls!MembersAsWritten
    <3>5. HasCtor(c) /\ c.kind # "extend"
      BY <2>7 DEF HasCtor, OtherKinds
    <3>6. declared' = declared \cup {c} /\ (\A t \in declared : t.name # c.name) /\ UNCHANGED extensions
      BY <2>1, <2>7
    <3> HIDE DEF c
    <3>7. TypesOK' /\ ExtensionsOK'
      BY <2>3, <3>1, <3>2, <3>4, <3>5, <3>6, RegisterKeeps, ExtensionsStay DEF Kept
    <3> QED
      BY <2>4, <2>5, <3>7 DEF DeclOK
  <2> QED
    BY <2>6, <2>7
<1> QED
  BY <1>1, <1>2

LEMMA PatchedKeeps ==
    ASSUME NEW c \in ClassRecord, NEW e \in ClassRecord, NEW d, d = Decls!Patched(c, e), ~Decls!BadMerge(c, e),
           OneOfEach(c), OneOfEach(e), HasCtor(c), c.kind # "extend", e.kind = "extend"
    PROVE  d \in ClassRecord /\ OneOfEach(d) /\ HasCtor(d) /\ d.kind = c.kind /\ d.name = c.name
           /\ (Faithful(c) /\ Faithful(e) => Faithful(d))
<1>1. /\ d \in ClassRecord /\ d.kind = c.kind /\ d.name = c.name /\ d.has = c.has /\ d.written = c.written
      /\ d.members = c.members \cup e.members
  BY DEF Decls!Patched, ClassRecord
<1>2. \A m \in c.members, n \in e.members : m.name = n.name => m.name = ""
  BY DEF Decls!BadMerge, Decls!Names
<1>3. \A m \in e.members : m.what # "dtor"
  BY DEF OneOfEach
<1>4. ASSUME NEW m \in d.members, NEW n \in d.members, m # n, m.name = n.name
      PROVE  m.name \in {"", Decls!DefaultCtor}
  <2>1. CASE m \in c.members /\ n \in c.members
    BY <1>4, <2>1 DEF OneOfEach
  <2>2. CASE m \in e.members /\ n \in e.members
    BY <1>4, <2>2 DEF OneOfEach
  <2>3. CASE (m \in c.members /\ n \in e.members) \/ (m \in e.members /\ n \in c.members)
    BY <1>2, <1>4, <2>3
  <2> QED
    BY <1>1, <2>1, <2>2, <2>3
<1>5. ASSUME NEW m \in d.members, NEW n \in d.members, m.what = "dtor", n.what = "dtor",
             "static" \in m.has <=> "static" \in n.has
      PROVE  m = n
  <2>1. m \in c.members /\ n \in c.members
    BY <1>1, <1>3, <1>5
  <2> QED
    BY <1>5, <2>1 DEF OneOfEach
<1>6. OneOfEach(d)
  BY <1>1, <1>4, <1>5 DEF OneOfEach
<1>7. HasCtor(d)
  BY <1>1 DEF HasCtor
<1>8. Faithful(c) /\ Faithful(e) => Faithful(d)
  BY <1>1 DEF Faithful, Decls!MembersAsWritten, Decls!AsWritten
<1> QED
  BY <1>1, <1>6, <1>7, <1>8

LEMMA MergeKeeps == ASSUME DeclOK, Decls!MergeExtension PROVE DeclOK'
<1>1. CASE Decls!Fail
  BY <1>1, FailKeeps
<1>2. CASE ~Decls!Fail
  <2>0. PICK e : e = Head(extensions)
    OBVIOUS
  <2>1. /\ extensions # <<>> /\ extensions' = Tail(extensions) /\ UNCHANGED <<Decls!modifiers, klass, astray>>
        /\ \E c \in declared : c.name = e.name /\ ~Decls!BadMerge(c, e)
        /\ \E c \in declared : c.name = e.name /\ declared' = (declared \ {c}) \cup {Decls!Patched(c, e)}
    BY <1>2, <2>0 DEF Decls!MergeExtension
  <2>2. PICK c \in declared : c.name = e.name /\ ~Decls!BadMerge(c, e)
    BY <2>1
  <2>3. PICK b \in declared : b.name = e.name /\ declared' = (declared \ {b}) \cup {Decls!Patched(b, e)}
    BY <2>1
  <2>4. b = c
    BY <2>2, <2>3 DEF DeclOK, TypesOK
  <2>5. PICK d : d = Decls!Patched(c, e)
    OBVIOUS
  <2>6. declared' = (declared \ {c}) \cup {d}
    BY <2>3, <2>4, <2>5
  <2>7. /\ extensions \in Seq(ClassRecord) /\ 1 \in 1..Len(extensions) /\ e = extensions[1]
        /\ extensions' \in Seq(ClassRecord)
        /\ \A i \in 1..Len(extensions') : i + 1 \in 1..Len(extensions) /\ extensions'[i] = extensions[i + 1]
    BY <2>0, <2>1 DEF DeclOK, ExtensionsOK
  <2>8. Kept(e, astray) /\ e.kind = "extend"
    BY <2>7 DEF DeclOK, ExtensionsOK
  <2>9. Kept(c, astray) /\ HasCtor(c) /\ c.kind # "extend"
    BY <2>2 DEF DeclOK, TypesOK
  <2>10. Kept(d, astray) /\ HasCtor(d) /\ d.kind = c.kind /\ d.name = c.name
    BY <2>2, <2>5, <2>8, <2>9, PatchedKeeps DEF Kept
  <2>11. TypesOK'
    BY <2>1, <2>2, <2>6, <2>9, <2>10 DEF DeclOK, TypesOK
  <2>12. ExtensionsOK'
    BY <2>1, <2>7 DEF DeclOK, ExtensionsOK
  <2>13. UNCHANGED <<flags, attrs, access, written, writtenAccess, klass, astray>>
    BY <2>1 DEF Decls!modifiers
  <2>14. ModifiersOK' /\ KlassOK'
    BY <2>13 DEF DeclOK, ModifiersOK, KlassOK, Decls!TopLevel
  <2> QED
    BY <2>11, <2>12, <2>14 DEF DeclOK
<1> QED
  BY <1>1, <1>2

LEMMA DeclStep == DeclOK /\ (Decls!Next \/ UNCHANGED Decls!vars) => DeclOK'
<1> SUFFICES ASSUME DeclOK, Decls!Next \/ UNCHANGED Decls!vars PROVE DeclOK'
  OBVIOUS
<1>1. CASE UNCHANGED Decls!vars \/ Decls!EndOfModule \/ Decls!Merged
  <2>1. UNCHANGED <<flags, attrs, access, written, writtenAccess, klass, declared, extensions, astray>>
    BY <1>1 DEF Decls!vars, Decls!modifiers, Decls!EndOfModule, Decls!Merged
  <2>2. ModifiersOK' /\ KlassOK'
    BY <2>1 DEF DeclOK, ModifiersOK, KlassOK, Decls!TopLevel
  <2>3. TypesOK' /\ ExtensionsOK'
    BY <2>1 DEF DeclOK, TypesOK, ExtensionsOK
  <2> QED
    BY <2>2, <2>3 DEF DeclOK
<1>2. CASE \E w : \/ Decls!Modifier(w) /\ w \in Decls!Flags
                  \/ Decls!parseAttribute(w) /\ w = "attribute"
                  \/ Decls!Access(w) /\ w \in {"protected", "public"}
  BY <1>2, ModifierKeeps
<1>3. CASE \E k \in Decls!ClassKinds, n \in TypeNames : Decls!BeginClass(k, n)
  BY <1>3, BeginKeeps
<1>4. CASE \E k \in {"field", "property"}, n \in MemberNames : Decls!parseFieldPropertyOrEvent(k, n)
  BY <1>4, FieldKeeps
<1>5. CASE \E n \in MemberNames : Decls!parseConst(n)
  BY <1>5, ConstKeeps
<1>6. CASE \E k \in {"method", "ctor", "dtor"}, n \in MemberNames \cup {""} : Decls!parseMethod(k, n)
  BY <1>6, MethodKeeps
<1>7. CASE Decls!EndClass
  BY <1>7, EndKeeps
<1>8. CASE \E k \in OtherKinds, n \in TypeNames : Decls!parseOther(k, n)
  BY <1>8, OtherKeeps
<1>9. CASE Decls!MergeExtension
  BY <1>9, MergeKeeps
<1> QED
  BY <1>1, <1>2, <1>3, <1>4, <1>5, <1>6, <1>7, <1>8, <1>9 DEF Decls!Next, OtherKinds

LEMMA TwoDtors ==
    ASSUME NEW c, OneOfEach(c) PROVE Cardinality({m \in c.members : m.what = "dtor"}) <= 2
<1> DEFINE Dtors == {m \in c.members : m.what = "dtor"}
           OfClasses == {m \in Dtors : "static" \in m.has}
           OfObjects == {m \in Dtors : "static" \notin m.has}
<1>1. IsFiniteSet(OfClasses) /\ Cardinality(OfClasses) \in 0..1
  <2>1. CASE OfClasses = {}
    BY <2>1, FS_EmptySet
  <2>2. ASSUME NEW m \in OfClasses PROVE OfClasses = {m}
    BY DEF OneOfEach
  <2>3. CASE OfClasses # {}
    <3>1. PICK x \in OfClasses : TRUE
      BY <2>3
    <3>2. OfClasses = {x}
      BY <2>2
    <3>3. IsFiniteSet({x}) /\ Cardinality({x}) = 1
      BY FS_Singleton
    <3> HIDE DEF OfClasses
    <3> QED
      BY <3>2, <3>3
  <2> QED
    BY <2>1, <2>3
<1>2. IsFiniteSet(OfObjects) /\ Cardinality(OfObjects) \in 0..1
  <2>1. CASE OfObjects = {}
    BY <2>1, FS_EmptySet
  <2>2. ASSUME NEW m \in OfObjects PROVE OfObjects = {m}
    BY DEF OneOfEach
  <2>3. CASE OfObjects # {}
    <3>1. PICK x \in OfObjects : TRUE
      BY <2>3
    <3>2. OfObjects = {x}
      BY <2>2
    <3>3. IsFiniteSet({x}) /\ Cardinality({x}) = 1
      BY FS_Singleton
    <3> HIDE DEF OfObjects
    <3> QED
      BY <3>2, <3>3
  <2> QED
    BY <2>1, <2>3
<1>3. Dtors = OfClasses \cup OfObjects /\ OfClasses \cap OfObjects = {}
  OBVIOUS
<1>4. /\ Cardinality(Dtors) = Cardinality(OfClasses) + Cardinality(OfObjects)
                                - Cardinality(OfClasses \cap OfObjects)
      /\ Cardinality(OfClasses \cap OfObjects) = 0
  BY <1>1, <1>2, <1>3, FS_Union, FS_EmptySet
<1> QED
  BY <1>1, <1>2, <1>4

LEMMA DeclarationsAreRight == DeclOK => Decls!DeclaredAsWritten /\ Decls!MembersAreOne
<1> SUFFICES ASSUME DeclOK PROVE Decls!DeclaredAsWritten /\ Decls!MembersAreOne
  OBVIOUS
<1>1. Decls!DeclaredAsWritten
  <2> SUFFICES ASSUME ~astray, NEW c \in declared \cup ({klass} \ {Decls!NoKlass}) PROVE Faithful(c)
    BY DEF Decls!DeclaredAsWritten, Decls!TypesAsWritten, Faithful
  <2> QED
    BY DEF DeclOK, TypesOK, KlassOK, Kept, Decls!TopLevel
<1>2. ASSUME NEW c \in declared
      PROVE  /\ \A m, n \in c.members : m # n /\ m.name = n.name => m.name \in {"", Decls!DefaultCtor}
             /\ Decls!Cardinality({m \in c.members : m.what = "dtor"}) <= 2
             /\ c.kind \in {"class", "struct"} /\ c.has \cap {"abstract", "static"} = {} =>
                   \E m \in c.members : m.what = "ctor" /\ "static" \notin m.has
  <2>1. OneOfEach(c) /\ HasCtor(c)
    BY DEF DeclOK, TypesOK, Kept
  <2>2. PICK D : D = {m \in c.members : m.what = "dtor"}
    OBVIOUS
  <2>3. Decls!Cardinality(D) <= 2
    <3>1. Cardinality(D) <= 2
      BY <2>1, <2>2, TwoDtors
    <3>2. Decls!Cardinality(D) = Cardinality(D)
      BY DEF Decls!Cardinality, Cardinality
    <3> QED
      BY <3>1, <3>2
  <2> QED
    BY <2>1, <2>2, <2>3 DEF OneOfEach, HasCtor
<1> QED
  BY <1>1, <1>2 DEF Decls!MembersAreOne

\* No declaration has modifiers but those that are written before it, and when the
\* extensions are merged a name is one member of a class: for modules of any length
\* with any names.
THEOREM DeclarationsAreKept == MCSpec => []DeclaredAsWritten
<1> DEFINE Inv == which = "declarations" => DeclOK
<1>1. MCInit => Inv
  BY DeclInit DEF MCInit
<1>2. Inv /\ [MCNext]_allVars => Inv'
  <2> SUFFICES ASSUME Inv, [MCNext]_allVars, which' = "declarations" PROVE DeclOK'
    OBVIOUS
  <2>1. which = "declarations"
    BY DEF MCNext, allVars, common
  <2>2. Decls!Next \/ UNCHANGED Decls!vars
    BY <2>1 DEF MCNext, allVars, declVars, Decls!vars, Decls!modifiers
  <2> QED
    BY <2>1, <2>2, DeclStep
<1>3. Inv => DeclaredAsWritten
  BY DeclarationsAreRight DEF DeclaredAsWritten
<1> QED
  BY <1>1, <1>2, <1>3, PTL DEF MCSpec

=============================================================================
