------------------------------ MODULE Hierarchy ------------------------------
(***************************************************************************)
(* Inheritance: the transformer relinks classes to their bases, lays out   *)
(* the method tables and adds destructors (STransformer::inferHierarchies);*)
(* the emitter then turns calls into direct calls where no class overrides *)
(* the method, and into calls through the table where one does.            *)
(*                                                                         *)
(* A method is its declaring class and its name.                           *)
(***************************************************************************)
EXTENDS Naturals, Sequences, FiniteSets, SequencesExt, FiniteSetsExt

CONSTANTS Class,       \* the classes of the source
          Proxy,       \* the foreign proxy of one of them, made during inference
          NoClass,
          Name,        \* names of methods
          Shapes,      \* the kinds of methods the source has: a subset of
                       \* {"plain", "abstract", "private", "other"}; "other" is a
                       \* plain method of another signature
          MaxMethods   \* bound: the methods a program declares

All == Class \cup {Proxy}
HierarchyAssumption == /\ IsFiniteSet(Class) /\ IsFiniteSet(Name) /\ Class # {}
                       /\ Proxy \notin Class /\ NoClass \notin All

Method == All \X Name

VARIABLES base, own, shape, dtors,    \* of the source: bases, methods, destructors
          abstract,                   \* the classes that may be abstract
          order,       \* CDomain::Classes()
          phase,       \* "check", "proxies", "emit", or "failed"
          pos,         \* the class of `order' that is checked or finalized
          checked,     \* how far up its bases the search for a cycle has come
          methods,     \* m_instanceMethods
          finalized,   \* the classes with E_CLASSFLAGS_IS_METHODLIST_FINALIZED
          index,       \* m_vtableIndex
          baseMethod,  \* m_baseMethod
          virtual,     \* the methods with E_METHODFLAGS_IS_TRULY_VIRTUAL
          dtor         \* the classes with an m_instanceDtor
source == <<base, own, shape, dtors, abstract>>
tables == <<methods, finalized, index, baseMethod, virtual>>
vars   == <<source, order, phase, pos, checked, tables, dtor>>

NameOf(m) == m[2]
Entries(c) == ToSet(methods[c])
SumOfLengths == MapThenSumSet(LAMBDA c : Len(own[c]), Class)
OwnMethods(c) == [i \in DOMAIN own[c] |-> <<c, own[c][i]>>]

Acyclic(b) == \A S \in SUBSET Class : S # {} => \E c \in S : b[c] \notin S

\* The programs: destructors and methods have nothing to do with each other, and
\* the search for cycles with neither, so each program has one of them.
\* SetToSeqs(S) are the orders of S.
NoMethods == \A c \in Class : own[c] = <<>>
Init == /\ base \in {[c \in All |-> IF c = Proxy THEN NoClass ELSE b[c]] :
                         b \in [Class -> Class \cup {NoClass}]}
        /\ own \in {[c \in All |-> IF c = Proxy THEN <<>> ELSE o[c]] :
                        o \in [Class -> UNION {SetToSeqs(S) : S \in SUBSET Name}]}
        /\ SumOfLengths <= MaxMethods
        /\ ~Acyclic(base) => NoMethods
        /\ dtors \in SUBSET Class
        /\ dtors # {} => NoMethods /\ Acyclic(base)
        /\ \E special \in SUBSET (Class \X Name), s \in Shapes :
              /\ Cardinality(special) <= 1
              /\ \A m \in special : NameOf(m) \in ToSet(own[m[1]]) /\ s # "plain"
              /\ special = {} => s = "plain"
              /\ shape = [m \in Method |-> IF m \in special THEN s ELSE "plain"]
        /\ abstract = {c \in Class : \E n \in ToSet(own[c]) : shape[<<c, n>>] = "abstract"}
        /\ order = SetToSeq(Class)    \* one stands for all, as base is arbitrary
        /\ phase = "check" /\ pos = 1 /\ checked = base[Head(order)]
        /\ methods = [c \in All |-> OwnMethods(c)]
        /\ finalized = {}
        /\ index = [m \in Method |-> 0]
        /\ baseMethod = [m \in Method |-> m]
        /\ virtual = {}
        /\ dtor = dtors

\* A class with its bases.
HasBases(S) == \A d \in S : base[d] = NoClass \/ base[d] \in S
Chain(c) == {d \in All : \A S \in SUBSET All : c \in S /\ HasBases(S) => d \in S}

Current == order[pos]
Fail == /\ phase' = "failed"
        /\ UNCHANGED <<source, order, pos, checked, tables, dtor>>

\* CheckCyclicDependencyInHierarchy, one call.
CheckBase ==
    /\ phase = "check" /\ checked # NoClass
    /\ IF checked = Current THEN Fail
       ELSE /\ checked' = base[checked]
            /\ UNCHANGED <<source, order, phase, pos, tables, dtor>>

-----------------------------------------------------------------------------
\* MakeSureMethodsFinalized. The table starts as that of the base; each own
\* method takes the place of the one it overrides or is added behind.
Slot(list, n) == IF \E i \in DOMAIN list : NameOf(list[i]) = n
                 THEN CHOOSE i \in DOMAIN list : NameOf(list[i]) = n ELSE 0
Added(list, m) == IF Slot(list, NameOf(m)) = 0 THEN Append(list, m)
                  ELSE [list EXCEPT ![Slot(list, NameOf(m))] = m]
Inherited(c) == IF base[c] = NoClass THEN <<>> ELSE methods[base[c]]
\* Mutant of Table: overriding methods are added as well.
TableAppended(c) == Inherited(c) \o OwnMethods(c)
Table(c) == LET T[i \in 0..Len(own[c])] ==
                  IF i = 0 THEN Inherited(c) ELSE Added(T[i - 1], OwnMethods(c)[i])
            IN T[Len(own[c])]

\* Mutant of Overridden: a method that overrides an inherited one is not seen
\* where the base has only inherited it.
OverriddenNear(c) == {m \in ToSet(Inherited(c)) : NameOf(m) \in ToSet(own[c]) /\ m[1] = base[c]}
Overridden(c) == {m \in ToSet(Inherited(c)) : NameOf(m) \in ToSet(own[c])}
Signature(m) == IF shape[m] = "other" THEN 2 ELSE 1
Rejected(c) ==
    \/ \E m \in Overridden(c) : \/ Signature(m) # Signature(<<c, NameOf(m)>>)
                                \/ shape[m] = "private"
    \/ c \notin abstract /\ \E m \in ToSet(Table(c)) : shape[m] = "abstract"

\* What the finalization of c leaves, base first.
Finalized(c) ==
    /\ methods' = [methods EXCEPT ![c] = Table(c)]
    /\ finalized' = finalized \cup {c}
    /\ index' = [m \in Method |-> IF m \in ToSet(OwnMethods(c))
                                  THEN Slot(Table(c), NameOf(m)) ELSE index[m]]
    /\ baseMethod' = [m \in Method |->
            IF m[1] = c /\ \E o \in Overridden(c) : NameOf(o) = NameOf(m)
            THEN CHOOSE o \in Overridden(c) : NameOf(o) = NameOf(m) ELSE baseMethod[m]]
    /\ virtual' = virtual \cup Overridden(c) \cup {<<c, NameOf(m)>> : m \in Overridden(c)}

\* Mutant of WithEmptyDtors: the fix is left out.
NoEmptyDtors == dtors
HasBaseDtors(c) == \E d \in dtors \ {c} : d \in Chain(c)
\* The third loop: an empty destructor calls those of the bases.
WithEmptyDtors == dtors \cup {c \in Class : HasBaseDtors(c)}

\* The call for the current class; the recursion finalizes its bases first.
Finalize(c) ==
    /\ phase = "check" /\ checked = NoClass
    /\ c \notin finalized /\ (base[c] = NoClass \/ base[c] \in finalized)
    /\ c \in Chain(Current)
    /\ IF Rejected(c) THEN Fail
       ELSE Finalized(c) /\ UNCHANGED <<source, order, phase, pos, checked, dtor>>

NextClass ==
    /\ phase = "check" /\ checked = NoClass /\ Current \in finalized
    /\ IF pos < Len(order)
       THEN /\ pos' = pos + 1 /\ checked' = base[order[pos + 1]]
            /\ UNCHANGED <<phase, dtor>>
       ELSE /\ phase' = "proxies" /\ dtor' = WithEmptyDtors
            /\ UNCHANGED <<pos, checked>>
    /\ UNCHANGED <<source, order, tables>>

\* resolveForeignProxy: the proxy of class c overrides all methods of c with
\* stubs; the queue of classes then has its method list finalized.
ResolveForeignProxy(c) ==
    /\ phase = "proxies" /\ base[Proxy] = NoClass
    /\ base' = [base EXCEPT ![Proxy] = c]
    /\ own' = [own EXCEPT ![Proxy] = [i \in DOMAIN methods[c] |-> NameOf(methods[c][i])]]
    /\ shape' = [m \in Method |->
            IF m[1] = Proxy /\ \E o \in Entries(c) : NameOf(o) = NameOf(m) /\ shape[o] = "other"
            THEN "other" ELSE shape[m]]
    /\ methods' = [methods EXCEPT ![Proxy] =
                     [i \in DOMAIN methods[c] |-> <<Proxy, NameOf(methods[c][i])>>]]
    /\ UNCHANGED <<dtors, abstract, order, phase, pos, checked, finalized, index,
                   baseMethod, virtual, dtor>>

FinalizeProxy ==
    /\ phase = "proxies" /\ base[Proxy] # NoClass /\ Proxy \notin finalized
    /\ IF Rejected(Proxy) THEN Fail
       ELSE Finalized(Proxy) /\ UNCHANGED <<source, order, phase, pos, checked, dtor>>

SkizoEmit ==
    /\ phase = "proxies" /\ (base[Proxy] # NoClass => Proxy \in finalized)
    /\ phase' = "emit"
    /\ UNCHANGED <<source, order, pos, checked, tables, dtor>>

Next == \/ CheckBase
        \/ \E c \in Class : Finalize(c) \/ ResolveForeignProxy(c)
        \/ NextClass \/ FinalizeProxy \/ SkizoEmit
Spec == Init /\ [][Next]_vars

-----------------------------------------------------------------------------
\* Emitted code. A call of name n on an expression of class s finds its target
\* in the table of s (CClass::MyMethod).
Compiled == phase = "emit"
Target(s, n) == methods[s][Slot(methods[s], n)]
\* CMethod::UltimateBaseMethod goes from a method to its base while there is one.
GoesTo(m, u) == \A S \in SUBSET (All \X {NameOf(m)}) :
                    m \in S /\ (\A o \in S : baseMethod[o] \in S) => u \in S
UltimateBase(m) == CHOOSE u \in Method : baseMethod[u] = u /\ GoesTo(m, u)

\* emitCallExpr: through the table of the object, at the index of the ultimate
\* base method, or directly. d is the class of the object.
IsDispatched(m) == m \in virtual \/ shape[m] = "abstract"
\* Mutant of Callee: a method that overrides none is called directly.
CalleeOfBase(s, d, n) ==
    IF baseMethod[Target(s, n)] # Target(s, n)
    THEN methods[d][index[UltimateBase(Target(s, n))]] ELSE Target(s, n)
Callee(s, d, n) ==
    IF IsDispatched(Target(s, n)) THEN methods[d][index[UltimateBase(Target(s, n))]]
    ELSE Target(s, n)

\* The destructor of a class calls that of its base, then runs its own body.
CalledDtors == LET D[c \in Class] ==
                     IF c \notin dtor THEN <<>>
                     ELSE (IF base[c] = NoClass THEN <<>> ELSE D[base[c]])
                          \o (IF c \in dtors THEN <<c>> ELSE <<>>)
               IN D

\* The helper of a call through the table of m (ShouldEmitVCH), in a program
\* that calls the methods `called'.
HasHelper(m, called) == \/ m \in virtual /\ base[m[1]] = NoClass
                        \/ m \in called /\ shape[m] = "abstract"

-----------------------------------------------------------------------------
Root(c) == CHOOSE r \in Chain(c) : base[r] = NoClass
\* The declaration of n nearest to class d.
Declaring(d, n) == {b \in Chain(d) : n \in ToSet(own[b])}
Nearest(d, n) == <<CHOOSE b \in Declaring(d, n) : Declaring(d, n) \subseteq Chain(b), n>>
Declares(c, n) == Declaring(c, n) # {}

\* A method of a base has the same place in the tables of all classes derived
\* from it, whatever they override and add.
TablesLineUp ==
    \A c \in finalized : base[c] # NoClass =>
        /\ Len(methods[base[c]]) <= Len(methods[c])
        /\ \A i \in DOMAIN methods[base[c]] : NameOf(methods[c][i]) = NameOf(methods[base[c]][i])
        /\ \A m \in Entries(c) : index[m] = Slot(methods[c], NameOf(m))

\* Whatever the type of the expression, a call reaches the method the object's
\* class has for that name: calls the emitter makes direct are those that no
\* class overrides, the foreign proxies included.
CallsReachTheNearest ==
    Compiled => \A d \in finalized \ abstract : \A s \in Chain(d), n \in Name :
                    Declares(s, n) => Callee(s, d, n) = Nearest(d, n)

\* The destruction of an object runs every destructor its class inherits, from
\* the hierarchy's root down to its own, each once.
AllDestructorsRun ==
    Compiled => \A c \in Class :
        /\ ToSet(CalledDtors[c]) = Chain(c) \cap dtors
        /\ \A i, j \in DOMAIN CalledDtors[c] : i < j =>
              CalledDtors[c][i] # CalledDtors[c][j] /\ CalledDtors[c][i] \in Chain(CalledDtors[c][j])

\* A program in which, of every cycle, some class is checked before the classes
\* below the cycle.
InCycle(c) == c \in Class /\ base[c] # NoClass /\ c \in Chain(base[c])
CyclesFirst == \A c \in Class : (~InCycle(c) /\ \E d \in Chain(c) : InCycle(d)) =>
                   \E i, j \in DOMAIN order : /\ order[j] = c /\ i < j
                                               /\ order[i] \in Chain(c) /\ InCycle(order[i])
CaughtIn(c) == InCycle(c) /\ Current \notin Chain(c)

\* In such a program the search never walks round a cycle that Current is not on;
\* where the search has passed, no cycle is left for the recursion that finalizes
\* the bases; and nothing but a cycle or a wrong method fails.
CyclesAreReported ==
    /\ CyclesFirst /\ checked # NoClass => ~CaughtIn(checked)
    /\ phase = "check" /\ checked = NoClass => \A c \in Chain(Current) : ~InCycle(c)
    /\ phase = "failed" => \E c \in All : InCycle(c) \/ Rejected(c)

\* "placed after ::CheckCyclicDependencyInHierarchy, otherwise ::HasBaseDtors
\* could stackoverflow" (Transformer.cpp:201): the search itself always ends.
SearchEnds == checked # NoClass => ~CaughtIn(checked)

\* "Is this method a truly virtual root of an hierarchy? If that's the case, emit
\* a VCH" (Method.h:273): the helper a call uses is there.
HelpersExist ==
    Compiled => \A s \in finalized, n \in Name :
        Declares(s, n) /\ IsDispatched(Target(s, n)) =>
            HasHelper(UltimateBase(Target(s, n)), {Target(s, n)})
=============================================================================
