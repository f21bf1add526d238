----------------------------- MODULE RuntimeProofs -----------------------------
(***************************************************************************)
(* Proofs about the stacks of module VirtualStack, with any methods and    *)
(* stacks of any depth; about what dependency injection keeps, with any    *)
(* classes and constructors; about the text of any program; and about a    *)
(* thread object, with any number of users and threads.                    *)
(***************************************************************************)
EXTENDS MCRuntime, SequenceTheorems, FiniteSetTheorems, NaturalsInduction, WellFoundedInduction,
        TLAPS

\* What an entry of a stack can be: a call of a method or a handler; only a method that
\* has a frame registers locals, and a static constructor is called by nobody else.
EntriesOK(cs) ==
    /\ cs \in Seq(Entries)
    /\ \A i \in 1..Len(cs) : /\ cs[i].kind = "method" => cs[i].method \in Methods
                             /\ cs[i].kind # "method" => cs[i].method = None
                             /\ cs[i].locals => Framed(cs[i])
                             /\ cs[i].kind = "cctor" => i = 1

\* What StackBalanced says of three stacks, and more if nothing has been left behind.
Kept(cs, fs, ds, left) ==
    /\ FramesKept(cs, fs)
    /\ left = FALSE => LocalsKept(cs, ds) /\ Exact(cs)
StackInv == /\ TypeOK /\ EntriesOK(calls)
            /\ StackBalanced /\ FailedClassStaysIdle

LEMMA EmptyLen ==
  ASSUME NEW S, NEW s \in Seq(S)
  PROVE  s = <<>> <=> Len(s) = 0
  BY EmptySeq

LEMMA FirstOfFacts ==
  ASSUME NEW S, NEW s \in Seq(S), NEW n \in Nat
  PROVE  /\ FirstOf(s, n) \in Seq(S)
         /\ Len(FirstOf(s, n)) = IF n < Len(s) THEN n ELSE Len(s)
         /\ Len(FirstOf(s, n)) \in Nat /\ Len(s) \in Nat
         /\ \A i \in 1..Len(FirstOf(s, n)) : i \in 1..Len(s) /\ FirstOf(s, n)[i] = s[i]
  <1> DEFINE m == IF n < Len(s) THEN n ELSE Len(s)
  <1>1. m \in Nat /\ m <= Len(s) /\ Len(s) \in Nat
    BY LenProperties
  <1>2. \A i \in 1..m : s[i] \in S
    BY <1>1, ElementOfSeq
  <1>3. FirstOf(s, n) = SubSeq(s, 1, m)
    BY DEF FirstOf
  <1> HIDE DEF m
  <1>4. /\ SubSeq(s, 1, m) \in Seq(S)
        /\ Len(SubSeq(s, 1, m)) = IF 1 <= m THEN m - 1 + 1 ELSE 0
        /\ \A i \in 1..(m - 1 + 1) : SubSeq(s, 1, m)[i] = s[1 + i - 1]
    BY <1>1, <1>2, SubSeqProperties
  <1>5. Len(SubSeq(s, 1, m)) = m
    BY <1>1, <1>4
  <1>6. \A i \in 1..m : SubSeq(s, 1, m)[i] = s[i]
    BY <1>1, <1>4
  <1> QED BY <1>1, <1>3, <1>4, <1>5, <1>6 DEF m

LEMMA CutFacts ==
  ASSUME NEW S, NEW s \in Seq(S), NEW n \in Nat, n <= Len(s)
  PROVE  /\ FirstOf(s, n) \in Seq(S) /\ Len(FirstOf(s, n)) = n /\ DOMAIN FirstOf(s, n) = 1..n
         /\ \A i \in 1..n : i \in 1..Len(s) /\ FirstOf(s, n)[i] = s[i]
  <1>1. /\ FirstOf(s, n) \in Seq(S) /\ Len(s) \in Nat
        /\ \A i \in 1..Len(FirstOf(s, n)) : i \in 1..Len(s) /\ FirstOf(s, n)[i] = s[i]
    BY FirstOfFacts
  <1>2. Len(FirstOf(s, n)) = IF n < Len(s) THEN n ELSE Len(s)
    BY FirstOfFacts
  <1>3. Len(FirstOf(s, n)) = n
    BY <1>1, <1>2
  <1>4. DOMAIN FirstOf(s, n) = 1..n
    BY <1>1, <1>3, LenProperties
  <1> QED BY <1>1, <1>3, <1>4

\* A part of the stack is left with what belongs to it.
LEMMA PartIsKept ==
  ASSUME NEW cs, EntriesOK(cs), NEW n \in Nat, n <= Len(cs),
         NEW fs \in Seq(Methods), NEW ds \in Seq(Methods),
         NEW left, Kept(cs, fs, ds, left)
  PROVE  EntriesOK(FirstOf(cs, n)) /\ Kept(FirstOf(cs, n), fs, ds, left)
  <1> DEFINE part == FirstOf(cs, n)
  <1>1. cs \in Seq(Entries)
    BY DEF EntriesOK
  <1>2. /\ part \in Seq(Entries) /\ Len(part) = n /\ Len(cs) \in Nat
        /\ \A i \in 1..n : i \in 1..Len(cs) /\ part[i] = cs[i]
        /\ DOMAIN part = 1..n /\ DOMAIN cs = 1..Len(cs)
    BY <1>1, CutFacts, LenProperties
  <1> HIDE DEF part
  <1>3. EntriesOK(part)
    BY <1>2 DEF EntriesOK
  <1>4. FramesKept(part, fs)
    BY <1>2 DEF FramesKept, Kept
  <1>5. left = FALSE => LocalsKept(part, ds)
    BY <1>2 DEF LocalsKept, Kept
  <1>6. left = FALSE => Exact(part)
    <2> SUFFICES ASSUME left = FALSE, NEW i \in 1..n
                 PROVE  /\ part[i].frames = IF i = 1 THEN 0 ELSE FramesAfter(part[i - 1])
                        /\ part[i].debug  = IF i = 1 THEN 0 ELSE LocalsAfter(part[i - 1])
      BY <1>2 DEF Exact
    <2>1. i = 1 \/ i - 1 \in 1..n
      OBVIOUS
    <2> QED BY <1>2, <2>1 DEF Kept, Exact
  <1> QED BY <1>3, <1>4, <1>5, <1>6 DEF Kept, part

\* The stack is left with a handler, and what was pushed after it is cut off.
LEMMA CutBack ==
  ASSUME NEW cs, EntriesOK(cs), NEW h \in 1..Len(cs),
         NEW fs \in Seq(Methods), NEW ds \in Seq(Methods),
         NEW left, Kept(cs, fs, ds, left)
  PROVE  /\ Kept(FirstOf(cs, h - 1), FirstOf(fs, cs[h].frames), FirstOf(ds, cs[h].debug), left)
         /\ Len(FirstOf(fs, cs[h].frames)) = cs[h].frames
         /\ left = FALSE => Len(FirstOf(ds, cs[h].debug)) = cs[h].debug
  <1> DEFINE part == FirstOf(cs, h - 1)
             f    == FirstOf(fs, cs[h].frames)
             d    == FirstOf(ds, cs[h].debug)
  <1>1. cs \in Seq(Entries) /\ Len(cs) \in Nat /\ h - 1 \in Nat /\ h - 1 <= Len(cs)
    BY LenProperties DEF EntriesOK
  <1>2. \A i \in 1..Len(cs) : cs[i] \in Entries
    BY <1>1, ElementOfSeq
  <1>3. /\ part \in Seq(Entries) /\ Len(part) = h - 1
        /\ \A i \in 1..(h - 1) : i \in 1..Len(cs) /\ part[i] = cs[i]
        /\ DOMAIN part = 1..(h - 1) /\ DOMAIN cs = 1..Len(cs)
    BY ONLY <1>1, CutFacts, LenProperties DEF part
  <1>4. \A i \in 1..Len(cs) : /\ cs[i].frames \in Nat /\ cs[i].debug \in Nat
                              /\ FramesAfter(cs[i]) \in Nat /\ cs[i].frames <= FramesAfter(cs[i])
                              /\ LocalsAfter(cs[i]) \in Nat /\ cs[i].debug <= LocalsAfter(cs[i])
                              /\ Framed(cs[i]) => FramesAfter(cs[i]) = cs[i].frames + 1
                              /\ cs[i].locals => LocalsAfter(cs[i]) = cs[i].debug + 1
    BY <1>2 DEF Entries, FramesAfter, LocalsAfter
  <1>5. /\ Len(fs) \in Nat /\ Len(ds) \in Nat
        /\ Len(f) = IF cs[h].frames < Len(fs) THEN cs[h].frames ELSE Len(fs)
        /\ Len(d) = IF cs[h].debug < Len(ds) THEN cs[h].debug ELSE Len(ds)
        /\ \A i \in 1..Len(f) : f[i] = fs[i]
        /\ \A i \in 1..Len(d) : d[i] = ds[i]
    BY <1>4, FirstOfFacts
  <1>6. Kept(part, fs, ds, left)
    BY <1>1, PartIsKept
  <1> HIDE DEF part, f, d
  <1>7. Len(f) = cs[h].frames
    <2>1. FramesAfter(cs[h]) <= Len(fs)
      BY <1>3 DEF Kept, FramesKept
    <2> QED BY <1>4, <1>5, <2>1
  <1>8. left = FALSE => Len(d) = cs[h].debug
    <2>1. left = FALSE => LocalsAfter(cs[h]) <= Len(ds)
      BY <1>3 DEF Kept, LocalsKept
    <2> QED BY <1>4, <1>5, <2>1
  <1>9. FramesKept(part, f)
    <2> SUFFICES ASSUME NEW i \in 1..(h - 1)
                 PROVE  /\ FramesAfter(part[i]) <= Len(f)
                        /\ \A j \in 1..(i - 1) : FramesAfter(part[j]) <= part[i].frames
                        /\ Framed(part[i]) => f[part[i].frames + 1] = part[i].method
      BY <1>3 DEF FramesKept
    <2>1. /\ \A j \in 1..(i - 1) : FramesAfter(part[j]) <= part[i].frames
          /\ Framed(part[i]) => fs[part[i].frames + 1] = part[i].method
      BY <1>3, <1>6 DEF Kept, FramesKept
    <2>2. FramesAfter(part[i]) <= Len(f)
      <3>1. FramesAfter(cs[i]) <= cs[h].frames
        BY <1>3 DEF Kept, FramesKept
      <3> QED BY <1>3, <1>7, <3>1
    <2>3. Framed(part[i]) => part[i].frames + 1 \in 1..Len(f)
      <3>1. i \in 1..Len(cs) /\ part[i] = cs[i]
        BY <1>3
      <3>2. cs[i].frames \in Nat /\ (Framed(cs[i]) => FramesAfter(cs[i]) = cs[i].frames + 1)
        BY <1>4, <3>1
      <3> QED BY <1>4, <1>7, <2>2, <3>1, <3>2
    <2> QED BY <2>1, <2>2, <2>3, <1>5
  <1>10. left = FALSE => LocalsKept(part, d)
    <2> SUFFICES ASSUME left = FALSE, NEW i \in 1..(h - 1)
                 PROVE  /\ LocalsAfter(part[i]) <= Len(d)
                        /\ \A j \in 1..(i - 1) : LocalsAfter(part[j]) <= part[i].debug
                        /\ part[i].locals => d[part[i].debug + 1] = part[i].method
      BY <1>3 DEF LocalsKept
    <2>1. /\ \A j \in 1..(i - 1) : LocalsAfter(part[j]) <= part[i].debug
          /\ part[i].locals => ds[part[i].debug + 1] = part[i].method
      BY <1>3, <1>6 DEF Kept, LocalsKept
    <2>2. LocalsAfter(part[i]) <= Len(d)
      <3>1. LocalsAfter(cs[i]) <= cs[h].debug
        BY <1>3 DEF Kept, LocalsKept
      <3> QED BY <1>3, <1>8, <3>1
    <2>3. part[i].locals => part[i].debug + 1 \in 1..Len(d)
      <3>1. i \in 1..Len(cs) /\ part[i] = cs[i]
        BY <1>3
      <3>2. cs[i].debug \in Nat /\ (cs[i].locals => LocalsAfter(cs[i]) = cs[i].debug + 1)
        BY <1>4, <3>1
      <3> QED BY <1>4, <1>8, <2>2, <3>1, <3>2
    <2> QED BY <2>1, <2>2, <2>3, <1>5
  <1> QED BY <1>6, <1>7, <1>8, <1>9, <1>10 DEF Kept, part, f, d

\* An exception, whoever takes it, leaves the stacks as they should be.
LEMMA ThrowKeeps ==
  ASSUME VirtualStackAssumption, TypeOK, NEW cs, EntriesOK(cs),
         NEW fs \in Seq(Methods), NEW ds \in Seq(Methods), NEW thrown,
         Throw(thrown, cs, fs, ds), corrected' \in BOOLEAN,
         corrected' = FALSE => Kept(cs, fs, ds, leaked),
         initialized = FALSE => \A i \in 1..Len(cs) : cs[i].method \notin Guarded
  PROVE  StackInv'
  <1>1. cs \in Seq(Entries) /\ Len(cs) \in Nat /\ DOMAIN cs = 1..Len(cs)
    BY LenProperties DEF EntriesOK
  <1>2. CASE CatchesNone(cs, 1, thrown) /\ calls' = <<>> /\ frames' = fs /\ debug' = ds
             /\ leaked' = (leaked \/ fs # <<>> \/ ds # <<>>)
             /\ phase' = PhaseUncaught /\ UNCHANGED initialized
    <2>1. /\ <<>> \in Seq(Entries) /\ DOMAIN <<>> = {} /\ Len(<<>>) = 0 /\ 1..0 = {}
      BY EmptySeq
    <2>2. EntriesOK(calls')
      BY <1>2, <2>1 DEF EntriesOK
    <2>3. TypeOK'
      <3>1. phase' \in {"prolog", "main", "dying", "ended", "terminated"}
        BY <1>2 DEF PhaseUncaught
      <3>2. leaked' \in BOOLEAN /\ initialized' \in BOOLEAN
        BY <1>2 DEF TypeOK
      <3> QED BY <1>2, <2>1, <3>1, <3>2 DEF TypeOK
    <2>4. StackBalanced'
      <3>1. FramesKept(calls', frames') /\ LocalsKept(calls', debug') /\ Exact(calls')
        BY <1>2, <2>1 DEF FramesKept, LocalsKept, Exact
      <3>2. leaked' = FALSE => frames' = <<>> /\ debug' = <<>>
        BY <1>2
      <3>3. leaked' = FALSE => NothingElse(calls', frames', debug')
        BY <1>2, <2>1, <3>2 DEF NothingElse
      <3> QED BY <3>1, <3>3 DEF StackBalanced
    <2>5. FailedClassStaysIdle'
      BY <1>2, <2>1 DEF FailedClassStaysIdle
    <2> QED BY <2>2, <2>3, <2>4, <2>5 DEF StackInv
  <1>3. ASSUME NEW h \in 1..Len(cs),
               Catches(cs[h].kind, thrown),
               calls' = FirstOf(cs, IF cs[h].kind = "listen" THEN h ELSE h - 1),
               Unwind(fs, ds, cs[h]),
               leaked' = (leaked \/ LeavesBehind(fs, ds, cs[h])),
               initialized' = (initialized /\ cs[h].kind # "cctor"),
               phase' = PhaseAfter(cs[h].kind)
        PROVE  StackInv'
    <2>0. PICK n \in Nat : n = IF cs[h].kind = "listen" THEN h ELSE h - 1
      BY <1>1
    <2>1. n \in Nat /\ n <= Len(cs) /\ h - 1 \in Nat
      BY <1>1, <2>0
    <2>2. /\ calls' = FirstOf(cs, n) /\ calls' \in Seq(Entries) /\ Len(calls') = n
          /\ \A i \in 1..n : i \in 1..Len(cs) /\ calls'[i] = cs[i]
          /\ DOMAIN calls' = 1..n /\ (calls' = <<>> <=> n = 0)
      <3>1. calls' = FirstOf(cs, n)
        BY <1>3, <2>0
      <3>2. /\ FirstOf(cs, n) \in Seq(Entries) /\ Len(FirstOf(cs, n)) = n
            /\ \A i \in 1..n : i \in 1..Len(cs) /\ FirstOf(cs, n)[i] = cs[i]
        <4> n \in Nat /\ cs \in Seq(Entries)
          BY <1>1, <2>1
        <4>1. FirstOf(cs, n) \in Seq(Entries)
          BY ONLY n \in Nat, cs \in Seq(Entries), FirstOfFacts
        <4>1a. Len(FirstOf(cs, n)) = IF n < Len(cs) THEN n ELSE Len(cs)
          BY ONLY n \in Nat, cs \in Seq(Entries), FirstOfFacts
        <4>2. \A i \in 1..Len(FirstOf(cs, n)) : i \in 1..Len(cs) /\ FirstOf(cs, n)[i] = cs[i]
          BY ONLY n \in Nat, cs \in Seq(Entries), FirstOfFacts
        <4>3. Len(FirstOf(cs, n)) = n
          <5>1. Len(cs) \in Nat /\ n \in Nat /\ n <= Len(cs)
            BY <1>1, <2>1
          <5> QED BY ONLY <5>1, <4>1a
        <4> QED BY <4>1, <4>2, <4>3
      <3>3. DOMAIN FirstOf(cs, n) = 1..n
        BY <3>2, LenProperties
      <3>4. FirstOf(cs, n) = <<>> <=> n = 0
        BY <3>2, EmptyLen
      <3> QED BY <3>1, <3>2, <3>3, <3>4
    <2>4. cs[h] \in Entries /\ cs[h].frames \in Nat /\ cs[h].debug \in Nat /\ cs[h].kind \in Kinds
      <3>1. cs[h] \in Entries
        BY <1>1, ElementOfSeq
      <3> QED BY <3>1 DEF Entries
    <2>5. cs[h].kind # "method"
      BY <1>3 DEF Catches
    <2>6. ~Framed(cs[h]) /\ ~cs[h].locals
      BY <2>5, <2>4 DEF Framed, EntriesOK, Entries
    <2>7. FramesAfter(cs[h]) = cs[h].frames /\ LocalsAfter(cs[h]) = cs[h].debug
      BY <2>4, <2>6 DEF FramesAfter, LocalsAfter
    <2>8. EntriesOK(calls')
      BY <2>2 DEF EntriesOK
    <2>9. phase' \in {"prolog", "main", "dying", "ended", "terminated"}
          /\ initialized' \in BOOLEAN /\ leaked' \in BOOLEAN
      BY <1>3 DEF PhaseAfter, TypeOK, LeavesBehind
    <2>10. FailedClassStaysIdle'
      <3>1. CASE cs[h].kind = "cctor"
        <4>1. n = 0
          BY <2>0, <3>1 DEF EntriesOK
        <4> QED BY <2>2, <4>1 DEF FailedClassStaysIdle
      <3>2. CASE cs[h].kind # "cctor"
        BY <1>3, <2>2, <3>2 DEF FailedClassStaysIdle, TypeOK
      <3> QED BY <3>1, <3>2
    <2>11. CASE cs[h].kind \in {"try", "cctor"}
      <3>1. /\ frames' = FirstOf(fs, cs[h].frames) /\ debug' = FirstOf(ds, cs[h].debug)
            /\ n = h - 1 /\ leaked' = leaked
        BY <1>3, <2>0, <2>11 DEF Unwind, LeavesBehind, TypeOK
      <3>2. frames' \in Seq(Methods) /\ debug' \in Seq(Methods)
        BY <2>4, <3>1, FirstOfFacts
      <3>3. ASSUME corrected' = FALSE
            PROVE  /\ Kept(calls', frames', debug', leaked)
                   /\ Len(frames') = cs[h].frames
                   /\ leaked = FALSE => Len(debug') = cs[h].debug
        <4>1. Kept(cs, fs, ds, leaked)
          BY <3>3
        <4>2. /\ Kept(FirstOf(cs, h - 1), FirstOf(fs, cs[h].frames),
                      FirstOf(ds, cs[h].debug), leaked)
              /\ Len(FirstOf(fs, cs[h].frames)) = cs[h].frames
              /\ leaked = FALSE => Len(FirstOf(ds, cs[h].debug)) = cs[h].debug
          BY ONLY <4>1, EntriesOK(cs), h \in 1..Len(cs), fs \in Seq(Methods), ds \in Seq(Methods), CutBack
        <4> QED BY <2>2, <3>1, <4>2
      <3>4. ASSUME corrected' = FALSE, leaked = FALSE
            PROVE  NothingElse(calls', frames', debug')
        <4>1. /\ cs[h].frames = IF h = 1 THEN 0 ELSE FramesAfter(cs[h - 1])
              /\ cs[h].debug = IF h = 1 THEN 0 ELSE LocalsAfter(cs[h - 1])
          BY <1>1, <3>4 DEF Kept, Exact
        <4>2. (calls' = <<>> <=> h = 1) /\ (h # 1 => calls'[Len(calls')] = cs[h - 1])
          BY <2>2, <3>1
        <4> QED BY <3>3, <3>4, <4>1, <4>2 DEF NothingElse
      <3>5. StackBalanced'
        BY <3>1, <3>3, <3>4 DEF StackBalanced, Kept
      <3> QED BY <2>2, <2>8, <2>9, <2>10, <3>2, <3>5 DEF StackInv, TypeOK
    <2>12. CASE cs[h].kind \notin {"try", "cctor"}
      <3>1. frames' = fs /\ debug' = ds
        BY <1>3, <2>12 DEF Unwind
      <3>2. ASSUME corrected' = FALSE
            PROVE  Kept(calls', frames', debug', leaked)
        BY <2>1, <2>2, <3>1, <3>2, PartIsKept
      <3>3. ASSUME corrected' = FALSE, leaked' = FALSE
            PROVE  leaked = FALSE /\ NothingElse(calls', frames', debug')
        <4>1. leaked = FALSE /\ Len(fs) <= cs[h].frames /\ Len(ds) <= cs[h].debug
          <5>1. Len(fs) \in Nat /\ Len(ds) \in Nat
            BY LenProperties
          <5>2. leaked = FALSE /\ ~LeavesBehind(fs, ds, cs[h])
            BY <1>3, <3>3 DEF TypeOK
          <5> QED BY <2>4, <2>12, <5>1, <5>2 DEF LeavesBehind
        <4>2. Len(fs) >= cs[h].frames /\ Len(ds) >= cs[h].debug
          BY <1>1, <2>7, <3>3, <4>1 DEF Kept, FramesKept, LocalsKept
        <4>3. Len(fs) = cs[h].frames /\ Len(ds) = cs[h].debug
          <5>1. Len(fs) \in Nat /\ Len(ds) \in Nat
            BY LenProperties
          <5> QED BY <2>4, <4>1, <4>2, <5>1
        <4>4. CASE n = h
          <5>1. calls' # <<>> /\ calls'[Len(calls')] = cs[h]
            BY <2>2, <4>4
          <5> QED BY <2>7, <3>1, <4>1, <4>3, <5>1 DEF NothingElse
        <4>5. CASE n = h - 1
          <5>1. /\ cs[h].frames = IF h = 1 THEN 0 ELSE FramesAfter(cs[h - 1])
                /\ cs[h].debug = IF h = 1 THEN 0 ELSE LocalsAfter(cs[h - 1])
            BY <1>1, <3>3, <4>1 DEF Kept, Exact
          <5>2. (calls' = <<>> <=> h = 1) /\ (h # 1 => calls'[Len(calls')] = cs[h - 1])
            BY <2>2, <4>5
          <5> QED BY <3>1, <4>1, <4>3, <5>1, <5>2 DEF NothingElse
        <4> QED BY <2>0, <4>4, <4>5
      <3>4. StackBalanced'
        BY <3>2, <3>3 DEF StackBalanced, Kept
      <3> QED BY <2>2, <2>8, <2>9, <2>10, <3>1, <3>4 DEF StackInv, TypeOK
    <2> QED BY <2>11, <2>12
  <1> QED BY <1>1, <1>2, <1>3 DEF Throw

\* A stack that may be the native one, with the frames and locals there are.
Fits(cs, fs, ds) ==
    /\ EntriesOK(cs)
    /\ corrected = FALSE => Kept(cs, fs, ds, leaked)
    /\ corrected = FALSE /\ leaked = FALSE => NothingElse(cs, fs, ds)
    /\ initialized = FALSE => \A i \in 1..Len(cs) : cs[i].method \notin Guarded

LEMMA InvIsFits == StackInv <=> TypeOK /\ Fits(calls, frames, debug)
  <1>1. TypeOK => DOMAIN calls = 1..Len(calls)
    BY LenProperties DEF TypeOK
  <1> QED BY <1>1 DEF StackInv, Fits, StackBalanced, Kept, FailedClassStaysIdle

\* An entry is pushed with what it adds to the frames and the locals.
LEMMA PushFits ==
  ASSUME TypeOK, NEW cs, Fits(cs, frames, debug), NEW e \in Entries,
         e.frames = Len(frames), e.debug = Len(debug),
         EntriesOK(<<e>>), e.kind = "cctor" => cs = <<>>,
         NEW fs \in Seq(Methods), Len(fs) = FramesAfter(e),
         \A i \in 1..Len(frames) : fs[i] = frames[i],
         Framed(e) => fs[Len(frames) + 1] = e.method,
         NEW ds \in Seq(Methods), Len(ds) = LocalsAfter(e),
         \A i \in 1..Len(debug) : ds[i] = debug[i],
         e.locals => ds[Len(debug) + 1] = e.method,
         initialized = FALSE => e.method \notin Guarded
  PROVE  Fits(Append(cs, e), fs, ds)
  <1> DEFINE new == Append(cs, e)
  <1>1. cs \in Seq(Entries) /\ Len(cs) \in Nat /\ DOMAIN cs = 1..Len(cs)
    BY LenProperties DEF Fits, EntriesOK
  <1>2. new \in Seq(Entries) /\ Len(new) = Len(cs) + 1 /\ new # <<>>
    BY <1>1, AppendProperties
  <1>3. new[Len(cs) + 1] = e /\ \A i \in 1..Len(cs) : new[i] = cs[i]
    BY <1>1, AppendProperties
  <1>4. DOMAIN new = 1..(Len(cs) + 1)
    BY <1>2, LenProperties
  <1> HIDE DEF new
  <1>5. \A i \in 1..(Len(cs) + 1) : i \in 1..Len(cs) \/ i = Len(cs) + 1
    BY <1>1
  <1>6. \A i \in 1..Len(cs) : i # Len(cs) + 1
    BY <1>1
  <1>7. /\ e.kind = "method" => e.method \in Methods
        /\ e.kind # "method" => e.method = None
        /\ e.locals => Framed(e)
    <2>1. 1 \in 1..Len(<<e>>) /\ <<e>>[1] = e
      OBVIOUS
    <2> QED BY <2>1 DEF EntriesOK
  <1>8. EntriesOK(new)
    <2>1. \A i \in 1..Len(cs) : /\ cs[i].kind = "method" => cs[i].method \in Methods
                                /\ cs[i].kind # "method" => cs[i].method = None
                                /\ cs[i].locals => Framed(cs[i])
                                /\ cs[i].kind = "cctor" => i = 1
      BY DEF Fits, EntriesOK
    <2>2. e.kind = "cctor" => Len(cs) + 1 = 1
      BY <1>1, EmptyLen
    <2>3. ASSUME NEW i \in 1..(Len(cs) + 1)
          PROVE  /\ new[i].kind = "method" => new[i].method \in Methods
                 /\ new[i].kind # "method" => new[i].method = None
                 /\ new[i].locals => Framed(new[i])
                 /\ new[i].kind = "cctor" => i = 1
      BY <1>3, <1>5, <1>7, <2>1, <2>2
    <2> QED BY <1>2, <2>3 DEF EntriesOK
  <1>9. \A c \in Entries : /\ c.frames \in Nat /\ FramesAfter(c) \in Nat
                           /\ FramesAfter(c) = IF Framed(c) THEN c.frames + 1 ELSE c.frames
                           /\ c.debug \in Nat /\ LocalsAfter(c) \in Nat
                           /\ LocalsAfter(c) = IF c.locals THEN c.debug + 1 ELSE c.debug
    BY DEF Entries, FramesAfter, LocalsAfter
  <1>10. \A i \in 1..Len(cs) : cs[i] \in Entries
    BY <1>1, ElementOfSeq
  <1>11. Len(frames) \in Nat /\ Len(debug) \in Nat /\ Len(fs) >= Len(frames) /\ Len(ds) >= Len(debug)
    <2>1. Len(frames) \in Nat /\ Len(debug) \in Nat
      BY LenProperties DEF TypeOK
    <2> QED BY <1>9, <2>1
  <1>12. ASSUME FramesKept(cs, frames)
         PROVE  FramesKept(new, fs)
    <2>1. ASSUME NEW i \in 1..Len(cs)
          PROVE  /\ FramesAfter(cs[i]) <= Len(frames)
                 /\ \A j \in 1..(i - 1) : FramesAfter(cs[j]) <= cs[i].frames
                 /\ Framed(cs[i]) => fs[cs[i].frames + 1] = cs[i].method
      <3>1. /\ FramesAfter(cs[i]) <= Len(frames)
            /\ \A j \in 1..(i - 1) : FramesAfter(cs[j]) <= cs[i].frames
            /\ Framed(cs[i]) => frames[cs[i].frames + 1] = cs[i].method
        BY <1>1, <1>12 DEF FramesKept
      <3>2. Framed(cs[i]) => cs[i].frames + 1 \in 1..Len(frames)
        BY <1>9, <1>10, <1>11, <3>1
      <3> QED BY <3>1, <3>2
    <2>2. ASSUME NEW i \in 1..(Len(cs) + 1)
          PROVE  /\ FramesAfter(new[i]) <= Len(fs)
                 /\ \A j \in 1..(i - 1) : FramesAfter(new[j]) <= new[i].frames
                 /\ Framed(new[i]) => fs[new[i].frames + 1] = new[i].method
      <3>1. CASE i \in 1..Len(cs)
        <4>1. FramesAfter(cs[i]) <= Len(fs)
          BY <1>9, <1>10, <1>11, <2>1, <3>1
        <4>2. \A j \in 1..(i - 1) : j \in 1..Len(cs)
          BY <1>1, <3>1
        <4> QED BY <1>3, <2>1, <3>1, <4>1, <4>2
      <3>2. CASE i = Len(cs) + 1
        <4>1. \A j \in 1..(i - 1) : j \in 1..Len(cs)
          BY <1>1, <3>2
        <4>2. FramesAfter(e) <= Len(fs)
          BY <1>9, <1>11
        <4> QED BY <1>3, <2>1, <3>2, <4>1, <4>2
      <3> QED BY <1>5, <3>1, <3>2
    <2> QED BY <1>4, <2>2 DEF FramesKept
  <1>13. ASSUME LocalsKept(cs, debug)
         PROVE  LocalsKept(new, ds)
    <2>1. ASSUME NEW i \in 1..Len(cs)
          PROVE  /\ LocalsAfter(cs[i]) <= Len(debug)
                 /\ \A j \in 1..(i - 1) : LocalsAfter(cs[j]) <= cs[i].debug
                 /\ cs[i].locals => ds[cs[i].debug + 1] = cs[i].method
      <3>1. /\ LocalsAfter(cs[i]) <= Len(debug)
            /\ \A j \in 1..(i - 1) : LocalsAfter(cs[j]) <= cs[i].debug
            /\ cs[i].locals => debug[cs[i].debug + 1] = cs[i].method
        BY <1>1, <1>13 DEF LocalsKept
      <3>2. cs[i].locals => cs[i].debug + 1 \in 1..Len(debug)
        BY <1>9, <1>10, <1>11, <3>1
      <3> QED BY <3>1, <3>2
    <2>2. ASSUME NEW i \in 1..(Len(cs) + 1)
          PROVE  /\ LocalsAfter(new[i]) <= Len(ds)
                 /\ \A j \in 1..(i - 1) : LocalsAfter(new[j]) <= new[i].debug
                 /\ new[i].locals => ds[new[i].debug + 1] = new[i].method
      <3>1. CASE i \in 1..Len(cs)
        <4>1. LocalsAfter(cs[i]) <= Len(ds)
          BY <1>9, <1>10, <1>11, <2>1, <3>1
        <4>2. \A j \in 1..(i - 1) : j \in 1..Len(cs)
          BY <1>1, <3>1
        <4> QED BY <1>3, <2>1, <3>1, <4>1, <4>2
      <3>2. CASE i = Len(cs) + 1
        <4>1. \A j \in 1..(i - 1) : j \in 1..Len(cs)
          BY <1>1, <3>2
        <4>2. LocalsAfter(e) <= Len(ds)
          BY <1>9, <1>11
        <4> QED BY <1>3, <2>1, <3>2, <4>1, <4>2
      <3> QED BY <1>5, <3>1, <3>2
    <2> QED BY <1>4, <2>2 DEF LocalsKept
  <1>14. ASSUME Exact(cs), NothingElse(cs, frames, debug)
         PROVE  Exact(new)
    <2>1. /\ Len(cs) = 0 => e.frames = 0 /\ e.debug = 0
          /\ Len(cs) # 0 => e.frames = FramesAfter(cs[Len(cs)]) /\ e.debug = LocalsAfter(cs[Len(cs)])
      BY <1>1, <1>14, EmptyLen DEF NothingElse
    <2>2. ASSUME NEW i \in 1..(Len(cs) + 1)
          PROVE  /\ new[i].frames = IF i = 1 THEN 0 ELSE FramesAfter(new[i - 1])
                 /\ new[i].debug  = IF i = 1 THEN 0 ELSE LocalsAfter(new[i - 1])
      <3>0. i = 1 \/ i - 1 \in 1..Len(cs)
        BY <1>1
      <3>1. CASE i \in 1..Len(cs)
        <4>1. /\ cs[i].frames = IF i = 1 THEN 0 ELSE FramesAfter(cs[i - 1])
              /\ cs[i].debug  = IF i = 1 THEN 0 ELSE LocalsAfter(cs[i - 1])
          BY <1>1, <1>14, <3>1 DEF Exact
        <4> QED BY <1>3, <3>0, <3>1, <4>1
      <3>2. CASE i = Len(cs) + 1
        <4>1. CASE i = 1
          <5>1. Len(cs) = 0
            BY <1>1, <3>2, <4>1
          <5> QED BY <1>3, <2>1, <3>2, <4>1, <5>1
        <4>2. CASE i # 1
          <5>1. i - 1 = Len(cs) /\ Len(cs) # 0 /\ Len(cs) \in 1..Len(cs)
            BY <1>1, <3>2, <4>2
          <5> QED BY <1>3, <2>1, <3>2, <4>2, <5>1
        <4> QED BY <4>1, <4>2
      <3> QED BY <1>5, <3>1, <3>2
    <2> QED BY <1>4, <2>2 DEF Exact
  <1>15. NothingElse(new, fs, ds)
    BY <1>2, <1>3 DEF NothingElse
  <1>16. initialized = FALSE => \A i \in 1..(Len(cs) + 1) : new[i].method \notin Guarded
    BY <1>3, <1>5 DEF Fits
  <1> QED BY <1>2, <1>8, <1>12, <1>13, <1>14, <1>15, <1>16 DEF Fits, Kept, new

\* A set of numbers has a least one; if it is bounded, it has a largest one.
LEMMA LeastNumber ==
  ASSUME NEW S, S \subseteq Nat, S # {}
  PROVE  \E k \in S : \A j \in S : k <= j
  <1> DEFINE less == {ss \in Nat \X Nat : ss[1] < ss[2]}
  <1>1. \A j, k \in S : j < k => <<j, k>> \in less
    OBVIOUS
  <1>2. IsWellFoundedOn(less, Nat)
    BY NatLessThanWellFounded DEF OpToRel
  <1> HIDE DEF less
  <1>3. PICK k \in S : \A j \in S : ~(<<j, k>> \in less)
    BY <1>2, WFMin
  <1>4. \A j \in S : ~(j < k)
    BY <1>1, <1>3
  <1> QED BY <1>4

LEMMA LargestNumber ==
  ASSUME NEW n \in Nat, NEW S, S \subseteq 0..n, S # {}
  PROVE  \E k \in S : \A j \in S : j <= k
  <1> DEFINE rest == {n - k : k \in S}
  <1>1. rest \subseteq Nat /\ rest # {}
    <2>1. \A k \in S : k \in 0..n /\ n - k \in Nat
      OBVIOUS
    <2> QED BY <2>1
  <1>2. PICK r \in rest : \A q \in rest : r <= q
    BY <1>1, LeastNumber
  <1>3. PICK k \in S : r = n - k
    BY <1>2
  <1>4. \A j \in S : r <= n - j
    BY <1>2
  <1> QED BY <1>3, <1>4

\* What is left of a stack trace is a part of it.
LEMMA CorrectedIsSeq ==
  ASSUME NEW S, NEW fs \in Seq(S)
  PROVE  CorrectStackTrace(fs) \in Seq(S)
  <1> DEFINE n == Len(fs)
             p == Pattern(fs)
             again == {k \in 1..(n - 1) : fs[n - k] = fs[n]}
             repeats == {k \in 0..(n \div p) : \A j \in 0..(k * p - 1) : fs[n - j] = fs[n - (j % p)]}
             loops == CHOOSE k \in repeats : \A j \in repeats : j <= k
  <1>1. n \in Nat
    BY LenProperties
  <1>2. CASE n = 0
    BY <1>2 DEF CorrectStackTrace
  <1>3. CASE n # 0
    <2>1. p \in Nat /\ p # 0
      <3>1. again \subseteq Nat \ {0}
        BY <1>1
      <3>2. p = IF again = {} THEN n ELSE CHOOSE k \in again : \A j \in again : k <= j
        BY DEF Pattern
      <3> HIDE DEF p, again
      <3>3. CASE again = {}
        BY <1>1, <1>3, <3>2, <3>3
      <3>4. CASE again # {}
        <4>1. \E k \in again : \A j \in again : k <= j
          <5>1. again \subseteq Nat
            BY <3>1
          <5> QED BY ONLY <5>1, <3>4, LeastNumber
        <4> QED BY <3>1, <3>2, <3>4, <4>1
      <3> QED BY <3>3, <3>4
    <2> HIDE DEF p
    <2>2. n \div p \in Nat
      <3>1. \A a \in Nat, b \in Nat \ {0} : a \div b \in Nat
        OBVIOUS
      <3> QED BY <1>1, <2>1, <3>1
    <2>3. 0 \in repeats
      <3>1. \A j \in 0..(0 * p - 1) : fs[n - j] = fs[n - (j % p)]
        <4>1. \A a \in Nat : 0 * a = 0
          OBVIOUS
        <4>2. 0 * p = 0
          BY <2>1, <4>1
        <4>3. 0..(0 * p - 1) = {}
          BY <4>2
        <4> QED BY <4>3
      <3> QED BY <2>2, <3>1
    <2>4. \E k \in repeats : \A j \in repeats : j <= k
      <3>1. repeats \subseteq 0..(n \div p) /\ repeats # {}
        BY <2>3
      <3> HIDE DEF repeats
      <3> QED BY ONLY <2>2, <3>1, LargestNumber
    <2>5. loops \in repeats
      <3> HIDE DEF repeats
      <3> QED BY <2>4
    <2>6. loops \in Nat
      <3>1. repeats \subseteq Nat
        BY <2>2
      <3> HIDE DEF repeats
      <3> QED BY <2>5, <3>1
    <2>7. CorrectStackTrace(fs) = IF n = 0 \/ loops < 2 THEN fs ELSE SubSeq(fs, 1, n - (loops - 2) * p)
      BY DEF CorrectStackTrace, p
    <2> HIDE DEF loops, n
    <2>8. CASE loops < 2
      BY <2>7, <2>8
    <2>9. CASE loops >= 2
      <3>1. loops - 2 \in Nat
        BY <2>6, <2>9
      <3>2. \A a, b \in Nat : a * b \in Nat
        OBVIOUS
      <3>3. (loops - 2) * p \in Nat
        BY <2>1, <3>1, <3>2
      <3>4. n - (loops - 2) * p \in Int /\ n - (loops - 2) * p <= n
        BY <1>1, <3>3
      <3>5. \A i \in 1..(n - (loops - 2) * p) : fs[i] \in S
        <4>1. \A i \in 1..n : fs[i] \in S
          BY ElementOfSeq DEF n
        <4>2. \A i \in 1..(n - (loops - 2) * p) : i \in 1..n
          BY <1>1, <3>4
        <4> QED BY <4>1, <4>2
      <3>6. SubSeq(fs, 1, n - (loops - 2) * p) \in Seq(S)
        BY <3>4, <3>5, SubSeqProperties
      <3> QED BY <1>3, <2>6, <2>7, <2>9, <3>6
    <2> QED BY <2>6, <2>8, <2>9
  <1> QED BY <1>2, <1>3

-----------------------------------------------------------------------------
LEMMA HandlerFits ==
  ASSUME VirtualStackAssumption, TypeOK, NEW cs, Fits(cs, frames, debug),
         NEW k \in Kinds \ {"method"}, k = "cctor" => cs = <<>>
  PROVE  Fits(Append(cs, Handler(k)), frames, debug)
  <1> DEFINE e == Handler(k)
  <1>1. Len(frames) \in Nat /\ Len(debug) \in Nat /\ frames \in Seq(Methods) /\ debug \in Seq(Methods)
    BY LenProperties DEF TypeOK
  <1>2. /\ e \in Entries /\ e.kind = k /\ e.method = None /\ e.locals = FALSE
        /\ e.frames = Len(frames) /\ e.debug = Len(debug)
    BY <1>1 DEF Handler, Entry, Entries
  <1> HIDE DEF e
  <1>3. ~Framed(e) /\ ~e.locals /\ e.method \notin Guarded
    BY <1>2 DEF Framed, VirtualStackAssumption
  <1>4. FramesAfter(e) = Len(frames) /\ LocalsAfter(e) = Len(debug)
    BY <1>1, <1>2, <1>3 DEF FramesAfter, LocalsAfter
  <1>5. EntriesOK(<<e>>)
    <2>1. <<e>> \in Seq(Entries) /\ Len(<<e>>) = 1 /\ <<e>>[1] = e
      BY <1>2
    <2>2. \A i \in 1..1 : i = 1
      OBVIOUS
    <2> QED BY <1>2, <1>3, <2>1, <2>2 DEF EntriesOK
  <1>6. e.kind = "cctor" => cs = <<>>
    BY <1>2
  <1>7. Fits(Append(cs, e), frames, debug)
    BY ONLY TypeOK, Fits(cs, frames, debug), <1>1, <1>2, <1>3, <1>4, <1>5, <1>6, PushFits
  <1> QED BY <1>7 DEF e

\* More frames take nothing away.
LEMMA MoreFrames ==
  ASSUME NEW cs, EntriesOK(cs), NEW fs \in Seq(Methods), NEW gs \in Seq(Methods),
         Len(gs) >= Len(fs), \A i \in 1..Len(fs) : gs[i] = fs[i],
         NEW ds, NEW left, Kept(cs, fs, ds, left)
  PROVE  Kept(cs, gs, ds, left)
  <1>1. cs \in Seq(Entries) /\ DOMAIN cs = 1..Len(cs) /\ Len(fs) \in Nat /\ Len(gs) \in Nat
    BY LenProperties DEF EntriesOK
  <1>2. \A i \in 1..Len(cs) : cs[i].frames \in Nat /\ FramesAfter(cs[i]) \in Nat
                              /\ (Framed(cs[i]) => FramesAfter(cs[i]) = cs[i].frames + 1)
    <2>1. \A i \in 1..Len(cs) : cs[i] \in Entries
      BY <1>1, ElementOfSeq
    <2> QED BY <2>1 DEF Entries, FramesAfter
  <1>3. ASSUME NEW i \in 1..Len(cs)
        PROVE  /\ FramesAfter(cs[i]) <= Len(gs)
               /\ \A j \in 1..(i - 1) : FramesAfter(cs[j]) <= cs[i].frames
               /\ Framed(cs[i]) => gs[cs[i].frames + 1] = cs[i].method
    <2>1. /\ FramesAfter(cs[i]) <= Len(fs)
          /\ \A j \in 1..(i - 1) : FramesAfter(cs[j]) <= cs[i].frames
          /\ Framed(cs[i]) => fs[cs[i].frames + 1] = cs[i].method
      BY <1>1 DEF Kept, FramesKept
    <2>2. Framed(cs[i]) => cs[i].frames + 1 \in 1..Len(fs)
      BY <1>1, <1>2, <2>1
    <2>3. FramesAfter(cs[i]) <= Len(gs)
      BY <1>1, <1>2, <2>1
    <2> QED BY <2>1, <2>2, <2>3
  <1>4. FramesKept(cs, gs)
    BY <1>1, <1>3 DEF FramesKept
  <1> QED BY <1>4 DEF Kept

LEMMA NowFits ==
  ASSUME TypeOK', Fits(calls', frames', debug'), UNCHANGED <<initialized, leaked, corrected>>
  PROVE  StackInv'
  <1>1. DOMAIN calls' = 1..Len(calls')
    BY LenProperties DEF TypeOK
  <1> QED BY <1>1 DEF StackInv, Fits, StackBalanced, Kept, FailedClassStaysIdle

\* A method is called from a stack that may be the native one.
LEMMA EnterKeeps ==
  ASSUME VirtualStackAssumption, TypeOK, NEW cs, Fits(cs, frames, debug),
         NEW m \in Methods, Enter(m, cs)
  PROVE  StackInv'
  <1> DEFINE fs == IF IsSafe(m) THEN Append(frames, m) ELSE frames
             ds == IF ShouldEmitReglocalsCode(m) THEN Append(debug, m) ELSE debug
             e == MethodCall(m)
  <1>1. /\ Len(frames) \in Nat /\ Len(debug) \in Nat
        /\ frames \in Seq(Methods) /\ debug \in Seq(Methods)
    BY LenProperties DEF TypeOK
  <1>2. /\ fs \in Seq(Methods) /\ \A i \in 1..Len(frames) : fs[i] = frames[i]
        /\ Len(fs) = IF IsSafe(m) THEN Len(frames) + 1 ELSE Len(frames)
        /\ IsSafe(m) => fs[Len(frames) + 1] = m
    BY <1>1, AppendProperties
  <1>3. /\ ds \in Seq(Methods) /\ \A i \in 1..Len(debug) : ds[i] = debug[i]
        /\ Len(ds) = IF ShouldEmitReglocalsCode(m) THEN Len(debug) + 1 ELSE Len(debug)
        /\ ShouldEmitReglocalsCode(m) => ds[Len(debug) + 1] = m
    BY <1>1, AppendProperties
  <1>4. /\ e \in Entries /\ e.kind = "method" /\ e.method = m
        /\ e.locals = ShouldEmitReglocalsCode(m)
        /\ e.frames = Len(frames) /\ e.debug = Len(debug)
    BY <1>1 DEF MethodCall, Entry, Entries, Kinds, ShouldEmitReglocalsCode, IsSafe
  <1> HIDE DEF fs, ds, e
  <1>5. /\ EntriesOK(cs)
        /\ corrected = FALSE => Kept(cs, frames, debug, leaked)
        /\ initialized = FALSE => \A i \in 1..Len(cs) : cs[i].method \notin Guarded
    BY DEF Fits
  <1>6. CASE /\ corrected' = (corrected \/ CorrectStackTrace(frames) # frames)
             /\ Throw("abort", cs, CorrectStackTrace(frames), debug)
    <2>1. CorrectStackTrace(frames) \in Seq(Methods)
      BY <1>1, CorrectedIsSeq
    <2>2. corrected' \in BOOLEAN
      BY <1>6
    <2>3. corrected' = FALSE => Kept(cs, CorrectStackTrace(frames), debug, leaked)
      BY <1>5, <1>6 DEF TypeOK
    <2> QED BY ONLY VirtualStackAssumption, TypeOK, <1>1, <1>5, <1>6, <2>1, <2>2, <2>3, ThrowKeeps
  <1>7. CASE Throw("abort", cs, fs, debug) /\ UNCHANGED corrected
    <2>1. corrected' \in BOOLEAN
      BY <1>7 DEF TypeOK
    <2>2. Len(fs) >= Len(frames)
      BY <1>1, <1>2
    <2>3. corrected = FALSE => Kept(cs, fs, debug, leaked)
      BY <1>1, <1>2, <1>5, <2>2, MoreFrames
    <2>4. corrected' = FALSE => Kept(cs, fs, debug, leaked)
      BY <1>7, <2>3
    <2> QED BY ONLY VirtualStackAssumption, TypeOK, <1>1, <1>2, <1>5, <1>7, <2>1, <2>4, ThrowKeeps
  <1>8. CASE /\ m \in Guarded => initialized
             /\ calls' = Append(cs, e) /\ frames' = fs /\ debug' = ds
             /\ UNCHANGED <<phase, initialized, leaked, corrected>>
    <2>1. Framed(e) <=> IsSafe(m)
      BY <1>4 DEF Framed
    <2>2. Len(fs) = FramesAfter(e) /\ Len(ds) = LocalsAfter(e)
      BY <1>1, <1>2, <1>3, <1>4, <2>1 DEF FramesAfter, LocalsAfter
    <2>3. EntriesOK(<<e>>)
      <3>1. <<e>> \in Seq(Entries) /\ Len(<<e>>) = 1 /\ <<e>>[1] = e
        BY <1>4
      <3>2. \A i \in 1..1 : i = 1
        OBVIOUS
      <3>3. e.locals => Framed(e)
        BY <1>4, <2>1 DEF ShouldEmitReglocalsCode
      <3> QED BY <1>4, <3>1, <3>2, <3>3 DEF EntriesOK
    <2>4. e.kind # "cctor" /\ (Framed(e) => fs[Len(frames) + 1] = e.method)
          /\ (e.locals => ds[Len(debug) + 1] = e.method)
      BY <1>2, <1>3, <1>4, <2>1
    <2>5. initialized = FALSE => e.method \notin Guarded
      BY <1>4, <1>8
    <2>6. Fits(Append(cs, e), fs, ds)
      BY ONLY TypeOK, Fits(cs, frames, debug), <1>2, <1>3, <1>4, <2>2, <2>3, <2>4, <2>5, PushFits
    <2>7. Append(cs, e) \in Seq(Entries)
      BY <2>6 DEF Fits, EntriesOK
    <2>8. TypeOK'
      BY <1>2, <1>3, <1>8, <2>7 DEF TypeOK
    <2>9. Fits(calls', frames', debug')
      BY <1>8, <2>6
    <2> QED BY <1>8, <2>8, <2>9, NowFits
  <1> QED BY <1>6, <1>7, <1>8 DEF Enter, fs, ds, e

LEMMA InvokeKeeps ==
  ASSUME VirtualStackAssumption, StackInv, NEW k \in Kinds \ {"method"},
         k = "cctor" => calls = <<>>, NEW m \in Methods, Invoke(k, m)
  PROVE  StackInv'
  <1>1. TypeOK /\ Fits(calls, frames, debug)
    BY InvIsFits
  <1>2. Fits(Append(calls, Handler(k)), frames, debug)
    BY <1>1, HandlerFits
  <1> QED BY <1>1, <1>2, EnterKeeps DEF Invoke

-----------------------------------------------------------------------------
\* Facts about the entry on top, for the steps that take it off.
LEMMA TopFacts ==
  ASSUME StackInv, calls # <<>>
  PROVE  /\ calls \in Seq(Entries) /\ Len(calls) \in Nat /\ Len(calls) >= 1
         /\ DOMAIN calls = 1..Len(calls) /\ \A i \in 1..Len(calls) : calls[i] \in Entries
         /\ Top = calls[Len(calls)] /\ Top \in Entries
         /\ Top.frames \in Nat /\ Top.debug \in Nat
         /\ FramesAfter(Top) = IF Framed(Top) THEN Top.frames + 1 ELSE Top.frames
         /\ LocalsAfter(Top) = IF Top.locals THEN Top.debug + 1 ELSE Top.debug
         /\ Top.kind = "method" => Top.method \in Methods /\ (Framed(Top) <=> IsSafe(Top.method))
         /\ Top.kind # "method" => ~Framed(Top) /\ ~Top.locals
         /\ Top.locals => Framed(Top)
  <1>1. calls \in Seq(Entries) /\ Len(calls) \in Nat /\ DOMAIN calls = 1..Len(calls)
    BY LenProperties DEF StackInv, TypeOK
  <1>2. Len(calls) >= 1
    BY <1>1, EmptyLen
  <1>3. \A i \in 1..Len(calls) : calls[i] \in Entries
    BY <1>1, ElementOfSeq
  <1>4. Len(calls) \in 1..Len(calls) /\ Top = calls[Len(calls)]
    BY <1>1, <1>2 DEF Top
  <1>5. Top \in Entries
    BY <1>3, <1>4
  <1>6. /\ Top.kind = "method" => Top.method \in Methods
        /\ Top.locals => Framed(Top)
    BY <1>4 DEF StackInv, EntriesOK
  <1>7. Framed(Top) <=> Top.kind = "method" /\ IsSafe(Top.method)
    BY DEF Framed
  <1> HIDE DEF Top
  <1>8. /\ FramesAfter(Top) = IF Framed(Top) THEN Top.frames + 1 ELSE Top.frames
        /\ LocalsAfter(Top) = IF Top.locals THEN Top.debug + 1 ELSE Top.debug
        /\ Top.frames \in Nat /\ Top.debug \in Nat
    BY <1>5 DEF FramesAfter, LocalsAfter, Entries
  <1>9. Top.locals \in BOOLEAN
    BY <1>5 DEF Entries
  <1> QED BY <1>1, <1>2, <1>3, <1>4, <1>5, <1>6, <1>7, <1>8, <1>9

\* Nothing else is left if what the entries from h on have pushed has gone.
LEMMA NothingIsLeft ==
  ASSUME NEW cs, cs \in Seq(Entries), NEW h \in 1..Len(cs), Exact(cs),
         NEW fs, Len(fs) = cs[h].frames, NEW ds, Len(ds) = cs[h].debug
  PROVE  NothingElse(FirstOf(cs, h - 1), fs, ds)
  <1> DEFINE part == FirstOf(cs, h - 1)
  <1>1. Len(cs) \in Nat /\ h - 1 \in Nat /\ h - 1 <= Len(cs) /\ DOMAIN cs = 1..Len(cs)
    BY LenProperties
  <1>2. /\ part \in Seq(Entries) /\ Len(part) = h - 1
        /\ \A i \in 1..(h - 1) : part[i] = cs[i]
    BY <1>1, FirstOfFacts
  <1>3. part = <<>> <=> h = 1
    BY <1>1, <1>2, EmptyLen
  <1> HIDE DEF part
  <1>4. /\ cs[h].frames = IF h = 1 THEN 0 ELSE FramesAfter(cs[h - 1])
        /\ cs[h].debug = IF h = 1 THEN 0 ELSE LocalsAfter(cs[h - 1])
    BY <1>1 DEF Exact
  <1>5. h # 1 => part[Len(part)] = cs[h - 1]
    BY <1>1, <1>2
  <1> QED BY <1>3, <1>4, <1>5 DEF NothingElse, part

LEMMA StopKeeps ==
  ASSUME StackInv, StopListening
  PROVE  StackInv'
  <1>1. /\ calls # <<>> /\ Top.kind = "listen" /\ calls' = FirstOf(calls, Len(calls) - 1)
        /\ UNCHANGED <<phase, frames, debug, initialized, leaked, corrected>>
    BY DEF StopListening
  <1>2. /\ calls \in Seq(Entries) /\ Len(calls) \in Nat /\ Len(calls) >= 1 /\ Top = calls[Len(calls)]
        /\ Len(calls) - 1 \in Nat /\ Len(calls) - 1 <= Len(calls) /\ Len(calls) \in 1..Len(calls)
        /\ FramesAfter(Top) = Top.frames /\ LocalsAfter(Top) = Top.debug
    BY <1>1, TopFacts
  <1> HIDE DEF Top
  <1>3. TypeOK /\ Fits(calls, frames, debug)
    BY InvIsFits
  <1>4. /\ calls' \in Seq(Entries) /\ Len(calls') \in Nat
        /\ \A i \in 1..Len(calls') : i \in 1..Len(calls) /\ calls'[i] = calls[i]
    BY <1>1, <1>2, FirstOfFacts
  <1>5. TypeOK'
    BY <1>1, <1>3, <1>4 DEF TypeOK
  <1>6. frames \in Seq(Methods) /\ debug \in Seq(Methods)
    BY <1>3 DEF TypeOK
  <1>7. ASSUME corrected = FALSE
        PROVE  Kept(calls', frames, debug, leaked)
    <2>1. Kept(calls, frames, debug, leaked) /\ EntriesOK(calls)
      BY <1>3, <1>7 DEF Fits
    <2> QED BY <1>1, <1>2, <1>6, <2>1, PartIsKept
  <1>8. EntriesOK(calls')
    <2>1. EntriesOK(calls)
      BY <1>3 DEF Fits
    <2> QED BY <1>4, <2>1 DEF EntriesOK
  <1>9. ASSUME corrected = FALSE, leaked = FALSE
        PROVE  NothingElse(calls', frames, debug)
    <2>1. Exact(calls) /\ NothingElse(calls, frames, debug)
      BY <1>3, <1>9 DEF Fits, Kept
    <2>2. Len(frames) = Top.frames /\ Len(debug) = Top.debug
      BY <1>1, <1>2, <2>1 DEF NothingElse
    <2> QED BY <1>1, <1>2, <2>1, <2>2, NothingIsLeft
  <1>10. initialized = FALSE => \A i \in 1..Len(calls') : calls'[i].method \notin Guarded
    BY <1>3, <1>4 DEF Fits
  <1>11. Fits(calls', frames, debug)
    BY <1>7, <1>8, <1>9, <1>10 DEF Fits
  <1>12. Fits(calls', frames', debug')
    BY <1>1, <1>11
  <1> QED BY <1>1, <1>5, <1>12, NowFits

\* When no method on the stack has a frame, none has locals.
LEMMA NoFramesNoLocals ==
  ASSUME StackInv, calls # <<>>, corrected = FALSE, leaked = FALSE, Len(frames) = 0
  PROVE  Len(debug) = 0
  <1>1. /\ calls \in Seq(Entries) /\ Len(calls) \in Nat /\ Len(calls) >= 1 /\ Top = calls[Len(calls)]
        /\ DOMAIN calls = 1..Len(calls) /\ \A i \in 1..Len(calls) : calls[i] \in Entries
        /\ Top.locals => Framed(Top)
        /\ FramesAfter(Top) = IF Framed(Top) THEN Top.frames + 1 ELSE Top.frames
        /\ LocalsAfter(Top) = IF Top.locals THEN Top.debug + 1 ELSE Top.debug
        /\ Top.frames \in Nat /\ Top.debug \in Nat
    BY TopFacts
  <1>2. /\ FramesKept(calls, frames) /\ Exact(calls) /\ NothingElse(calls, frames, debug)
        /\ EntriesOK(calls)
    BY DEF StackInv, StackBalanced
  <1> HIDE DEF Top
  <1>3. FramesAfter(Top) = 0 /\ Len(debug) = LocalsAfter(Top)
    BY <1>1, <1>2 DEF NothingElse
  <1>4. ~Framed(Top) /\ ~Top.locals /\ Top.frames = 0
    BY <1>1, <1>3
  <1>5. \A i \in 1..Len(calls) : ~calls[i].locals
    <2> SUFFICES ASSUME NEW i \in 1..Len(calls), calls[i].locals PROVE FALSE
      OBVIOUS
    <2>1. Framed(calls[i]) /\ calls[i].frames \in Nat /\ FramesAfter(calls[i]) = calls[i].frames + 1
      BY <1>1, <1>2 DEF EntriesOK, FramesAfter, Entries
    <2>2. FramesAfter(calls[i]) <= Len(frames)
      BY <1>1, <1>2 DEF FramesKept
    <2> QED BY <1>1, <2>1, <2>2
  <1> DEFINE others == {i \in 1..Len(calls) : calls[i].debug # 0}
  <1>6. others = {}
    <2> SUFFICES ASSUME others # {} PROVE FALSE
      OBVIOUS
    <2>1. others \subseteq Nat /\ \A i \in others : i \in 1..Len(calls)
      BY <1>1
    <2>2. PICK i \in others : \A j \in others : i <= j
      <3> HIDE DEF others
      <3> QED BY <2>1, LeastNumber
    <2>3. calls[i].debug = IF i = 1 THEN 0 ELSE LocalsAfter(calls[i - 1])
      BY <1>1, <1>2, <2>1 DEF Exact
    <2>4. i # 1 /\ i - 1 \in 1..Len(calls)
      BY <1>1, <2>1, <2>3
    <2>5. calls[i - 1].debug = 0
      BY <2>1, <2>2, <2>4
    <2>6. LocalsAfter(calls[i - 1]) = 0
      BY <1>5, <2>4, <2>5 DEF LocalsAfter
    <2> QED BY <2>3, <2>4, <2>6
  <1>7. Top.debug = 0
    BY <1>1, <1>6
  <1> QED BY <1>1, <1>3, <1>4, <1>7

LEMMA BreakKeeps ==
  ASSUME VirtualStackAssumption, StackInv, BreakFails
  PROVE  StackInv'
  <1> DEFINE ds == IF debug = <<>> THEN debug ELSE FirstOf(debug, Len(debug) - 1)
  <1>1. calls # <<>> /\ (debug = <<>> \/ frames = <<>>) /\ corrected' = corrected
        /\ Throw("exception", calls, frames, ds)
    BY DEF BreakFails, Running
  <1>2. TypeOK /\ Fits(calls, frames, debug)
    BY InvIsFits
  <1>3. frames \in Seq(Methods) /\ debug \in Seq(Methods) /\ Len(debug) \in Nat
    BY <1>2, LenProperties DEF TypeOK
  <1>4. ds \in Seq(Methods)
    <2>1. debug # <<>> => Len(debug) - 1 \in Nat
      BY <1>3, EmptyLen
    <2> QED BY <1>3, <2>1, FirstOfFacts
  <1>5. corrected = FALSE => Kept(calls, frames, ds, leaked)
    <2>1. CASE debug = <<>>
      BY <1>2, <2>1 DEF Fits
    <2>2. ASSUME debug # <<>>, corrected = FALSE
          PROVE  Kept(calls, frames, ds, leaked)
      <3>1. Len(frames) = 0
        BY <1>1, <2>2
      <3>2. leaked # FALSE
        BY <1>1, <1>3, <2>2, <3>1, NoFramesNoLocals, EmptyLen
      <3> QED BY <1>2, <2>2, <3>2 DEF Fits, Kept
    <2> QED BY <2>1, <2>2
  <1> HIDE DEF ds
  <1>6. corrected' \in BOOLEAN /\ (corrected' = FALSE => Kept(calls, frames, ds, leaked))
    BY <1>1, <1>2, <1>5 DEF TypeOK
  <1>7. EntriesOK(calls) /\ (initialized = FALSE => \A i \in 1..Len(calls) : calls[i].method \notin Guarded)
    BY <1>2 DEF Fits
  <1> QED BY ONLY VirtualStackAssumption, <1>1, <1>2, <1>3, <1>4, <1>6, <1>7, ThrowKeeps

\* An exception of the stack as it is.
LEMMA AbortKeeps ==
  ASSUME VirtualStackAssumption, StackInv, NEW thrown,
         Throw(thrown, calls, frames, debug), UNCHANGED corrected
  PROVE  StackInv'
  <1>1. TypeOK /\ Fits(calls, frames, debug)
    BY InvIsFits
  <1>2. /\ frames \in Seq(Methods) /\ debug \in Seq(Methods) /\ EntriesOK(calls)
        /\ corrected' \in BOOLEAN /\ (corrected' = FALSE => Kept(calls, frames, debug, leaked))
        /\ initialized = FALSE => \A i \in 1..Len(calls) : calls[i].method \notin Guarded
    BY <1>1 DEF TypeOK, Fits
  <1> QED BY <1>1, <1>2, ThrowKeeps

LEMMA UnregKeeps ==
  ASSUME StackInv, calls # <<>>, Top.locals, debug # <<>>,
         debug' = FirstOf(debug, Len(debug) - 1),
         calls' = [calls EXCEPT ![Len(calls)].locals = FALSE],
         UNCHANGED <<phase, frames, initialized, leaked, corrected>>
  PROVE  StackInv'
  <1> DEFINE n == Len(calls)
             d == FirstOf(debug, Len(debug) - 1)
  <1>1. /\ calls \in Seq(Entries) /\ n \in Nat /\ n >= 1 /\ n \in 1..n /\ Top = calls[n]
        /\ DOMAIN calls = 1..n /\ \A i \in 1..n : calls[i] \in Entries
        /\ Top \in Entries /\ Top.frames \in Nat /\ Top.debug \in Nat
        /\ LocalsAfter(Top) = Top.debug + 1
    BY TopFacts
  <1>2. TypeOK /\ Fits(calls, frames, debug)
    BY InvIsFits
  <1>3. /\ debug \in Seq(Methods) /\ Len(debug) \in Nat /\ Len(debug) >= 1
        /\ d \in Seq(Methods) /\ Len(d) = Len(debug) - 1
        /\ \A i \in 1..(Len(debug) - 1) : d[i] = debug[i]
    <2>1. debug \in Seq(Methods) /\ Len(debug) \in Nat
      BY <1>2, LenProperties DEF TypeOK
    <2>2. Len(debug) >= 1 /\ Len(debug) - 1 \in Nat /\ Len(debug) - 1 < Len(debug)
      BY <2>1, EmptyLen
    <2> HIDE DEF n
    <2>3. d \in Seq(Methods) /\ \A i \in 1..Len(d) : d[i] = debug[i]
      BY ONLY <2>1, <2>2, FirstOfFacts
    <2>4. Len(d) = Len(debug) - 1
      BY ONLY <2>1, <2>2, FirstOfFacts
    <2> HIDE DEF d
    <2> QED BY <2>1, <2>2, <2>3, <2>4
  <1>4. calls' \in Seq(Entries) /\ Len(calls') = n /\ DOMAIN calls' = 1..n
    <2>1. [calls[n] EXCEPT !.locals = FALSE] \in Entries
      BY <1>1 DEF Entries
    <2> QED BY <1>1, <2>1, ExceptSeq
  <1>5. /\ \A i \in 1..n : /\ calls'[i].kind = calls[i].kind /\ calls'[i].method = calls[i].method
                           /\ calls'[i].frames = calls[i].frames /\ calls'[i].debug = calls[i].debug
                           /\ i # n => calls'[i] = calls[i]
        /\ calls'[n].locals = FALSE
    <2>1. calls'[n] = [calls[n] EXCEPT !.locals = FALSE] /\ \A i \in 1..n : i # n => calls'[i] = calls[i]
      BY <1>1
    <2>2. calls[n] \in Entries
      BY <1>1
    <2>3. /\ calls'[n].kind = calls[n].kind /\ calls'[n].method = calls[n].method
          /\ calls'[n].frames = calls[n].frames /\ calls'[n].debug = calls[n].debug
          /\ calls'[n].locals = FALSE
      BY <2>1, <2>2 DEF Entries
    <2> QED BY <2>1, <2>3
  <1> HIDE DEF n, d
  <1>6. \A i \in 1..n : /\ Framed(calls'[i]) <=> Framed(calls[i])
                        /\ FramesAfter(calls'[i]) = FramesAfter(calls[i])
    BY <1>5 DEF Framed, FramesAfter
  <1>7. TypeOK'
    BY <1>2, <1>3, <1>4 DEF TypeOK, d
  <1>8. EntriesOK(calls')
    <2>1. \A i \in 1..n : /\ calls[i].kind = "method" => calls[i].method \in Methods
                          /\ calls[i].kind # "method" => calls[i].method = None
                          /\ calls[i].locals => Framed(calls[i])
                          /\ calls[i].kind = "cctor" => i = 1
      BY <1>2 DEF Fits, EntriesOK, n
    <2>2. ASSUME NEW i \in 1..n PROVE calls'[i].locals => Framed(calls'[i])
      <3>1. CASE i = n
        BY <1>5, <3>1
      <3>2. CASE i # n
        BY <1>5, <2>1, <3>2
      <3> QED BY <3>1, <3>2
    <2> QED BY <1>4, <1>5, <2>1, <2>2 DEF EntriesOK
  <1>9. ASSUME FramesKept(calls, frames)
        PROVE  FramesKept(calls', frames)
    <2>1. ASSUME NEW i \in 1..n
          PROVE  /\ FramesAfter(calls'[i]) <= Len(frames)
                 /\ \A j \in 1..(i - 1) : FramesAfter(calls'[j]) <= calls'[i].frames
                 /\ Framed(calls'[i]) => frames[calls'[i].frames + 1] = calls'[i].method
      <3>1. /\ FramesAfter(calls[i]) <= Len(frames)
            /\ \A j \in 1..(i - 1) : FramesAfter(calls[j]) <= calls[i].frames
            /\ Framed(calls[i]) => frames[calls[i].frames + 1] = calls[i].method
        BY <1>1, <1>9 DEF FramesKept
      <3>2. \A j \in 1..(i - 1) : j \in 1..n
        BY <1>1
      <3> QED BY <1>5, <1>6, <3>1, <3>2
    <2> QED BY <1>4, <2>1 DEF FramesKept
  <1>10. ASSUME LocalsKept(calls, debug)
         PROVE  LocalsKept(calls', d)
    <2>1. Top.debug + 1 <= Len(debug)
      BY <1>1, <1>10 DEF LocalsKept
    <2>2. ASSUME NEW i \in 1..n
          PROVE  /\ LocalsAfter(calls'[i]) <= Len(d)
                 /\ \A j \in 1..(i - 1) : LocalsAfter(calls'[j]) <= calls'[i].debug
                 /\ calls'[i].locals => d[calls'[i].debug + 1] = calls'[i].method
      <3>0. /\ \A j \in 1..(i - 1) : LocalsAfter(calls[j]) <= calls[i].debug
            /\ calls[i].locals => debug[calls[i].debug + 1] = calls[i].method
            /\ calls[i].debug \in Nat /\ LocalsAfter(calls[i]) \in Nat
            /\ calls[i].locals => LocalsAfter(calls[i]) = calls[i].debug + 1
        BY <1>1, <1>10 DEF LocalsKept, LocalsAfter, Entries
      <3>1. \A j \in 1..(i - 1) : j \in 1..n /\ j # n
        BY <1>1
      <3>2. \A j \in 1..(i - 1) : LocalsAfter(calls'[j]) <= calls'[i].debug
        BY <1>5, <3>0, <3>1
      <3>3. CASE i = n
        <4>1. LocalsAfter(calls'[i]) = Top.debug
          BY <1>1, <1>5, <3>3 DEF LocalsAfter
        <4> QED BY <1>1, <1>3, <1>5, <2>1, <3>2, <3>3, <4>1
      <3>4. CASE i # n
        <4>1. i \in 1..(n - 1)
          BY <1>1, <3>4
        <4>2. LocalsAfter(calls[i]) <= Top.debug
          BY <1>1, <1>10, <4>1 DEF LocalsKept
        <4>3. LocalsAfter(calls[i]) <= Len(d)
          BY <1>1, <1>3, <2>1, <3>0, <4>2
        <4>4. calls[i].locals => calls[i].debug + 1 \in 1..(Len(debug) - 1)
          BY <1>3, <3>0, <4>3
        <4> QED BY <1>3, <1>5, <3>0, <3>2, <3>4, <4>3, <4>4
      <3> QED BY <3>3, <3>4
    <2> QED BY <1>4, <2>2 DEF LocalsKept
  <1>11. ASSUME Exact(calls)
         PROVE  Exact(calls')
    <2>1. ASSUME NEW i \in 1..n
          PROVE  /\ calls'[i].frames = IF i = 1 THEN 0 ELSE FramesAfter(calls'[i - 1])
                 /\ calls'[i].debug  = IF i = 1 THEN 0 ELSE LocalsAfter(calls'[i - 1])
      <3>1. /\ calls[i].frames = IF i = 1 THEN 0 ELSE FramesAfter(calls[i - 1])
            /\ calls[i].debug  = IF i = 1 THEN 0 ELSE LocalsAfter(calls[i - 1])
        BY <1>1, <1>11 DEF Exact
      <3>2. i # 1 => i - 1 \in 1..n /\ i - 1 # n
        BY <1>1
      <3> QED BY <1>5, <3>1, <3>2
    <2> QED BY <1>4, <2>1 DEF Exact
  <1>12. ASSUME NothingElse(calls, frames, debug)
         PROVE  NothingElse(calls', frames, d)
    <2>1. Len(frames) = FramesAfter(Top) /\ Len(debug) = Top.debug + 1
      BY <1>1, <1>12 DEF NothingElse, n
    <2>2. Len(d) = Top.debug
      BY <1>1, <1>3, <2>1
    <2>3. FramesAfter(calls'[n]) = FramesAfter(Top) /\ LocalsAfter(calls'[n]) = Top.debug
      <3>1. FramesAfter(calls'[n]) = FramesAfter(Top) /\ calls'[n].debug = Top.debug
        BY <1>1, <1>5, <1>6
      <3>2. LocalsAfter(calls'[n]) = calls'[n].debug + 0
        BY <1>5 DEF LocalsAfter
      <3> QED BY <1>1, <3>1, <3>2
    <2>4. calls' # <<>>
      BY <1>1, <1>4, EmptyLen
    <2> QED BY <1>4, <2>1, <2>2, <2>3, <2>4 DEF NothingElse
  <1>13. initialized = FALSE => \A i \in 1..n : calls'[i].method \notin Guarded
    BY <1>2, <1>5 DEF Fits, n
  <1>14. Fits(calls', frames, d)
    BY <1>2, <1>4, <1>8, <1>9, <1>10, <1>11, <1>12, <1>13 DEF Fits, Kept
  <1>15. Fits(calls', frames', debug')
    BY <1>14 DEF d
  <1> QED BY <1>7, <1>15, NowFits

\* A call returns: it takes its frame with it, and the handler that called it goes too.
LEMMA ReturnKeeps ==
  ASSUME StackInv, Running, ~Top.locals, IsSafe(Top.method) => frames # <<>>,
         calls' = LeaveMethod, phase' = PhaseAfterReturn,
         frames' = IF IsSafe(Top.method) THEN FirstOf(frames, Len(frames) - 1) ELSE frames,
         UNCHANGED <<debug, initialized, leaked, corrected>>
  PROVE  StackInv'
  <1> DEFINE n == Len(calls)
             f == IF IsSafe(Top.method) THEN FirstOf(frames, Len(frames) - 1) ELSE frames
  <1>1. /\ calls \in Seq(Entries) /\ n \in Nat /\ n >= 1 /\ n \in 1..n /\ Top = calls[n]
        /\ DOMAIN calls = 1..n /\ \A i \in 1..n : calls[i] \in Entries
        /\ Top.frames \in Nat /\ Top.debug \in Nat /\ Top.kind = "method"
        /\ FramesAfter(Top) = (IF IsSafe(Top.method) THEN Top.frames + 1 ELSE Top.frames)
        /\ LocalsAfter(Top) = Top.debug
        /\ Framed(Top) <=> IsSafe(Top.method)
    BY TopFacts DEF Running
  <1>0. calls # <<>> /\ n \in Nat /\ n >= 1 /\ n \in 1..n /\ n # n - 1 /\ n - 1 < n
    <2>1. n \in Nat /\ n >= 1 /\ calls # <<>>
      BY <1>1 DEF Running
    <2> HIDE DEF n, f
    <2> QED BY ONLY <2>1
  <1>2. TypeOK /\ Fits(calls, frames, debug)
    BY InvIsFits
  <1>3. /\ frames \in Seq(Methods) /\ Len(frames) \in Nat /\ debug \in Seq(Methods)
        /\ IsSafe(Top.method) => Len(frames) - 1 \in Nat
    <2>1. frames \in Seq(Methods) /\ Len(frames) \in Nat /\ debug \in Seq(Methods)
      BY <1>2, LenProperties DEF TypeOK
    <2> QED BY <2>1, EmptyLen
  <1>4. /\ f \in Seq(Methods) /\ Len(f) = (IF IsSafe(Top.method) THEN Len(frames) - 1 ELSE Len(frames))
        /\ \A i \in 1..Len(f) : f[i] = frames[i]
    <2>1. CASE IsSafe(Top.method)
      <3>1. Len(frames) - 1 \in Nat /\ Len(frames) - 1 < Len(frames)
        BY <1>3, <2>1
      <3>2. /\ FirstOf(frames, Len(frames) - 1) \in Seq(Methods)
            /\ Len(FirstOf(frames, Len(frames) - 1)) =
                 IF Len(frames) - 1 < Len(frames) THEN Len(frames) - 1 ELSE Len(frames)
        BY ONLY <1>3, <3>1, FirstOfFacts
      <3>3. \A i \in 1..Len(FirstOf(frames, Len(frames) - 1)) :
               FirstOf(frames, Len(frames) - 1)[i] = frames[i]
        BY ONLY <1>3, <3>1, FirstOfFacts
      <3> QED BY <2>1, <3>1, <3>2, <3>3
    <2>2. CASE ~IsSafe(Top.method)
      BY <1>3, <2>2
    <2> QED BY <2>1, <2>2
  <1>5. frames' = f
    OBVIOUS
  <1>6. PICK h \in {n - 1, n} : /\ h \in 1..n /\ calls' = FirstOf(calls, h - 1)
                                /\ h = n - 1 => calls[h].kind # "method"
    <2>1. CASE n - 1 > 0 /\ calls[n - 1].kind \notin {"method", "listen"}
      <3>1. calls' = FirstOf(calls, (n - 1) - 1) /\ n - 1 \in 1..n
        BY <1>1, <2>1 DEF LeaveMethod
      <3> QED BY <2>1, <3>1
    <2>2. CASE ~(n - 1 > 0 /\ calls[n - 1].kind \notin {"method", "listen"})
      <3>1. calls' = FirstOf(calls, n - 1)
        BY <2>2 DEF LeaveMethod
      <3> HIDE DEF n, f
      <3> QED BY ONLY <1>0, <3>1
    <2> QED BY <2>1, <2>2
  <1> HIDE DEF n, f
  <1>7. h - 1 \in Nat /\ h - 1 <= n /\ h - 1 < n /\ h \in 1..n
    BY ONLY <1>0, <1>6
  <1>8. /\ calls' \in Seq(Entries) /\ Len(calls') = h - 1 /\ DOMAIN calls' = 1..(h - 1)
        /\ \A i \in 1..(h - 1) : i \in 1..n /\ i < n /\ calls'[i] = calls[i]
    <2>1. FirstOf(calls, h - 1) \in Seq(Entries) /\ Len(FirstOf(calls, h - 1)) = h - 1
      <3>1. calls \in Seq(Entries)
        BY <1>1
      <3>2. FirstOf(calls, h - 1) \in Seq(Entries)
        BY ONLY <1>7, <3>1, FirstOfFacts
      <3>3. Len(FirstOf(calls, h - 1)) = IF h - 1 < Len(calls) THEN h - 1 ELSE Len(calls)
        BY ONLY <1>7, <3>1, FirstOfFacts
      <3>4. Len(FirstOf(calls, h - 1)) = IF h - 1 < n THEN h - 1 ELSE n
        BY <3>3 DEF n
      <3> QED BY ONLY <1>7, <3>2, <3>4
    <2>2. \A i \in 1..Len(FirstOf(calls, h - 1)) : FirstOf(calls, h - 1)[i] = calls[i]
      BY <1>1, <1>7, FirstOfFacts
    <2>3. \A i \in 1..(h - 1) : i \in 1..n /\ i < n
      BY <1>1, <1>6
    <2> QED BY <1>6, <2>1, <2>2, <2>3, LenProperties
  <1>9. TypeOK'
    <2>1. phase' \in {"prolog", "main", "dying", "ended", "terminated"}
      BY <1>2 DEF PhaseAfterReturn, PhaseAfter, TypeOK
    <2> QED BY <1>2, <1>4, <1>5, <1>8, <2>1 DEF TypeOK
  <1>10. EntriesOK(calls)
    BY <1>2 DEF Fits
  <1>11. EntriesOK(calls')
    BY <1>8, <1>10 DEF EntriesOK, n
  <1>12. ASSUME corrected = FALSE
         PROVE  FramesKept(calls', f)
    <2>1. FramesKept(calls, frames)
      BY <1>2, <1>12 DEF Fits, Kept
    <2>2. FramesAfter(Top) <= Len(frames)
      BY <1>1, <2>1 DEF FramesKept
    <2>3. Top.frames <= Len(f)
      BY <1>1, <1>3, <1>4, <2>2
    <2>4. ASSUME NEW i \in 1..(h - 1)
          PROVE  /\ FramesAfter(calls'[i]) <= Len(f)
                 /\ \A j \in 1..(i - 1) : FramesAfter(calls'[j]) <= calls'[i].frames
                 /\ Framed(calls'[i]) => f[calls'[i].frames + 1] = calls'[i].method
      <3>1. i \in 1..n /\ i \in 1..(n - 1) /\ calls'[i] = calls[i]
        BY <1>1, <1>8
      <3>2. /\ \A j \in 1..(i - 1) : FramesAfter(calls[j]) <= calls[i].frames
            /\ Framed(calls[i]) => frames[calls[i].frames + 1] = calls[i].method
            /\ FramesAfter(calls[i]) <= Top.frames
        BY <1>1, <2>1, <3>1 DEF FramesKept
      <3>3. /\ calls[i].frames \in Nat /\ FramesAfter(calls[i]) \in Nat
            /\ Framed(calls[i]) => FramesAfter(calls[i]) = calls[i].frames + 1
        <4>1. calls[i].frames \in Nat
          BY <1>1, <3>1 DEF Entries
        <4>2. FramesAfter(calls[i]) = calls[i].frames + (IF Framed(calls[i]) THEN 1 ELSE 0)
          BY DEF FramesAfter
        <4> QED BY ONLY <4>1, <4>2
      <3>4. Len(f) \in Nat
        BY <1>4, LenProperties
      <3>5. FramesAfter(calls[i]) <= Len(f)
        BY <1>1, <2>3, <3>2, <3>3, <3>4
      <3>6. Framed(calls[i]) => calls[i].frames + 1 \in 1..Len(f)
        BY <3>3, <3>4, <3>5
      <3>7. \A j \in 1..(i - 1) : j \in 1..(h - 1)
        BY <1>6, <1>7
      <3> QED BY <1>4, <1>8, <3>1, <3>2, <3>5, <3>6, <3>7
    <2> QED BY <1>8, <2>4 DEF FramesKept
  <1>13. ASSUME corrected = FALSE, leaked = FALSE
         PROVE  LocalsKept(calls', debug) /\ Exact(calls')
    <2>1. Kept(calls, frames, debug, leaked)
      BY <1>2, <1>13 DEF Fits
    <2>2. Kept(FirstOf(calls, h - 1), frames, debug, leaked)
      BY ONLY <1>3, <1>7, <1>10, <2>1, PartIsKept DEF n
    <2> QED BY <1>6, <1>13, <2>2 DEF Kept
  <1>14. ASSUME corrected = FALSE, leaked = FALSE
         PROVE  NothingElse(calls', f, debug)
    <2>1. Exact(calls) /\ NothingElse(calls, frames, debug)
      BY <1>2, <1>14 DEF Fits, Kept
    <2>2. Len(frames) = FramesAfter(Top) /\ Len(debug) = LocalsAfter(Top)
      <3>1. Top = calls[Len(calls)]
        BY DEF Top
      <3> QED BY ONLY <1>0, <2>1, <3>1 DEF NothingElse
    <2>3. Len(f) = Top.frames /\ Len(debug) = Top.debug
      BY <1>1, <1>4, <2>2
    <2>4. Len(f) = calls[h].frames /\ Len(debug) = calls[h].debug
      <3>1. CASE h = n
        BY <1>1, <2>3, <3>1
      <3>2. CASE h = n - 1
        <4>1. ~Framed(calls[h]) /\ ~calls[h].locals
          BY <1>6, <1>10, <3>2 DEF EntriesOK, Framed, n
        <4>2. calls[h].frames \in Nat /\ calls[h].debug \in Nat
          BY <1>1, <1>6 DEF Entries
        <4>3. FramesAfter(calls[h]) = calls[h].frames /\ LocalsAfter(calls[h]) = calls[h].debug
          BY <4>1, <4>2 DEF FramesAfter, LocalsAfter
        <4>4. Top.frames = FramesAfter(calls[n - 1]) /\ Top.debug = LocalsAfter(calls[n - 1])
          BY <1>1, <1>6, <2>1, <3>2 DEF Exact
        <4> QED BY <2>3, <3>2, <4>3, <4>4
      <3> QED BY <1>6, <3>1, <3>2
    <2>5. calls \in Seq(Entries) /\ h \in 1..Len(calls)
      <3>1. calls \in Seq(Entries)
        BY <1>1
      <3> QED BY ONLY <1>7, <3>1 DEF n
    <2>6. NothingElse(FirstOf(calls, h - 1), f, debug)
      BY ONLY <2>1, <2>4, <2>5, NothingIsLeft
    <2> QED BY <1>6, <2>6
  <1>15. initialized = FALSE => \A i \in 1..(h - 1) : calls'[i].method \notin Guarded
    BY <1>2, <1>8 DEF Fits, n
  <1>16. Fits(calls', f, debug)
    BY <1>8, <1>11, <1>12, <1>13, <1>14, <1>15 DEF Fits, Kept
  <1>17. Fits(calls', frames', debug')
    BY <1>5, <1>16
  <1> QED BY <1>9, <1>17, NowFits

LEMMA ListenKeeps ==
  ASSUME VirtualStackAssumption, StackInv, StartListening
  PROVE  StackInv'
  <1>1. TypeOK /\ Fits(calls, frames, debug)
    BY InvIsFits
  <1>2. /\ calls' = Append(calls, Handler("listen"))
        /\ UNCHANGED <<phase, frames, debug, initialized, leaked, corrected>>
    BY DEF StartListening
  <1>3. Fits(Append(calls, Handler("listen")), frames, debug)
    BY <1>1, HandlerFits DEF Kinds
  <1>4. Append(calls, Handler("listen")) \in Seq(Entries)
    BY <1>3 DEF Fits, EntriesOK
  <1>5. TypeOK'
    BY <1>1, <1>2, <1>4 DEF TypeOK
  <1>6. Fits(calls', frames', debug')
    BY <1>2, <1>3
  <1> QED BY <1>2, <1>5, <1>6, NowFits

LEMMA StackStarts ==
  ASSUME Init
  PROVE  StackInv
  <1>1. /\ <<>> \in Seq(Entries) /\ <<>> \in Seq(Methods)
        /\ DOMAIN <<>> = {} /\ Len(<<>>) = 0 /\ 1..0 = {}
    BY EmptySeq
  <1>2. TypeOK
    BY <1>1 DEF Init, TypeOK
  <1>3. EntriesOK(calls)
    BY <1>1 DEF Init, EntriesOK
  <1>4. StackBalanced
    BY <1>1 DEF Init, StackBalanced, FramesKept, LocalsKept, Exact, NothingElse
  <1>5. FailedClassStaysIdle
    BY <1>1 DEF Init, FailedClassStaysIdle
  <1> QED BY <1>2, <1>3, <1>4, <1>5 DEF StackInv

LEMMA StackSteps ==
  ASSUME VirtualStackAssumption, StackInv, Next
  PROVE  StackInv'
  <1>1. TypeOK /\ Fits(calls, frames, debug)
    BY InvIsFits
  <1>2. /\ Program \subseteq Methods /\ Cctor \in Methods /\ Cdtor \in Methods
        /\ {"cctor", "epilog", "try", "dtor"} \subseteq Kinds \ {"method"}
    BY DEF VirtualStackAssumption, Program, Kinds
  <1>3. CASE RunCctor
    BY <1>2, <1>3, InvokeKeeps DEF RunCctor
  <1>4. CASE RunMain
    BY <1>1, <1>2, <1>4, EnterKeeps DEF RunMain
  <1>5. CASE RunEpilog
    BY <1>2, <1>5, InvokeKeeps DEF RunEpilog
  <1>6. ASSUME NEW m \in Program, Call(m) \/ Serve(m)
        PROVE  StackInv'
    BY <1>1, <1>2, <1>6, EnterKeeps DEF Call, Serve
  <1>7. ASSUME NEW m \in Program, Try(m)
        PROVE  StackInv'
    BY <1>2, <1>7, InvokeKeeps DEF Try
  <1>8. ASSUME NEW m \in Program, RunDestructor(m)
        PROVE  StackInv'
    BY <1>2, <1>8, InvokeKeeps DEF RunDestructor
  <1>9. CASE Abort
    BY <1>9, AbortKeeps DEF Abort
  <1>10. CASE UnregLocals
    BY <1>10, AbortKeeps, UnregKeeps DEF UnregLocals, Running
  <1>11. CASE Return
    BY <1>11, AbortKeeps, ReturnKeeps DEF Return
  <1> QED BY <1>3, <1>4, <1>5, <1>6, <1>7, <1>8, <1>9, <1>10, <1>11,
             ListenKeeps, StopKeeps, BreakKeeps DEF Next

LEMMA StackInvHolds ==
  ASSUME VirtualStackAssumption
  PROVE  Spec => []StackInv
  <1>1. StackInv /\ UNCHANGED vars => StackInv'
    BY DEF StackInv, vars, TypeOK, EntriesOK, StackBalanced, FailedClassStaysIdle,
           FramesKept, LocalsKept, Exact, NothingElse
  <1> QED BY StackStarts, StackSteps, <1>1, PTL DEF Spec

\* The three stacks hold entries, methods and methods, whatever is called and aborted
\* (RuntimeHelpers.cpp:208-244, 318-337).
THEOREM StackTypes == Spec => []TypeOK
  BY StackInvHolds, VirtualStackAssumption, PTL DEF StackInv

\* Whatever methods call, try, abort, serve and destroy, however deep: each running call
\* finds its frame where it has pushed it, above those of its callers; and until a handler
\* has left something behind, frames and locals are exactly those of the running calls
\* (Security.cpp:269-292, RuntimeHelpers.cpp:401-425).
THEOREM StackIsBalanced == Spec => []StackBalanced
  BY StackInvHolds, VirtualStackAssumption, PTL DEF StackInv

\* After the static constructor of a class has failed, no static method of the class is
\* running, in any program (RuntimeHelpers.cpp:195-215).
THEOREM FailedClassIsIdle == Spec => []FailedClassStaysIdle
  BY StackInvHolds, VirtualStackAssumption, PTL DEF StackInv

-----------------------------------------------------------------------------
(***************************************************************************)
(* Dependency injection. What is kept for an interface is never replaced:  *)
(* of two calls of createInstance for one interface, the inner one is not  *)
(* ahead of the outer one, so that a circle of constructors never closes   *)
(* and the instance of the one is there before the other asks for it.      *)
(***************************************************************************)
Injectable == Interfaces \cup Classes
MadeObject == [class : Classes, list : Seq(Interfaces), got : Seq(Nat), args : Seq(Nat \cup {NoObject})]
Pending == [asked : Injectable, class : Classes, keep : BOOLEAN, next : Nat \ {0},
         list : Seq(Interfaces), got : Seq(Nat)]
\* The constructor that is chosen for each.
ListsOfAll == [t \in Injectable |-> ctors[A!ClassFor(t)][A!findSuitableCtor(A!ClassFor(t))]]

ProgramTyped ==
    /\ ctors \in Programs
    /\ impl \in [Interfaces -> Injectable]
    /\ \A i \in Interfaces : impl[i] = i \/ (impl[i] \in DOMAIN Implements /\ Implements[impl[i]] = i)
    /\ objects \in Seq(MadeObject) /\ activations \in Seq(Pending)
    /\ instances \in [Injectable -> Nat \cup {NoObject}]
    /\ arguments \in [1..MaxDependencies -> Nat \cup {NoObject}]
KeptOK ==
    \A t \in Injectable : instances[t] # NoObject =>
        /\ instances[t] \in 1..Len(objects)
        /\ t \in Interfaces => /\ objects[instances[t]].class \in DOMAIN Implements
                               /\ Implements[objects[instances[t]].class] = t
\* An object got what is kept; its arguments are what it got, unless a later parameter
\* had parameters of its own.
ObjectOK(ob, kept, all) ==
    /\ Len(ob.got) = Len(ob.list) /\ Len(ob.args) = Len(ob.list)
    /\ Len(ob.list) <= MaxDependencies
    /\ \A n \in 1..Len(ob.list) :
          /\ ob.got[n] \in 1..Len(all) /\ ob.got[n] = kept[ob.list[n]]
          /\ \/ ob.args[n] = ob.got[n]
             \/ \E b \in (n + 1)..Len(ob.got) : Len(all[ob.got[b]].list) >= 1
ObjectsOK == \A o \in 1..Len(objects) : ObjectOK(objects[o], instances, objects)
\* What each call of createInstance has got so far is what is kept, and it does not keep
\* an instance of its own as yet.
PendingOK ==
    \A k \in 1..Len(activations) :
        /\ activations[k].list = ListsOfAll[activations[k].asked]
        /\ Len(activations[k].list) <= MaxDependencies
        /\ activations[k].asked \in Interfaces =>
              /\ activations[k].class \in DOMAIN Implements
              /\ Implements[activations[k].class] = activations[k].asked
        /\ activations[k].next <= Len(activations[k].list) + 1
        /\ Len(activations[k].got) + 1 = activations[k].next
        /\ \A n \in 1..Len(activations[k].got) :
              /\ activations[k].got[n] \in 1..Len(objects)
              /\ activations[k].got[n] = instances[activations[k].list[n]]
KeepsNone ==
    \A k \in 1..Len(activations) :
        activations[k].keep => instances[activations[k].asked] = NoObject
\* A call waits for the one above it, which is for its next parameter.
ChainOK ==
    \A k \in 1..Len(activations) : k + 1 <= Len(activations) =>
        /\ activations[k].next <= Len(activations[k].list)
        /\ activations[k + 1].asked = activations[k].list[activations[k].next]
        /\ activations[k + 1].keep
\* In a circle nobody is ahead of the one who waits for him.
CirclesOK ==
    \A j, k \in 1..Len(activations) :
        j < k /\ activations[j].asked = activations[k].asked => activations[k].next <= activations[j].next
\* m_args are what a call has got, unless a later parameter had parameters of its own.
ArgumentsOK ==
    \A k \in 1..Len(activations) : \A n \in 1..Len(activations[k].got) :
        \/ arguments[n] = activations[k].got[n]
        \/ \E b \in (n + 1)..Len(activations[k].got) : Len(objects[activations[k].got[b]].list) >= 1
        \/ k + 1 <= Len(activations) /\ Len(activations[k + 1].list) >= 1
ActivationInv == /\ ProgramTyped /\ KeptOK /\ ObjectsOK /\ PendingOK /\ KeepsNone /\ ChainOK /\ CirclesOK /\ ArgumentsOK

LEMMA NewCall ==
    ASSUME A!ActivationAssumption, ProgramTyped, NEW t \in Injectable, ~A!Aborts(t), NEW keep \in BOOLEAN
    PROVE  /\ A!Activation(t, keep) \in Pending
           /\ A!Activation(t, keep).asked = t /\ A!Activation(t, keep).keep = keep
           /\ A!Activation(t, keep).next = 1 /\ A!Activation(t, keep).got = <<>>
           /\ A!Activation(t, keep).list = ListsOfAll[t] /\ Len(A!Activation(t, keep).list) <= MaxDependencies
           /\ t \in Interfaces => /\ A!Activation(t, keep).class \in DOMAIN Implements
                                  /\ Implements[A!Activation(t, keep).class] = t
<1>1. PICK c : c = A!ClassFor(t)
  OBVIOUS
<1>2. c \in Classes /\ (t \in Interfaces => c \in DOMAIN Implements /\ Implements[c] = t)
  <2>1. CASE t \in Interfaces
    BY <1>1, <2>1 DEF A!ClassFor, A!Aborts, ProgramTyped, A!ActivationAssumption
  <2>2. CASE t \in Classes
    BY <1>1, <2>2 DEF A!ClassFor, ProgramTyped, A!ActivationAssumption
  <2> QED
    BY <2>1, <2>2 DEF Injectable
<1>3. ctors[c] \in Seq(Seq(Interfaces))
  BY <1>2 DEF ProgramTyped, A!ActivationAssumption
<1>4. PICK n \in A!SuitableCtors(c) : \A m \in A!SuitableCtors(c) : n <= m
  <2>1. A!SuitableCtors(c) # {}
    BY <1>1 DEF A!Aborts
  <2>2. A!SuitableCtors(c) \subseteq Nat
    BY <1>3 DEF A!SuitableCtors
  <2> QED
    BY <2>1, <2>2, LeastNumber
<1>5. PICK f : f = A!findSuitableCtor(c)
  OBVIOUS
<1>6. f \in A!SuitableCtors(c)
  BY <1>4, <1>5 DEF A!findSuitableCtor
<1>7. f \in DOMAIN ctors[c] /\ Len(ctors[c][f]) <= MaxDependencies
  BY <1>6 DEF A!SuitableCtors, A!Suitable
<1>8. PICK list : list = ctors[c][f]
  OBVIOUS
<1>9. list \in Seq(Interfaces) /\ Len(list) <= MaxDependencies
  BY <1>3, <1>7, <1>8
<1>10. ListsOfAll[t] = list
  BY <1>1, <1>5, <1>8 DEF ListsOfAll
<1>11. A!Activation(t, keep) = [asked |-> t, class |-> c, keep |-> keep, next |-> 1,
                              list |-> list, got |-> <<>>]
  BY <1>1, <1>5, <1>8 DEF A!Activation
<1>12. <<>> \in Seq(Nat)
  OBVIOUS
<1> QED
  BY <1>2, <1>9, <1>10, <1>11, <1>12 DEF Pending

\* A call that begins waits for nothing and has got nothing.
LEMMA PushKeeps ==
    ASSUME A!ActivationAssumption, ActivationInv, NEW t \in Injectable, ~A!Aborts(t), NEW keep \in BOOLEAN,
           activations' = Append(activations, A!Activation(t, keep)),
           UNCHANGED <<ctors, impl, instances, arguments, objects>>,
           keep => instances[t] = NoObject,
           activations # <<>> => keep /\ A!Last.next <= Len(A!Last.list) /\ t = A!Last.list[A!Last.next]
    PROVE  ActivationInv'
<1>1. PICK N \in Nat : Len(activations) = N
  BY DEF ActivationInv, ProgramTyped
<1>2. PICK new : new = A!Activation(t, keep)
  OBVIOUS
<1>3. /\ new \in Pending /\ new.asked = t /\ new.keep = keep /\ new.next = 1 /\ new.got = <<>>
      /\ new.list = ListsOfAll[t] /\ Len(new.list) <= MaxDependencies
      /\ t \in Interfaces => new.class \in DOMAIN Implements /\ Implements[new.class] = t
  BY <1>2, NewCall DEF ActivationInv
<1>4. /\ activations' \in Seq(Pending) /\ Len(activations') = N + 1 /\ activations'[N + 1] = new
      /\ \A i \in 1..N : activations'[i] = activations[i]
  BY <1>1, <1>2, <1>3, AppendProperties DEF ActivationInv, ProgramTyped
<1>5. \A i \in 1..N : activations[i] \in Pending
  BY <1>1 DEF ActivationInv, ProgramTyped
<1>6. ListsOfAll' = ListsOfAll
  BY DEF ListsOfAll, A!ClassFor, A!findSuitableCtor, A!SuitableCtors, A!Suitable
<1>7. \A k \in 1..(N + 1) : k \in 1..N \/ k = N + 1
  OBVIOUS
<1>8. ProgramTyped'
  BY <1>4 DEF ActivationInv, ProgramTyped
<1>9. KeptOK' /\ ObjectsOK'
  BY DEF ActivationInv, KeptOK, ObjectsOK
<1>10. PendingOK'
  <2> SUFFICES ASSUME NEW k \in 1..(N + 1)
               PROVE  /\ activations'[k].list = ListsOfAll'[activations'[k].asked]
                      /\ Len(activations'[k].list) <= MaxDependencies
                      /\ activations'[k].asked \in Interfaces =>
                            /\ activations'[k].class \in DOMAIN Implements
                            /\ Implements[activations'[k].class] = activations'[k].asked
                      /\ activations'[k].next <= Len(activations'[k].list) + 1
                      /\ Len(activations'[k].got) + 1 = activations'[k].next
                      /\ \A n \in 1..Len(activations'[k].got) :
                            /\ activations'[k].got[n] \in 1..Len(objects)
                            /\ activations'[k].got[n] = instances[activations'[k].list[n]]
    BY <1>4 DEF PendingOK
  <2>1. CASE k \in 1..N
    BY <1>1, <1>4, <1>6, <2>1 DEF ActivationInv, PendingOK
  <2>2. CASE k = N + 1
    <3>1. Len(new.list) \in Nat /\ Len(new.got) = 0
      BY <1>3 DEF Pending
    <3> QED
      BY <1>3, <1>4, <1>6, <2>2, <3>1
  <2> QED
    BY <1>7, <2>1, <2>2
<1>14. KeepsNone'
  <2>1. \A k \in 1..N : activations[k].keep => instances[activations[k].asked] = NoObject
    BY <1>1 DEF ActivationInv, KeepsNone
  <2> QED
    BY <1>3, <1>4, <1>7, <2>1 DEF KeepsNone
<1>11. ChainOK'
  <2> SUFFICES ASSUME NEW k \in 1..(N + 1), k + 1 <= N + 1
               PROVE  /\ activations'[k].next <= Len(activations'[k].list)
                      /\ activations'[k + 1].asked = activations'[k].list[activations'[k].next]
                      /\ activations'[k + 1].keep
    BY <1>4 DEF ChainOK
  <2>1. CASE k + 1 <= N
    <3>1. k \in 1..N /\ k + 1 \in 1..N
      BY <2>1
    <3> QED
      BY <1>1, <1>4, <2>1, <3>1 DEF ActivationInv, ChainOK
  <2>2. CASE k = N
    <3>1. activations # <<>> /\ A!Last = activations[N] /\ activations'[k] = activations[N]
      BY <1>1, <1>4, <2>2 DEF A!Last
    <3> QED
      BY <1>3, <1>4, <2>2, <3>1
  <2>3. k + 1 <= N \/ k = N
    OBVIOUS
  <2> QED
    BY <2>1, <2>2, <2>3
<1>12. CirclesOK'
  <2> SUFFICES ASSUME NEW j \in 1..(N + 1), NEW k \in 1..(N + 1), j < k,
                      activations'[j].asked = activations'[k].asked
               PROVE  activations'[k].next <= activations'[j].next
    BY <1>4 DEF CirclesOK
  <2>1. j \in 1..N /\ activations'[j] = activations[j]
    BY <1>4
  <2>2. CASE k \in 1..N
    BY <1>1, <1>4, <2>1, <2>2 DEF ActivationInv, CirclesOK
  <2>3. CASE k = N + 1
    <3>1. activations[j].next \in Nat \ {0}
      BY <1>5, <2>1 DEF Pending
    <3> QED
      BY <1>3, <1>4, <2>1, <2>3, <3>1
  <2> QED
    BY <1>7, <2>2, <2>3
<1>13. ArgumentsOK'
  <2> SUFFICES ASSUME NEW k \in 1..Len(activations'), NEW n \in 1..Len(activations'[k].got)
               PROVE  \/ arguments'[n] = activations'[k].got[n]
                      \/ \E b \in (n + 1)..Len(activations'[k].got) :
                            Len(objects'[activations'[k].got[b]].list) >= 1
                      \/ k + 1 <= Len(activations') /\ Len(activations'[k + 1].list) >= 1
    BY DEF ArgumentsOK
  <2>0. k \in 1..(N + 1)
    BY <1>4
  <2>1. CASE k \in 1..N
    <3>1. activations'[k] = activations[k]
      BY <1>4, <2>1
    <3>2. \/ arguments[n] = activations[k].got[n]
          \/ \E b \in (n + 1)..Len(activations[k].got) : Len(objects[activations[k].got[b]].list) >= 1
          \/ k + 1 <= N /\ Len(activations[k + 1].list) >= 1
      BY <1>1, <2>1, <3>1 DEF ActivationInv, ArgumentsOK
    <3>3. k + 1 <= N => k + 1 \in 1..N /\ k + 1 <= N + 1
      BY <2>1
    <3> QED
      BY <1>4, <3>1, <3>2, <3>3
  <2>2. CASE k = N + 1
    BY <1>3, <1>4, <2>2
  <2> QED
    BY <1>7, <2>0, <2>1, <2>2
<1> QED
  BY <1>8, <1>9, <1>10, <1>11, <1>12, <1>13, <1>14 DEF ActivationInv

\* The last of the calls, and those below it.
LEMMA LastCall ==
    ASSUME A!ActivationAssumption, ActivationInv, NEW N \in Nat, Len(activations) = N, N > 0
    PROVE  /\ A!Last = activations[N] /\ A!Last \in Pending /\ N \in 1..N
           /\ A!Last.list = ListsOfAll[A!Last.asked] /\ Len(A!Last.list) <= MaxDependencies
           /\ A!Last.asked \in Interfaces => /\ A!Last.class \in DOMAIN Implements
                                             /\ Implements[A!Last.class] = A!Last.asked
           /\ A!Last.next <= Len(A!Last.list) + 1 /\ Len(A!Last.got) + 1 = A!Last.next
           /\ \A n \in 1..Len(A!Last.got) : /\ A!Last.got[n] \in 1..Len(objects)
                                            /\ A!Last.got[n] = instances[A!Last.list[n]]
           /\ A!Last.keep => instances[A!Last.asked] = NoObject
           /\ \A n \in 1..Len(A!Last.got) :
                 \/ arguments[n] = A!Last.got[n]
                 \/ \E b \in (n + 1)..Len(A!Last.got) : Len(objects[A!Last.got[b]].list) >= 1
           /\ \A j \in 1..N : activations[j] \in Pending
           /\ \A j \in 1..N : j < N => /\ activations[j].list = ListsOfAll[activations[j].asked]
                                       /\ activations[j].next <= Len(activations[j].list)
                                       /\ j + 1 \in 1..N
                                       /\ activations[j + 1].asked = activations[j].list[activations[j].next]
                                       /\ activations[j + 1].keep
<1>1. A!Last = activations[N] /\ N \in 1..N
  BY DEF A!Last
<1>2. \A j \in 1..N : activations[j] \in Pending
  BY DEF ActivationInv, ProgramTyped
<1>3. /\ A!Last.list = ListsOfAll[A!Last.asked] /\ Len(A!Last.list) <= MaxDependencies
      /\ A!Last.asked \in Interfaces => /\ A!Last.class \in DOMAIN Implements
                                        /\ Implements[A!Last.class] = A!Last.asked
      /\ A!Last.next <= Len(A!Last.list) + 1 /\ Len(A!Last.got) + 1 = A!Last.next
      /\ \A n \in 1..Len(A!Last.got) : /\ A!Last.got[n] \in 1..Len(objects)
                                       /\ A!Last.got[n] = instances[A!Last.list[n]]
  BY <1>1 DEF ActivationInv, PendingOK
<1>4. A!Last.keep => instances[A!Last.asked] = NoObject
  BY <1>1 DEF ActivationInv, KeepsNone
<1>5. \A n \in 1..Len(A!Last.got) :
         \/ arguments[n] = A!Last.got[n]
         \/ \E b \in (n + 1)..Len(A!Last.got) : Len(objects[A!Last.got[b]].list) >= 1
  BY <1>1 DEF ActivationInv, ArgumentsOK
<1>6. ASSUME NEW j \in 1..N, j < N
      PROVE  /\ activations[j].list = ListsOfAll[activations[j].asked]
             /\ activations[j].next <= Len(activations[j].list)
             /\ j + 1 \in 1..N
             /\ activations[j + 1].asked = activations[j].list[activations[j].next]
             /\ activations[j + 1].keep
  <2>1. j + 1 \in 1..N /\ j + 1 <= N
    BY <1>6
  <2> QED
    BY <2>1 DEF ActivationInv, PendingOK, ChainOK
<1> QED
  BY <1>1, <1>2, <1>3, <1>4, <1>5, <1>6

LEMMA GivenKeeps ==
    ASSUME A!ActivationAssumption, ActivationInv, ~A!Idle, A!Last.next <= Len(A!Last.list),
           NEW o, o = instances[A!Last.list[A!Last.next]], o # NoObject, A!Given(o),
           UNCHANGED <<ctors, impl, instances, objects>>
    PROVE  ActivationInv'
<1>1. PICK N \in Nat : Len(activations) = N
  BY DEF ActivationInv, ProgramTyped
<1>2. N > 0
  BY <1>1, EmptySeq DEF A!Idle, ActivationInv, ProgramTyped
<1>3. /\ A!Last = activations[N] /\ A!Last \in Pending /\ N \in 1..N
      /\ A!Last.list = ListsOfAll[A!Last.asked] /\ Len(A!Last.list) <= MaxDependencies
      /\ A!Last.asked \in Interfaces => /\ A!Last.class \in DOMAIN Implements
                                        /\ Implements[A!Last.class] = A!Last.asked
      /\ A!Last.next <= Len(A!Last.list) + 1 /\ Len(A!Last.got) + 1 = A!Last.next
      /\ \A n \in 1..Len(A!Last.got) : /\ A!Last.got[n] \in 1..Len(objects)
                                       /\ A!Last.got[n] = instances[A!Last.list[n]]
      /\ A!Last.keep => instances[A!Last.asked] = NoObject
      /\ \A n \in 1..Len(A!Last.got) :
            \/ arguments[n] = A!Last.got[n]
            \/ \E b \in (n + 1)..Len(A!Last.got) : Len(objects[A!Last.got[b]].list) >= 1
      /\ \A j \in 1..N : activations[j] \in Pending
  BY <1>1, <1>2, LastCall
<1>4. \A j \in 1..N : j < N => /\ activations[j].list = ListsOfAll[activations[j].asked]
                               /\ activations[j].next <= Len(activations[j].list)
                               /\ j + 1 \in 1..N
                               /\ activations[j + 1].asked = activations[j].list[activations[j].next]
                               /\ activations[j + 1].keep
  BY <1>1, <1>2, LastCall
<1>5. PICK next \in Nat \ {0} : next = A!Last.next
  BY <1>3 DEF Pending
<1>6. next \in 1..Len(A!Last.list) /\ A!Last.list \in Seq(Interfaces) /\ A!Last.got \in Seq(Nat)
      /\ Len(A!Last.got) = next - 1
  BY <1>3, <1>5 DEF Pending
<1>7. o \in 1..Len(objects)
  <2>1. A!Last.list[next] \in Injectable
    BY <1>6 DEF Injectable
  <2> QED
    BY <1>5, <2>1 DEF ActivationInv, KeptOK
<1>8. PICK top : top = A!Gets(A!Last, o)
  OBVIOUS
<1>9. /\ top.asked = A!Last.asked /\ top.class = A!Last.class /\ top.keep = A!Last.keep
      /\ top.list = A!Last.list /\ top.next = next + 1 /\ top.got = Append(A!Last.got, o)
  BY <1>3, <1>5, <1>8 DEF A!Gets, Pending
<1>10. /\ top.got \in Seq(Nat) /\ Len(top.got) = next /\ top.got[next] = o
       /\ \A n \in 1..(next - 1) : top.got[n] = A!Last.got[n]
  <2>1. o \in Nat
    BY <1>7 DEF ActivationInv, ProgramTyped
  <2> QED
    BY <1>6, <1>9, <2>1, AppendProperties
<1>11. top \in Pending
  <2>1. next + 1 \in Nat \ {0} /\ Append(A!Last.got, o) \in Seq(Nat)
    BY <1>9, <1>10
  <2>2. top = [A!Last EXCEPT !.next = next + 1, !.got = Append(A!Last.got, o)]
    BY <1>3, <1>5, <1>8 DEF A!Gets, Pending
  <2> QED
    BY <1>3, <2>1, <2>2 DEF Pending
<1>12. /\ activations' \in Seq(Pending) /\ Len(activations') = N /\ activations'[N] = top
       /\ \A j \in 1..N : j < N => activations'[j] = activations[j]
  <2>1. activations' = [activations EXCEPT ![N] = top]
    BY <1>1, <1>8 DEF A!Given
  <2>2. activations \in Seq(Pending)
    BY DEF ActivationInv, ProgramTyped
  <2> QED
    BY <1>1, <1>3, <1>11, <2>1, <2>2
<1>13. /\ arguments' \in [1..MaxDependencies -> Nat \cup {NoObject}]
       /\ arguments'[next] = o /\ \A n \in 1..(next - 1) : arguments'[n] = arguments[n]
  <2>1. next \in 1..MaxDependencies
    BY <1>3, <1>6 DEF A!ActivationAssumption
  <2>2. arguments' = [arguments EXCEPT ![next] = o] /\ o \in Nat
    BY <1>5, <1>7 DEF A!Given
  <2>3. \A n \in 1..(next - 1) : n \in 1..MaxDependencies /\ n # next
    BY <2>1 DEF A!ActivationAssumption
  <2> QED
    BY <2>1, <2>2, <2>3 DEF ActivationInv, ProgramTyped
<1>14. ListsOfAll' = ListsOfAll
  BY DEF ListsOfAll, A!ClassFor, A!findSuitableCtor, A!SuitableCtors, A!Suitable
<1>15. ProgramTyped' /\ KeptOK' /\ ObjectsOK'
  BY <1>12, <1>13 DEF ActivationInv, ProgramTyped, KeptOK, ObjectsOK
<1>16. \A k \in 1..N : k < N \/ k = N
  OBVIOUS
<1>17. PendingOK'
  <2> SUFFICES ASSUME NEW k \in 1..N
               PROVE  /\ activations'[k].list = ListsOfAll[activations'[k].asked]
                      /\ Len(activations'[k].list) <= MaxDependencies
                      /\ activations'[k].asked \in Interfaces =>
                            /\ activations'[k].class \in DOMAIN Implements
                            /\ Implements[activations'[k].class] = activations'[k].asked
                      /\ activations'[k].next <= Len(activations'[k].list) + 1
                      /\ Len(activations'[k].got) + 1 = activations'[k].next
                      /\ \A n \in 1..Len(activations'[k].got) :
                            /\ activations'[k].got[n] \in 1..Len(objects)
                            /\ activations'[k].got[n] = instances[activations'[k].list[n]]
    BY <1>12, <1>14 DEF PendingOK
  <2>1. CASE k < N
    BY <1>1, <1>12, <2>1 DEF ActivationInv, PendingOK
  <2>2. CASE k = N
    <3>1. \A n \in 1..Len(top.got) : /\ top.got[n] \in 1..Len(objects)
                                     /\ top.got[n] = instances[top.list[n]]
      <4> SUFFICES ASSUME NEW n \in 1..next
                   PROVE  top.got[n] \in 1..Len(objects) /\ top.got[n] = instances[A!Last.list[n]]
        BY <1>9, <1>10
      <4>1. CASE n = next
        BY <1>5, <1>7, <1>10, <4>1
      <4>2. CASE n # next
        <5>1. n \in 1..(next - 1) /\ n \in 1..Len(A!Last.got)
          BY <1>6, <4>2
        <5> QED
          BY <1>3, <1>10, <5>1
      <4> QED
        BY <4>1, <4>2
    <3>2. top.next <= Len(top.list) + 1 /\ Len(top.got) + 1 = top.next
      BY <1>6, <1>9, <1>10
    <3> QED
      BY <1>3, <1>9, <1>12, <2>2, <3>1, <3>2
  <2> QED
    BY <1>16, <2>1, <2>2
<1>18. KeepsNone'
  <2> SUFFICES ASSUME NEW k \in 1..N, activations'[k].keep
               PROVE  instances[activations'[k].asked] = NoObject
    BY <1>12 DEF KeepsNone
  <2>1. CASE k < N
    BY <1>1, <1>12, <2>1 DEF ActivationInv, KeepsNone
  <2>2. CASE k = N
    BY <1>3, <1>9, <1>12, <2>2
  <2> QED
    BY <1>16, <2>1, <2>2
<1>19. ChainOK'
  <2> SUFFICES ASSUME NEW k \in 1..N, k + 1 <= N
               PROVE  /\ activations'[k].next <= Len(activations'[k].list)
                      /\ activations'[k + 1].asked = activations'[k].list[activations'[k].next]
                      /\ activations'[k + 1].keep
    BY <1>12 DEF ChainOK
  <2>1. k < N /\ k + 1 \in 1..N
    OBVIOUS
  <2>2. /\ activations'[k + 1].asked = activations[k + 1].asked
        /\ activations'[k + 1].keep = activations[k + 1].keep
    BY <1>3, <1>9, <1>12, <1>16, <2>1
  <2> QED
    BY <1>4, <1>12, <2>1, <2>2
<1>20. CirclesOK'
  <2> SUFFICES ASSUME NEW j \in 1..N, NEW k \in 1..N, j < k,
                      activations'[j].asked = activations'[k].asked
               PROVE  activations'[k].next <= activations'[j].next
    BY <1>12 DEF CirclesOK
  <2>1. j < N /\ activations'[j] = activations[j]
    BY <1>12
  <2>2. CASE k < N
    BY <1>1, <1>12, <2>1, <2>2 DEF ActivationInv, CirclesOK
  <2>3. CASE k = N
    <3>1. activations[j].asked = A!Last.asked
      BY <1>9, <1>12, <2>1, <2>3
    <3>2. next <= activations[j].next
      BY <1>1, <1>3, <1>5, <2>1, <3>1 DEF ActivationInv, CirclesOK
    <3>3. activations[j].next # next
      <4> SUFFICES ASSUME activations[j].next = next PROVE FALSE
        OBVIOUS
      <4>1. j + 1 \in 1..N /\ activations[j + 1].asked = A!Last.list[next] /\ activations[j + 1].keep
        <5>1. activations[j].list = A!Last.list
          BY <1>3, <1>4, <2>1, <3>1
        <5> QED
          BY <1>4, <2>1, <5>1
      <4>2. instances[activations[j + 1].asked] = NoObject
        BY <1>1, <4>1 DEF ActivationInv, KeepsNone
      <4> QED
        BY <1>5, <4>1, <4>2
    <3>4. activations[j].next \in Nat
      BY <1>3, <2>1 DEF Pending
    <3> QED
      BY <1>5, <1>9, <1>12, <2>1, <2>3, <3>2, <3>3, <3>4
  <2> QED
    BY <1>16, <2>2, <2>3
<1>21. ArgumentsOK'
  <2> SUFFICES ASSUME NEW k \in 1..N, NEW n \in 1..Len(activations'[k].got)
               PROVE  \/ arguments'[n] = activations'[k].got[n]
                      \/ \E b \in (n + 1)..Len(activations'[k].got) :
                            Len(objects[activations'[k].got[b]].list) >= 1
                      \/ k + 1 <= N /\ Len(activations'[k + 1].list) >= 1
    BY <1>12 DEF ArgumentsOK
  <2>1. CASE k < N
    <3>1. k + 1 \in 1..N /\ k + 1 <= N
      BY <2>1
    <3>2. Len(activations'[k + 1].list) >= 1
      <4>1. CASE k + 1 = N
        BY <1>6, <1>9, <1>12, <4>1
      <4>2. CASE k + 1 < N
        <5>1. activations[k + 1].next \in Nat \ {0} /\ activations[k + 1].list \in Seq(Interfaces)
          BY <1>3, <3>1 DEF Pending
        <5>2. activations[k + 1].next <= Len(activations[k + 1].list)
          BY <1>4, <3>1, <4>2
        <5> QED
          BY <1>12, <3>1, <4>2, <5>1, <5>2
      <4> QED
        BY <1>16, <3>1, <4>1, <4>2
    <3> QED
      BY <3>1, <3>2
  <2>2. CASE k = N
    <3>1. n \in 1..next
      BY <1>10, <1>12, <2>2
    <3>2. CASE n = next
      BY <1>10, <1>12, <1>13, <2>2, <3>2
    <3>3. CASE n # next
      <4>1. n \in 1..(next - 1) /\ n \in 1..Len(A!Last.got)
        BY <1>6, <3>1, <3>3
      <4>2. arguments'[n] = arguments[n] /\ top.got[n] = A!Last.got[n]
        BY <1>10, <1>13, <4>1
      <4>3. ASSUME NEW b \in (n + 1)..Len(A!Last.got), Len(objects[A!Last.got[b]].list) >= 1
            PROVE  \E c \in (n + 1)..Len(top.got) : Len(objects[top.got[c]].list) >= 1
        <5>1. b \in 1..(next - 1) /\ b \in (n + 1)..Len(top.got)
          BY <1>6, <1>10, <4>1, <4>3
        <5>2. top.got[b] = A!Last.got[b]
          BY <1>10, <5>1
        <5> QED
          BY <4>3, <5>1, <5>2
      <4> QED
        <5>1. arguments[n] = A!Last.got[n] \/ \E b \in (n + 1)..Len(A!Last.got) : Len(objects[A!Last.got[b]].list) >= 1
          BY <1>3, <4>1
        <5>2. \/ arguments'[n] = top.got[n]
              \/ \E c \in (n + 1)..Len(top.got) : Len(objects[top.got[c]].list) >= 1
          BY <4>2, <4>3, <5>1
        <5> QED
          BY <1>12, <2>2, <5>2
    <3> QED
      BY <3>2, <3>3
  <2> QED
    BY <1>16, <2>1, <2>2
<1> QED
  BY <1>15, <1>17, <1>18, <1>19, <1>20, <1>21 DEF ActivationInv

\* Whoever is last and has got everything is not waited for: in a circle the one who
\* waits would be behind.
LEMMA NobodyWaits ==
    ASSUME A!ActivationAssumption, ActivationInv, NEW N \in Nat, Len(activations) = N, N > 0,
           A!Last.next > Len(A!Last.list), NEW j \in 1..N, j < N
    PROVE  activations[j].asked # A!Last.asked
<1> SUFFICES ASSUME activations[j].asked = A!Last.asked PROVE FALSE
  OBVIOUS
<1>1. /\ A!Last = activations[N] /\ A!Last \in Pending /\ N \in 1..N
      /\ A!Last.list = ListsOfAll[A!Last.asked] /\ activations[j] \in Pending
      /\ activations[j].list = ListsOfAll[activations[j].asked]
      /\ activations[j].next <= Len(activations[j].list)
  BY LastCall
<1>2. activations[j].list = A!Last.list
  BY <1>1
<1>3. A!Last.next <= activations[j].next
  BY <1>1 DEF ActivationInv, CirclesOK
<1>4. A!Last.next \in Nat /\ activations[j].next \in Nat /\ Len(A!Last.list) \in Nat
  BY <1>1 DEF Pending
<1> QED
  BY <1>1, <1>2, <1>3, <1>4

\* The object and what is kept of it, whoever asked for it.
LEMMA ObjectMade ==
    ASSUME A!ActivationAssumption, ActivationInv, NEW N \in Nat, Len(activations) = N, N > 0,
           A!Last.next > Len(A!Last.list), NEW Q \in Nat, Q = Len(objects),
           NEW new, new = [class |-> A!Last.class, list |-> A!Last.list, got |-> A!Last.got,
                           args |-> SubSeq(arguments, 1, Len(A!Last.list))],
           objects' = Append(objects, new),
           instances' = IF A!Last.keep THEN [instances EXCEPT ![A!Last.asked] = Q + 1] ELSE instances
    PROVE  /\ objects' \in Seq(MadeObject) /\ Len(objects') = Q + 1
           /\ objects'[Q + 1].list = A!Last.list
           /\ \A i \in 1..Q : objects'[i] = objects[i]
           /\ instances' \in [Injectable -> Nat \cup {NoObject}]
           /\ \A t \in Injectable : instances[t] # NoObject => instances'[t] = instances[t]
           /\ \A t \in Injectable : t # A!Last.asked => instances'[t] = instances[t]
           /\ A!Last.keep => instances'[A!Last.asked] = Q + 1
           /\ KeptOK' /\ ObjectsOK'
<1>1. /\ A!Last = activations[N] /\ A!Last \in Pending /\ N \in 1..N
      /\ Len(A!Last.list) <= MaxDependencies
      /\ A!Last.asked \in Interfaces => /\ A!Last.class \in DOMAIN Implements
                                        /\ Implements[A!Last.class] = A!Last.asked
      /\ A!Last.next <= Len(A!Last.list) + 1 /\ Len(A!Last.got) + 1 = A!Last.next
      /\ \A n \in 1..Len(A!Last.got) : /\ A!Last.got[n] \in 1..Len(objects)
                                       /\ A!Last.got[n] = instances[A!Last.list[n]]
      /\ A!Last.keep => instances[A!Last.asked] = NoObject
      /\ \A n \in 1..Len(A!Last.got) :
            \/ arguments[n] = A!Last.got[n]
            \/ \E b \in (n + 1)..Len(A!Last.got) : Len(objects[A!Last.got[b]].list) >= 1
  BY LastCall
<1>2. PICK L \in Nat : L = Len(A!Last.list)
  BY <1>1 DEF Pending
<1>3. Len(A!Last.got) = L /\ A!Last.list \in Seq(Interfaces) /\ A!Last.got \in Seq(Nat)
      /\ L <= MaxDependencies /\ A!Last.class \in Classes /\ A!Last.asked \in Injectable
  BY <1>1, <1>2 DEF Pending
<1>4. new.class = A!Last.class /\ new.list = A!Last.list /\ new.got = A!Last.got
      /\ new.args = SubSeq(arguments, 1, L)
  BY <1>2
<1>5. new.args \in Seq(Nat \cup {NoObject}) /\ Len(new.args) = L
      /\ \A n \in 1..L : new.args[n] = arguments[n]
  <2>1. PICK D \in Nat : D = MaxDependencies
    BY DEF A!ActivationAssumption
  <2>2. arguments \in [1..D -> Nat \cup {NoObject}]
    BY <2>1 DEF ActivationInv, ProgramTyped
  <2>3. arguments \in Seq(Nat \cup {NoObject}) /\ Len(arguments) = D
    BY <2>2
  <2>4. L <= D
    BY <1>3, <2>1
  <2> QED
    BY <1>4, <2>3, <2>4, SubSeqProperties
<1>6. new \in MadeObject
  BY <1>3, <1>4, <1>5 DEF MadeObject
<1>7. /\ objects' \in Seq(MadeObject) /\ Len(objects') = Q + 1 /\ objects'[Q + 1] = new
      /\ \A i \in 1..Q : objects'[i] = objects[i]
  BY <1>6, AppendProperties DEF ActivationInv, ProgramTyped
<1>8. /\ instances' \in [Injectable -> Nat \cup {NoObject}]
      /\ \A t \in Injectable : instances[t] # NoObject => instances'[t] = instances[t]
      /\ \A t \in Injectable : t # A!Last.asked => instances'[t] = instances[t]
      /\ A!Last.keep => instances'[A!Last.asked] = Q + 1
  <2>1. instances \in [Injectable -> Nat \cup {NoObject}]
    BY DEF ActivationInv, ProgramTyped
  <2>2. CASE A!Last.keep
    BY <1>1, <1>3, <2>1, <2>2
  <2>3. CASE ~A!Last.keep
    BY <2>1, <2>3
  <2> QED
    BY <2>2, <2>3
<1>9. \A i \in 1..Q : i # NoObject /\ i \in 1..(Q + 1)
  BY DEF A!ActivationAssumption
<1>10. \A i \in 1..(Q + 1) : i \in 1..Q \/ i = Q + 1
  OBVIOUS
<1>11. \A n \in 1..L : /\ new.got[n] \in 1..Q /\ new.got[n] = instances[new.list[n]]
                       /\ new.got[n] = instances'[new.list[n]]
  <2> SUFFICES ASSUME NEW n \in 1..L
               PROVE  /\ A!Last.got[n] \in 1..Q /\ A!Last.got[n] = instances[A!Last.list[n]]
                      /\ A!Last.got[n] = instances'[A!Last.list[n]]
    BY <1>4
  <2>1. A!Last.got[n] \in 1..Q /\ A!Last.got[n] = instances[A!Last.list[n]]
    BY <1>1, <1>3
  <2>2. A!Last.list[n] \in Injectable
    BY <1>2, <1>3 DEF Injectable
  <2> QED
    BY <1>8, <1>9, <2>1, <2>2
<1>12. KeptOK'
  <2> SUFFICES ASSUME NEW t \in Injectable, instances'[t] # NoObject
               PROVE  /\ instances'[t] \in 1..(Q + 1)
                      /\ t \in Interfaces => /\ objects'[instances'[t]].class \in DOMAIN Implements
                                             /\ Implements[objects'[instances'[t]].class] = t
    BY <1>7 DEF KeptOK
  <2>1. CASE instances'[t] = instances[t]
    <3>1. /\ instances[t] \in 1..Q
          /\ t \in Interfaces => /\ objects[instances[t]].class \in DOMAIN Implements
                                 /\ Implements[objects[instances[t]].class] = t
      BY <2>1 DEF ActivationInv, KeptOK
    <3>2. objects'[instances'[t]] = objects[instances[t]] /\ instances'[t] \in 1..(Q + 1)
      BY <1>7, <1>9, <2>1, <3>1
    <3> QED
      BY <3>1, <3>2
  <2>2. CASE instances'[t] # instances[t]
    <3>1. t = A!Last.asked
      BY <1>8, <2>2
    <3>2. A!Last.keep
      BY <2>2
    <3>3. instances'[t] = Q + 1 /\ Q + 1 \in 1..(Q + 1)
      BY <1>8, <3>1, <3>2
    <3> QED
      BY <1>1, <1>4, <1>7, <3>1, <3>3
  <2> QED
    BY <2>1, <2>2
<1>13. ObjectsOK'
  <2> SUFFICES ASSUME NEW o \in 1..(Q + 1)
               PROVE  ObjectOK(objects'[o], instances', objects')
    BY <1>7 DEF ObjectsOK
  <2>1. CASE o \in 1..Q
    <3>1. PICK ob : ob = objects[o]
      OBVIOUS
    <3>2. objects'[o] = ob /\ ob \in MadeObject
      BY <1>7, <2>1, <3>1 DEF ActivationInv, ProgramTyped
    <3>3. /\ Len(ob.got) = Len(ob.list) /\ Len(ob.args) = Len(ob.list)
          /\ Len(ob.list) <= MaxDependencies
          /\ \A n \in 1..Len(ob.list) :
                /\ ob.got[n] \in 1..Q /\ ob.got[n] = instances[ob.list[n]]
                /\ ob.args[n] = ob.got[n]
                   \/ \E b \in (n + 1)..Len(ob.got) : Len(objects[ob.got[b]].list) >= 1
      BY <2>1, <3>1 DEF ActivationInv, ObjectsOK, ObjectOK
    <3>4. PICK K \in Nat : K = Len(ob.list)
      BY <3>2 DEF MadeObject
    <3>5. ASSUME NEW n \in 1..K
          PROVE  /\ ob.got[n] \in 1..(Q + 1) /\ ob.got[n] = instances'[ob.list[n]]
                 /\ ob.args[n] = ob.got[n]
                    \/ \E b \in (n + 1)..Len(ob.got) : Len(objects'[ob.got[b]].list) >= 1
      <4>1. ob.list[n] \in Injectable
        BY <3>2, <3>4 DEF MadeObject, Injectable
      <4>2. ob.got[n] \in 1..Q /\ ob.got[n] = instances[ob.list[n]]
        BY <3>3, <3>4
      <4>3. \A b \in (n + 1)..K : objects'[ob.got[b]] = objects[ob.got[b]]
        <5>1. \A b \in (n + 1)..K : b \in 1..K
          OBVIOUS
        <5> QED
          BY <1>7, <3>3, <3>4, <5>1
      <4>4. ob.args[n] = ob.got[n]
            \/ \E b \in (n + 1)..K : Len(objects[ob.got[b]].list) >= 1
        BY <3>3, <3>4
      <4> QED
        BY <1>8, <1>9, <3>3, <3>4, <4>1, <4>2, <4>3, <4>4
    <3>6. ObjectOK(ob, instances', objects')
      BY <1>7, <3>3, <3>4, <3>5 DEF ObjectOK
    <3> QED
      BY <3>2, <3>6
  <2>2. CASE o = Q + 1
    <3>1. objects'[o] = new
      BY <1>7, <2>2
    <3>2. ASSUME NEW n \in 1..L
          PROVE  new.args[n] = new.got[n]
                 \/ \E b \in (n + 1)..L : Len(objects'[new.got[b]].list) >= 1
      <4>1. arguments[n] = A!Last.got[n]
            \/ \E b \in (n + 1)..L : Len(objects[A!Last.got[b]].list) >= 1
        BY <1>1, <1>3
      <4>2. \A b \in (n + 1)..L : objects'[A!Last.got[b]] = objects[A!Last.got[b]]
        <5>1. \A b \in (n + 1)..L : b \in 1..L
          OBVIOUS
        <5> QED
          BY <1>4, <1>7, <1>11, <5>1
      <4> QED
        BY <1>4, <1>5, <4>1, <4>2
    <3>3. Len(new.got) = L /\ Len(new.args) = L /\ Len(new.list) = L
      BY <1>2, <1>3, <1>4, <1>5
    <3>4. \A n \in 1..L : new.got[n] \in 1..(Q + 1)
      BY <1>9, <1>11
    <3>5. ObjectOK(new, instances', objects')
      BY <1>3, <1>7, <1>11, <3>2, <3>3, <3>4 DEF ObjectOK
    <3> QED
      BY <3>1, <3>5
  <2> QED
    BY <1>10, <2>1, <2>2
<1> QED
  BY <1>4, <1>7, <1>8, <1>12, <1>13

\* With no call running nothing is said of calls.
LEMMA NoCalls ==
    ASSUME activations' = <<>>, ProgramTyped', KeptOK', ObjectsOK'
    PROVE  ActivationInv'
<1>1. Len(activations') = 0
  OBVIOUS
<1>2. \A k \in 1..Len(activations') : FALSE
  BY <1>1
<1> QED
  BY <1>2 DEF ActivationInv, PendingOK, KeepsNone, ChainOK, CirclesOK, ArgumentsOK

LEMMA ConstructKeeps ==
    ASSUME A!ActivationAssumption, ActivationInv, A!Construct
    PROVE  ActivationInv'
<1>1. PICK N \in Nat : Len(activations) = N
  BY DEF ActivationInv, ProgramTyped
<1>2. N > 0 /\ A!Last.next > Len(A!Last.list)
  BY <1>1, EmptySeq DEF A!Construct, A!Idle, ActivationInv, ProgramTyped
<1>3. /\ A!Last = activations[N] /\ A!Last \in Pending /\ N \in 1..N
      /\ A!Last.list = ListsOfAll[A!Last.asked] /\ Len(A!Last.list) <= MaxDependencies
      /\ \A j \in 1..N : activations[j] \in Pending
  BY <1>1, <1>2, LastCall
<1>4. \A j \in 1..N : j < N => /\ activations[j].list = ListsOfAll[activations[j].asked]
                               /\ activations[j].next <= Len(activations[j].list)
                               /\ j + 1 \in 1..N
                               /\ activations[j + 1].asked = activations[j].list[activations[j].next]
                               /\ activations[j + 1].keep
  BY <1>1, <1>2, LastCall
<1>5. \A j \in 1..N : j < N => activations[j].asked # A!Last.asked
  BY <1>1, <1>2, NobodyWaits
<1>6. PICK Q \in Nat : Q = Len(objects)
  BY DEF ActivationInv, ProgramTyped
<1>7. PICK new : new = [class |-> A!Last.class, list |-> A!Last.list, got |-> A!Last.got,
                        args |-> SubSeq(arguments, 1, Len(A!Last.list))]
  OBVIOUS
<1>8. /\ objects' = Append(objects, new)
      /\ instances' = IF A!Last.keep THEN [instances EXCEPT ![A!Last.asked] = Q + 1] ELSE instances
      /\ UNCHANGED <<ctors, impl>>
  BY <1>6, <1>7 DEF A!Construct
<1>9. /\ N - 1 = 0 => activations' = <<>> /\ UNCHANGED arguments
      /\ N - 1 # 0 => /\ arguments' = [arguments EXCEPT ![activations[N - 1].next] = Q + 1]
                      /\ activations' = [A!SE!Front(activations) EXCEPT
                                            ![N - 1] = A!Gets(activations[N - 1], Q + 1)]
  BY <1>1, <1>6 DEF A!Construct
<1>10. /\ objects' \in Seq(MadeObject) /\ Len(objects') = Q + 1
       /\ objects'[Q + 1].list = A!Last.list
       /\ \A i \in 1..Q : objects'[i] = objects[i]
       /\ instances' \in [Injectable -> Nat \cup {NoObject}]
       /\ \A t \in Injectable : instances[t] # NoObject => instances'[t] = instances[t]
       /\ \A t \in Injectable : t # A!Last.asked => instances'[t] = instances[t]
       /\ A!Last.keep => instances'[A!Last.asked] = Q + 1
       /\ KeptOK' /\ ObjectsOK'
  BY <1>1, <1>2, <1>6, <1>7, <1>8, ObjectMade
<1>11. ListsOfAll' = ListsOfAll
  BY <1>8 DEF ListsOfAll, A!ClassFor, A!findSuitableCtor, A!SuitableCtors, A!Suitable
<1>12. CASE N = 1
  <2>1. activations' = <<>> /\ UNCHANGED arguments
    BY <1>9, <1>12
  <2>2. activations' \in Seq(Pending)
    BY <2>1
  <2>3. ProgramTyped'
    BY <1>8, <1>10, <2>1, <2>2 DEF ActivationInv, ProgramTyped
  <2> QED
    BY <1>10, <2>1, <2>3, NoCalls
<1>13. CASE N # 1
  <2>1. PICK C \in Nat : C = N - 1 /\ N = C + 1 /\ C > 0 /\ C < N
    BY <1>2, <1>13
  <2>2. C \in 1..N /\ C \in 1..C /\ \A j \in 1..C : j \in 1..N /\ (j < C \/ j = C)
    BY <2>1
  <2>3. PICK caller : caller = activations[C]
    OBVIOUS
  <2>4. /\ caller \in Pending /\ caller.list = ListsOfAll[caller.asked]
        /\ caller.next <= Len(caller.list) /\ A!Last.asked = caller.list[caller.next] /\ A!Last.keep
    BY <1>3, <1>4, <2>1, <2>2, <2>3
  <2>5. PICK next \in Nat \ {0} : next = caller.next
    BY <2>4 DEF Pending
  <2>6. /\ Len(caller.list) <= MaxDependencies
        /\ caller.asked \in Interfaces => /\ caller.class \in DOMAIN Implements
                                          /\ Implements[caller.class] = caller.asked
        /\ Len(caller.got) + 1 = next
        /\ \A n \in 1..Len(caller.got) :
              /\ caller.got[n] \in 1..Q /\ caller.got[n] = instances[caller.list[n]]
    BY <1>1, <1>6, <2>2, <2>3, <2>5 DEF ActivationInv, PendingOK
  <2>7. next \in 1..Len(caller.list) /\ caller.list \in Seq(Interfaces) /\ caller.got \in Seq(Nat)
        /\ Len(caller.got) = next - 1
    BY <2>4, <2>5, <2>6 DEF Pending
  <2>8. PICK top : top = A!Gets(caller, Q + 1)
    OBVIOUS
  <2>9. /\ top.asked = caller.asked /\ top.class = caller.class /\ top.keep = caller.keep
        /\ top.list = caller.list /\ top.next = next + 1 /\ top.got = Append(caller.got, Q + 1)
    BY <2>4, <2>5, <2>8 DEF Pending, A!Gets
  <2>10. /\ top.got \in Seq(Nat) /\ Len(top.got) = next /\ top.got[next] = Q + 1
         /\ \A n \in 1..(next - 1) : top.got[n] = caller.got[n]
    BY <2>7, <2>9, AppendProperties
  <2>11. top \in Pending
    <3>1. next + 1 \in Nat \ {0} /\ Append(caller.got, Q + 1) \in Seq(Nat)
      BY <2>9, <2>10
    <3>2. top = [caller EXCEPT !.next = next + 1, !.got = Append(caller.got, Q + 1)]
      BY <2>4, <2>5, <2>8 DEF A!Gets, Pending
    <3> QED
      BY <2>4, <3>1, <3>2 DEF Pending
  <2>12. /\ activations' \in Seq(Pending) /\ Len(activations') = C /\ activations'[C] = top
         /\ \A j \in 1..C : j < C => activations'[j] = activations[j]
    <3>1. PICK front : front = A!SE!Front(activations)
      OBVIOUS
    <3>2. front \in Seq(Pending) /\ Len(front) = C /\ \A j \in 1..C : front[j] = activations[j]
      <4>1. front = SubSeq(activations, 1, C)
        BY <1>1, <2>1, <3>1 DEF A!SE!Front
      <4>2. activations \in Seq(Pending)
        BY DEF ActivationInv, ProgramTyped
      <4> QED
        BY <1>1, <2>1, <4>1, <4>2, SubSeqProperties
    <3>3. activations' = [front EXCEPT ![C] = top]
      BY <1>9, <1>13, <2>1, <2>3, <2>8, <3>1
    <3> QED
      BY <2>2, <2>11, <3>2, <3>3
  <2>13. /\ arguments' \in [1..MaxDependencies -> Nat \cup {NoObject}]
         /\ arguments'[next] = Q + 1 /\ \A n \in 1..(next - 1) : arguments'[n] = arguments[n]
    <3>1. next \in 1..MaxDependencies
      BY <2>6, <2>7 DEF A!ActivationAssumption
    <3>2. arguments' = [arguments EXCEPT ![next] = Q + 1]
      BY <1>9, <1>13, <2>1, <2>3, <2>5
    <3>3. \A n \in 1..(next - 1) : n \in 1..MaxDependencies /\ n # next
      BY <3>1 DEF A!ActivationAssumption
    <3> QED
      BY <3>1, <3>2, <3>3 DEF ActivationInv, ProgramTyped
  <2>14. ProgramTyped'
    BY <1>8, <1>10, <2>12, <2>13 DEF ActivationInv, ProgramTyped
  \* What was kept is kept, so what calls have got stays.
  <2>15. ASSUME NEW k \in 1..C, NEW n \in 1..Len(activations[k].got)
         PROVE  activations[k].got[n] \in 1..Q /\ activations[k].got[n] = instances'[activations[k].list[n]]
    <3>1. activations[k].got[n] \in 1..Q /\ activations[k].got[n] = instances[activations[k].list[n]]
      BY <1>1, <1>6, <2>2 DEF ActivationInv, PendingOK
    <3>2. PICK L \in Nat : L = Len(activations[k].list)
      BY <1>3, <2>2 DEF Pending
    <3>3. n \in 1..L
      <4>1. /\ activations[k].next <= Len(activations[k].list) + 1
            /\ Len(activations[k].got) + 1 = activations[k].next
        BY <1>1, <2>2 DEF ActivationInv, PendingOK
      <4>2. Len(activations[k].got) \in Nat
        BY <1>3, <2>2 DEF Pending
      <4> QED
        BY <3>2, <4>1, <4>2
    <3>4. activations[k].list[n] \in Injectable
      BY <1>3, <2>2, <3>2, <3>3 DEF Pending, Injectable
    <3>5. activations[k].got[n] # NoObject
      BY <3>1 DEF A!ActivationAssumption
    <3> QED
      BY <1>10, <3>1, <3>4, <3>5
  <2>16. PendingOK'
    <3> SUFFICES ASSUME NEW k \in 1..C
                 PROVE  /\ activations'[k].list = ListsOfAll[activations'[k].asked]
                        /\ Len(activations'[k].list) <= MaxDependencies
                        /\ activations'[k].asked \in Interfaces =>
                              /\ activations'[k].class \in DOMAIN Implements
                              /\ Implements[activations'[k].class] = activations'[k].asked
                        /\ activations'[k].next <= Len(activations'[k].list) + 1
                        /\ Len(activations'[k].got) + 1 = activations'[k].next
                        /\ \A n \in 1..Len(activations'[k].got) :
                              /\ activations'[k].got[n] \in 1..(Q + 1)
                              /\ activations'[k].got[n] = instances'[activations'[k].list[n]]
      BY <1>10, <1>11, <2>12 DEF PendingOK
    <3>1. CASE k < C
      <4>1. \A n \in 1..Len(activations[k].got) :
               /\ activations[k].got[n] \in 1..(Q + 1)
               /\ activations[k].got[n] = instances'[activations[k].list[n]]
        BY <2>15
      <4> QED
        BY <1>1, <2>2, <2>12, <3>1, <4>1 DEF ActivationInv, PendingOK
    <3>2. CASE k = C
      <4>1. ASSUME NEW n \in 1..next
            PROVE  top.got[n] \in 1..(Q + 1) /\ top.got[n] = instances'[caller.list[n]]
        <5>1. CASE n = next
          <6>1. Q + 1 \in 1..(Q + 1)
            OBVIOUS
          <6> QED
            BY <1>10, <2>4, <2>5, <2>10, <5>1, <6>1
        <5>2. CASE n # next
          <6>1. n \in 1..(next - 1) /\ n \in 1..Len(activations[C].got)
            BY <2>3, <2>7, <5>2
          <6>2. activations[C].got[n] \in 1..Q /\ activations[C].got[n] = instances'[activations[C].list[n]]
            BY <2>2, <2>15, <6>1
          <6>3. caller.got[n] \in 1..Q /\ caller.got[n] = instances'[caller.list[n]]
            BY <2>3, <6>2
          <6>4. \A i \in 1..Q : i \in 1..(Q + 1)
            OBVIOUS
          <6> QED
            BY <2>10, <6>1, <6>3, <6>4
        <5> QED
          BY <5>1, <5>2
      <4>2. top.next <= Len(top.list) + 1 /\ Len(top.got) + 1 = top.next
        BY <2>7, <2>9, <2>10
      <4> QED
        <5>1. \A n \in 1..Len(top.got) :
                 /\ top.got[n] \in 1..(Q + 1) /\ top.got[n] = instances'[top.list[n]]
          BY <2>9, <2>10, <4>1
        <5>2. /\ top.list = ListsOfAll[top.asked] /\ Len(top.list) <= MaxDependencies
              /\ top.asked \in Interfaces => /\ top.class \in DOMAIN Implements
                                             /\ Implements[top.class] = top.asked
          BY <2>4, <2>6, <2>9
        <5> QED
          BY <2>12, <3>2, <4>2, <5>1, <5>2
    <3> QED
      BY <2>2, <3>1, <3>2
  <2>17. KeepsNone'
    <3> SUFFICES ASSUME NEW k \in 1..C, activations'[k].keep
                 PROVE  instances'[activations'[k].asked] = NoObject
      BY <2>12 DEF KeepsNone
    <3>1. activations'[k].asked = activations[k].asked /\ activations'[k].keep = activations[k].keep
      BY <2>2, <2>3, <2>9, <2>12
    <3>2. instances[activations[k].asked] = NoObject
      BY <1>1, <2>2, <3>1 DEF ActivationInv, KeepsNone
    <3>3. k < N /\ activations[k].asked \in Injectable
      BY <1>3, <2>1, <2>2 DEF Pending
    <3> QED
      BY <1>5, <1>10, <2>2, <3>1, <3>2, <3>3
  <2>18. ChainOK'
    <3> SUFFICES ASSUME NEW k \in 1..C, k + 1 <= C
                 PROVE  /\ activations'[k].next <= Len(activations'[k].list)
                        /\ activations'[k + 1].asked = activations'[k].list[activations'[k].next]
                        /\ activations'[k + 1].keep
      BY <2>12 DEF ChainOK
    <3>1. k < C /\ k + 1 \in 1..C /\ k < N
      BY <2>1
    <3>2. /\ activations'[k + 1].asked = activations[k + 1].asked
          /\ activations'[k + 1].keep = activations[k + 1].keep
      BY <2>2, <2>3, <2>9, <2>12, <3>1
    <3> QED
      BY <1>4, <2>2, <2>12, <3>1, <3>2
  <2>19. CirclesOK'
    <3> SUFFICES ASSUME NEW j \in 1..C, NEW k \in 1..C, j < k,
                        activations'[j].asked = activations'[k].asked
                 PROVE  activations'[k].next <= activations'[j].next
      BY <2>12 DEF CirclesOK
    <3>1. j < C /\ activations'[j] = activations[j] /\ j < N
      BY <2>1, <2>12
    <3>2. CASE k < C
      BY <1>1, <2>2, <2>12, <3>1, <3>2 DEF ActivationInv, CirclesOK
    <3>3. CASE k = C
      <4>1. activations[j].asked = caller.asked
        BY <2>9, <2>12, <3>1, <3>3
      <4>2. next <= activations[j].next
        BY <1>1, <2>2, <2>3, <2>5, <3>1, <4>1 DEF ActivationInv, CirclesOK
      <4>3. activations[j].next # next
        <5> SUFFICES ASSUME activations[j].next = next PROVE FALSE
          OBVIOUS
        <5>1. activations[j].list = caller.list
          BY <1>4, <2>2, <2>4, <3>1, <4>1
        <5>2. activations[j + 1].asked = A!Last.asked
          BY <1>4, <2>2, <2>4, <2>5, <3>1, <5>1
        <5>3. j + 1 \in 1..N /\ j + 1 < N
          BY <2>1, <3>1
        <5> QED
          BY <1>5, <5>2, <5>3
      <4>4. activations[j].next \in Nat
        BY <1>3, <2>2 DEF Pending
      <4> QED
        BY <2>9, <2>12, <3>1, <3>3, <4>2, <4>3, <4>4
    <3> QED
      BY <2>2, <3>2, <3>3
  <2>20. ArgumentsOK'
    <3> SUFFICES ASSUME NEW k \in 1..C, NEW n \in 1..Len(activations'[k].got)
                 PROVE  \/ arguments'[n] = activations'[k].got[n]
                        \/ \E b \in (n + 1)..Len(activations'[k].got) :
                              Len(objects'[activations'[k].got[b]].list) >= 1
                        \/ k + 1 <= C /\ Len(activations'[k + 1].list) >= 1
      BY <2>12 DEF ArgumentsOK
    <3>1. CASE k < C
      <4>1. k + 1 \in 1..C /\ k + 1 <= C
        BY <3>1
      <4>2. Len(activations'[k + 1].list) >= 1
        <5>1. CASE k + 1 = C
          BY <2>7, <2>9, <2>12, <5>1
        <5>2. CASE k + 1 < C
          <6>1. activations[k + 1].next \in Nat \ {0} /\ activations[k + 1].list \in Seq(Interfaces)
            BY <1>3, <2>2, <4>1 DEF Pending
          <6>2. activations[k + 1].next <= Len(activations[k + 1].list)
            BY <1>4, <2>1, <2>2, <4>1, <5>2
          <6> QED
            BY <2>12, <4>1, <5>2, <6>1, <6>2
        <5> QED
          BY <2>2, <4>1, <5>1, <5>2
      <4> QED
        BY <4>1, <4>2
    <3>2. CASE k = C
      <4>1. n \in 1..next
        BY <2>10, <2>12, <3>2
      <4>2. CASE n = next
        BY <2>10, <2>12, <2>13, <3>2, <4>2
      <4>3. CASE n # next
        <5>1. n \in 1..(next - 1) /\ n \in 1..Len(caller.got)
          BY <2>7, <4>1, <4>3
        <5>2. arguments'[n] = arguments[n] /\ top.got[n] = caller.got[n]
          BY <2>10, <2>13, <5>1
        <5>3. \/ arguments[n] = caller.got[n]
              \/ \E b \in (n + 1)..Len(caller.got) : Len(objects[caller.got[b]].list) >= 1
              \/ Len(activations[C + 1].list) >= 1
          BY <1>1, <2>2, <2>3, <5>1 DEF ActivationInv, ArgumentsOK
        <5>4. ASSUME NEW b \in (n + 1)..Len(caller.got), Len(objects[caller.got[b]].list) >= 1
              PROVE  \E c \in (n + 1)..Len(top.got) : Len(objects'[top.got[c]].list) >= 1
          <6>1. b \in 1..(next - 1) /\ b \in (n + 1)..Len(top.got) /\ b \in 1..Len(caller.got)
            BY <2>7, <2>10, <5>1, <5>4
          <6>2. objects'[top.got[b]] = objects[caller.got[b]]
            BY <1>10, <2>6, <2>10, <6>1
          <6> QED
            BY <5>4, <6>1, <6>2
        <5>5. ASSUME Len(activations[C + 1].list) >= 1
              PROVE  \E c \in (n + 1)..Len(top.got) : Len(objects'[top.got[c]].list) >= 1
          <6>1. next \in (n + 1)..Len(top.got)
            BY <2>10, <5>1
          <6>2. objects'[top.got[next]].list = A!Last.list
            BY <1>10, <2>10
          <6> QED
            BY <1>3, <2>1, <5>5, <6>1, <6>2
        <5>6. \/ arguments'[n] = top.got[n]
              \/ \E c \in (n + 1)..Len(top.got) : Len(objects'[top.got[c]].list) >= 1
          BY <5>2, <5>3, <5>4, <5>5
        <5> QED
          BY <2>12, <3>2, <5>6
      <4> QED
        BY <4>2, <4>3
    <3> QED
      BY <2>2, <3>1, <3>2
  <2> QED
    BY <1>10, <2>14, <2>16, <2>17, <2>18, <2>19, <2>20 DEF ActivationInv
<1> QED
  BY <1>12, <1>13

LEMMA ActivationInit == A!ActivationAssumption /\ A!Init => ActivationInv
<1> SUFFICES ASSUME A!ActivationAssumption, A!Init PROVE ActivationInv
  OBVIOUS
<1>1. /\ ctors \in Programs
      /\ impl = [i \in Interfaces |-> i]
      /\ instances = [i \in Interfaces \cup Classes |-> NoObject]
      /\ arguments = [a \in 1..MaxDependencies |-> NoObject]
      /\ activations = <<>> /\ objects = <<>>
  BY DEF A!Init
<1>2. activations \in Seq(Pending) /\ objects \in Seq(MadeObject) /\ Len(activations) = 0 /\ Len(objects) = 0
  BY <1>1
<1>3. ProgramTyped
  BY <1>1, <1>2 DEF ProgramTyped, Injectable
<1>4. \A k \in 1..0 : FALSE
  OBVIOUS
<1> QED
  BY <1>1, <1>2, <1>3, <1>4 DEF ActivationInv, KeptOK, ObjectsOK, PendingOK, KeepsNone, ChainOK, CirclesOK,
     ArgumentsOK, Injectable

LEMMA CallsEnd ==
    ASSUME ActivationInv, activations' = <<>>, UNCHANGED <<ctors, impl, instances, arguments, objects>>
    PROVE  ActivationInv'
<1>1. activations' \in Seq(Pending)
  OBVIOUS
<1>2. ProgramTyped'
  BY <1>1 DEF ActivationInv, ProgramTyped
<1>3. KeptOK' /\ ObjectsOK'
  BY DEF ActivationInv, KeptOK, ObjectsOK
<1> QED
  BY <1>2, <1>3, NoCalls

LEMMA BeginKeeps ==
    ASSUME A!ActivationAssumption, ActivationInv, NEW t \in Injectable, NEW keep \in BOOLEAN, A!Begins(t, keep),
           UNCHANGED <<ctors, impl, instances, arguments, objects>>,
           keep => instances[t] = NoObject,
           activations # <<>> => keep /\ A!Last.next <= Len(A!Last.list) /\ t = A!Last.list[A!Last.next]
    PROVE  ActivationInv'
<1>1. \/ activations' = <<>>
      \/ ~A!Aborts(t) /\ activations' = Append(activations, A!Activation(t, keep))
  BY DEF A!Begins
<1> QED
  BY <1>1, CallsEnd, PushKeeps

LEMMA ActivationStep == A!ActivationAssumption /\ ActivationInv /\ (A!Next \/ UNCHANGED A!vars) => ActivationInv'
<1> SUFFICES ASSUME A!ActivationAssumption, ActivationInv, A!Next \/ UNCHANGED A!vars PROVE ActivationInv'
  OBVIOUS
<1>1. ASSUME NEW i \in Interfaces, NEW c \in Classes, A!AddDependency(i, c) PROVE ActivationInv'
  <2>1. /\ activations = <<>> /\ activations' = <<>> /\ c \in DOMAIN Implements /\ Implements[c] = i
        /\ impl' = [impl EXCEPT ![i] = c] /\ UNCHANGED <<ctors, instances, arguments, objects>>
    BY <1>1 DEF A!AddDependency, A!Idle
  <2>2. activations' \in Seq(Pending)
    BY <2>1
  <2>3. ProgramTyped'
    BY <2>1, <2>2 DEF ActivationInv, ProgramTyped, Injectable
  <2>4. KeptOK' /\ ObjectsOK'
    BY <2>1 DEF ActivationInv, KeptOK, ObjectsOK
  <2> QED
    BY <2>1, <2>3, <2>4, NoCalls
<1>2. ASSUME NEW t \in Asked, A!GetDependency(t) PROVE ActivationInv'
  <2>1. t \in Injectable /\ activations = <<>> /\ UNCHANGED <<ctors, impl, instances, arguments, objects>>
    BY <1>2 DEF A!GetDependency, A!Idle, Injectable, A!ActivationAssumption
  <2>2. CASE A!Kept(t, TRUE)
    <3>1. activations' = <<>>
      BY <1>2, <2>1, <2>2 DEF A!GetDependency
    <3> QED
      BY <2>1, <3>1, CallsEnd
  <2>3. CASE ~A!Kept(t, TRUE)
    <3>1. A!Begins(t, TRUE) /\ instances[t] = NoObject
      BY <1>2, <2>3 DEF A!GetDependency, A!Kept
    <3> QED
      BY <2>1, <3>1, BeginKeeps
  <2> QED
    BY <2>2, <2>3
<1>3. ASSUME NEW t \in Asked, A!CreateInstance(t) PROVE ActivationInv'
  <2>1. t \in Injectable /\ activations = <<>> /\ UNCHANGED <<ctors, impl, instances, arguments, objects>>
        /\ A!Begins(t, FALSE)
    BY <1>3 DEF A!CreateInstance, A!Idle, Injectable, A!ActivationAssumption
  <2> QED
    BY <2>1, BeginKeeps
<1>4. CASE A!Prepare
  <2>1. ~A!Idle /\ A!Last.next <= Len(A!Last.list) /\ UNCHANGED <<ctors, impl, instances, objects>>
    BY <1>4 DEF A!Prepare
  <2>2. PICK t : t = A!Last.list[A!Last.next]
    OBVIOUS
  <2>3. t \in Injectable
    <3>1. PICK N \in Nat : Len(activations) = N
      BY DEF ActivationInv, ProgramTyped
    <3>2. N > 0
      BY <2>1, <3>1, EmptySeq DEF A!Idle, ActivationInv, ProgramTyped
    <3>3. A!Last \in Pending
      BY <3>1, <3>2, LastCall
    <3>4. A!Last.next \in 1..Len(A!Last.list) /\ A!Last.list \in Seq(Interfaces)
      BY <2>1, <3>3 DEF Pending
    <3> QED
      BY <2>2, <3>4 DEF Injectable
  <2>4. CASE A!Kept(t, TRUE)
    <3>1. A!Given(instances[t]) /\ instances[t] # NoObject
      BY <1>4, <2>2, <2>4 DEF A!Prepare, A!Kept
    <3> QED
      BY <2>1, <2>2, <3>1, GivenKeeps
  <2>5. CASE ~A!Kept(t, TRUE)
    <3>1. A!Begins(t, TRUE) /\ UNCHANGED arguments /\ instances[t] = NoObject
      BY <1>4, <2>2, <2>5 DEF A!Prepare, A!Kept
    <3> QED
      BY <2>1, <2>2, <2>3, <3>1, BeginKeeps
  <2> QED
    BY <2>4, <2>5
<1>5. CASE A!ConstructorAborts
  BY <1>5, CallsEnd DEF A!ConstructorAborts
<1>6. CASE UNCHANGED A!vars
  <2>1. UNCHANGED <<ctors, impl, instances, arguments, activations, objects>>
    BY <1>6 DEF A!vars
  <2>2. ListsOfAll' = ListsOfAll
    BY <2>1 DEF ListsOfAll, A!ClassFor, A!findSuitableCtor, A!SuitableCtors, A!Suitable
  <2>3. ProgramTyped' /\ KeptOK' /\ ObjectsOK'
    BY <2>1 DEF ActivationInv, ProgramTyped, KeptOK, ObjectsOK
  <2>4. PendingOK'
    BY <2>1, <2>2 DEF ActivationInv, PendingOK
  <2>5. KeepsNone' /\ ChainOK' /\ CirclesOK'
    BY <2>1 DEF ActivationInv, KeepsNone, ChainOK, CirclesOK
  <2>6. ArgumentsOK'
    BY <2>1 DEF ActivationInv, ArgumentsOK
  <2> QED
    BY <2>3, <2>4, <2>5, <2>6 DEF ActivationInv
<1> QED
  BY <1>1, <1>2, <1>3, <1>4, <1>5, <1>6, ConstructKeeps DEF A!Next

LEMMA InstancesAreShared == A!ActivationAssumption /\ ActivationInv => A!DependenciesAreShared
<1> SUFFICES ASSUME A!ActivationAssumption, ActivationInv PROVE A!DependenciesAreShared
  OBVIOUS
<1>1. PICK Q \in Nat : Q = Len(objects) /\ DOMAIN objects = 1..Q
  BY DEF ActivationInv, ProgramTyped
<1>2. \A o \in 1..Q : objects[o] \in MadeObject /\ ObjectOK(objects[o], instances, objects)
  BY <1>1 DEF ActivationInv, ProgramTyped, ObjectsOK
<1>3. ASSUME NEW i \in Interfaces PROVE A!GivenFor(i) \subseteq {instances[i]}
  <2> SUFFICES ASSUME NEW o \in 1..Q, NEW n \in DOMAIN objects[o].list, objects[o].list[n] = i
               PROVE  objects[o].got[n] = instances[i]
    BY <1>1 DEF A!GivenFor
  <2>1. n \in 1..Len(objects[o].list)
    BY <1>2 DEF MadeObject
  <2> QED
    BY <1>2, <2>1 DEF ObjectOK
<1>4. ASSUME NEW i \in Interfaces PROVE A!Cardinality(A!GivenFor(i)) <= 1
  <2>1. IsFiniteSet({instances[i]}) /\ Cardinality({instances[i]}) = 1
    BY FS_Singleton
  <2>2. A!Cardinality(A!GivenFor(i)) = Cardinality(A!GivenFor(i))
    BY DEF A!Cardinality, Cardinality
  <2> QED
    BY <1>3, <2>1, <2>2, FS_Subset
<1>5. ASSUME NEW i \in Interfaces, instances[i] # NoObject PROVE A!IsFor(instances[i], i)
  BY <1>1, <1>5 DEF ActivationInv, KeptOK, Injectable, A!IsFor, A!Made
<1>6. ASSUME NEW o \in 1..Q, NEW a \in DOMAIN objects[o].args
      PROVE  objects[o].args[a] = objects[o].got[a] \/
             \E b \in (a + 1)..Len(objects[o].got) : Len(objects[objects[o].got[b]].list) >= 1
  <2>1. a \in 1..Len(objects[o].list)
    BY <1>2 DEF MadeObject, ObjectOK
  <2> QED
    BY <1>2, <2>1 DEF ObjectOK
<1> QED
  BY <1>1, <1>3, <1>4, <1>5, <1>6 DEF A!DependenciesAreShared

\* For an interface there is one instance, and all who depend on it get that one: for
\* any classes and constructors, in whatever order they are registered and asked for.
THEOREM InstancesAreKeptOnce == MCSpec => []DependenciesAreShared
<1> DEFINE Inv == which = "injection" => ActivationInv
<1>1. MCInit => Inv
  BY ActivationInit, ProgramsAreTyped DEF MCInit
<1>2. Inv /\ [MCNext]_allVars => Inv'
  <2> SUFFICES ASSUME Inv, [MCNext]_allVars, which' = "injection" PROVE ActivationInv'
    OBVIOUS
  <2>1. which = "injection"
    BY DEF MCNext, allVars
  <2>2. A!Next \/ UNCHANGED A!vars
    BY <2>1 DEF MCNext, allVars, injectionVars, A!vars
  <2> QED
    BY <2>1, <2>2, ActivationStep, ProgramsAreTyped
<1>3. Inv => DependenciesAreShared
  BY InstancesAreShared, ProgramsAreTyped DEF DependenciesAreShared
<1> QED
  BY <1>1, <1>2, <1>3, PTL DEF MCSpec
-----------------------------------------------------------------------------
(***************************************************************************)
(* Emission: what a section of the text uses, an earlier one has declared, *)
(* for programs that have any combination of the features.                 *)
(***************************************************************************)
\* What the section with number k has for class c (Text).
Declares(c, k) ==
    IF k = 1 THEN E!When(E!IsValueType(c), E!StructName(c))
    ELSE IF k = 2 THEN E!When(E!IsValueType(c), E!Struct(c))
    ELSE IF k = 3 THEN E!When(~E!IsValueType(c), E!StructName(c))
    ELSE IF k = 4 THEN E!When(~E!IsValueType(c), E!Struct(c))
    ELSE IF k = 5 THEN E!FunctionHeaders(c) ELSE {}
Defines(c, k) ==
    IF k = 6 THEN E!VTable(c) ELSE IF k = 7 THEN E!Helper(c) ELSE IF k = 8 THEN E!Bodies(c)
    ELSE IF k = 9 THEN E!Stub(c) ELSE IF k = 10 THEN {<<"prolog", "domain">>}
    ELSE IF k = 11 THEN {<<"epilog", "domain">>} ELSE {}
Needs(c, k) ==
    IF k = 2 THEN E!When(E!IsValueType(c), E!StructUses(c))
    ELSE IF k = 4 THEN E!When(~E!IsValueType(c), E!StructUses(c))
    ELSE IF k = 6 THEN E!VTableUses(c) ELSE IF k = 7 THEN E!HelperUses(c)
    ELSE IF k = 8 THEN E!BodyUses(c) ELSE IF k = 10 THEN E!PrologUses(c)
    ELSE IF k = 11 THEN E!EpilogUses(c) ELSE {}

\* The classes of a program with given features.
ProgramClasses ==
    {"A", "B", "V", "W"} \cup E!When(E!Has("proxyA"), {"proxyA"}) \cup E!When(E!Has("proxyB"), {"proxyB"})
    \cup E!When(E!Has("box"), {"boxed"}) \cup E!When(E!Has("array"), {"array"})
    \cup E!When(E!Has("closure"), {"closure", "env"})

\* Section k has been written for class number i, at a place of the text.
Before(k, i, s, p) == k < s \/ (k = s /\ i < p)

AllClasses == {"A", "B", "V", "W", "proxyA", "proxyB", "boxed", "array", "closure", "env"}
Elements(s) == {s[i] : i \in 1..Len(s)}

ProgramOK(ks, cs) == /\ Len(ks) \in Nat /\ Len(ks) > 0
                     /\ Elements(ks) = cs
PlaceOK(s, p, n) == s \in 1..12 /\ p \in 1..n /\ (s = 12 => p = 1)
\* What has been written is declared, and defined if it has a body.
WrittenOK == \A k \in 1..11, i \in 1..Len(klasses) :
                 Before(k, i, section, pos) =>
                     /\ Declares(klasses[i], k) \cup Defines(klasses[i], k) \subseteq declared
                     /\ Defines(klasses[i], k) \subseteq defined
\* A function that is declared has a header or a body.
HeadersOK == \A d \in declared : d[1] \in {"fn", "vch"} =>
                 d \in defined \/ \E c \in ProgramClasses : d \in E!FunctionHeaders(c)
EarlyOK == early \subseteq {E!StructBeforeItsPart} \cup E!When(E!IsAbstract("A"), {E!AbstractCtor})
EmissionInv == /\ ProgramOK(klasses, ProgramClasses) /\ PlaceOK(section, pos, Len(klasses))
               /\ WrittenOK /\ HeadersOK /\ EarlyOK

LEMMA ConcatRange ==
  ASSUME NEW s \in Seq(AllClasses), NEW t \in Seq(AllClasses)
  PROVE  /\ s \o t \in Seq(AllClasses) /\ Len(s \o t) = Len(s) + Len(t)
         /\ Elements(s \o t) = Elements(s) \cup Elements(t)
  <1>1. /\ s \o t \in Seq(AllClasses) /\ Len(s \o t) = Len(s) + Len(t)
        /\ \A i \in 1..Len(s) + Len(t) : (s \o t)[i] = IF i <= Len(s) THEN s[i] ELSE t[i - Len(s)]
    BY ConcatProperties
  <1>2. Len(s) \in Nat /\ Len(t) \in Nat
    BY LenProperties
  <1>3. ASSUME NEW j \in 1..Len(t) PROVE (s \o t)[Len(s) + j] = t[j] /\ Len(s) + j \in 1..Len(s \o t)
    BY <1>1, <1>2
  <1>4. ASSUME NEW j \in 1..Len(s) PROVE (s \o t)[j] = s[j] /\ j \in 1..Len(s \o t)
    BY <1>1, <1>2
  <1>5. ASSUME NEW j \in 1..Len(s \o t)
        PROVE  (s \o t)[j] \in Elements(s) \cup Elements(t)
    <2>1. CASE j <= Len(s)
      BY <1>1, <1>2, <2>1 DEF Elements
    <2>2. CASE ~(j <= Len(s))
      <3>1. j - Len(s) \in 1..Len(t) /\ (s \o t)[j] = t[j - Len(s)]
        BY <1>1, <1>2, <2>2
      <3> QED BY <3>1 DEF Elements
    <2> QED BY <2>1, <2>2
  <1>6. Elements(s \o t) \subseteq Elements(s) \cup Elements(t)
    BY <1>5 DEF Elements
  <1>7. Elements(s) \subseteq Elements(s \o t)
    BY <1>4 DEF Elements
  <1>8. Elements(t) \subseteq Elements(s \o t)
    BY <1>3 DEF Elements
  <1> QED BY <1>1, <1>6, <1>7, <1>8

LEMMA MadeForRange ==
  ASSUME NEW f, NEW s \in Seq(AllClasses)
  PROVE  /\ E!MadeFor(f, s) \in Seq(AllClasses)
         /\ Elements(E!MadeFor(f, s)) = E!When(E!Has(f), Elements(s))
  <1>1. CASE E!Has(f)
    BY <1>1 DEF E!MadeFor, E!When
  <1>2. CASE ~E!Has(f)
    <2>1. E!MadeFor(f, s) = <<>> /\ Len(<<>>) = 0 /\ 1..0 = {}
      BY <1>2 DEF E!MadeFor
    <2> QED BY <1>2, <2>1, EmptySeq DEF E!When, E!Nothing, Elements
  <1> QED BY <1>1, <1>2

LEMMA EmissionInit ==
  ASSUME E!Init PROVE EmissionInv
  <1>1. PICK s \in E!Sources : klasses = s \o E!Generated
    BY DEF E!Init
  <1>2. s \in Seq(AllClasses) /\ Len(s) = 4 /\ Elements(s) = {"A", "B", "V", "W"}
    <2>1. Len(s) = 4 /\ s \in Seq(AllClasses)
      <3> DEFINE F == {"A", "B", "V", "W"}
      <3>2. F \subseteq AllClasses
        BY DEF AllClasses
      <3>3. ASSUME NEW c1 \in F, NEW c2 \in F, NEW c3 \in F, NEW c4 \in F
            PROVE  <<c1, c2, c3, c4>> \in Seq(AllClasses) /\ Len(<<c1, c2, c3, c4>>) = 4
        <4> HIDE DEF F
        <4> QED BY <3>2
      <3>1. \/ s = <<"A", "V", "W", "B">> \/ s = <<"A", "W", "V", "B">>
            \/ s = <<"V", "A", "W", "B">> \/ s = <<"W", "A", "V", "B">>
            \/ s = <<"V", "W", "A", "B">> \/ s = <<"W", "V", "A", "B">>
        BY DEF E!Sources
      <3> QED BY <3>1, <3>3
    <2>3. /\ \A c \in {"A", "B", "V", "W"} : s[1] = c \/ s[2] = c \/ s[3] = c \/ s[4] = c
          /\ \A i \in {1, 2, 3, 4} : s[i] \in {"A", "B", "V", "W"}
      <3>1. \/ s = <<"A", "V", "W", "B">> \/ s = <<"A", "W", "V", "B">>
            \/ s = <<"V", "A", "W", "B">> \/ s = <<"W", "A", "V", "B">>
            \/ s = <<"V", "W", "A", "B">> \/ s = <<"W", "V", "A", "B">>
        BY DEF E!Sources
      <3> QED BY <3>1
    <2>2. 1..4 = {1, 2, 3, 4}
      OBVIOUS
    <2> QED BY <2>1, <2>2, <2>3 DEF Elements
  <1> DEFINE a == E!MadeFor("proxyA", <<"proxyA">>)
             b == E!MadeFor("proxyB", <<"proxyB">>)
             x == E!MadeFor("box", <<"boxed">>)
             y == E!MadeFor("array", <<"array">>)
             z == E!MadeFor("closure", <<"closure", "env">>)
  <1>3. /\ a \in Seq(AllClasses) /\ Elements(a) = E!When(E!Has("proxyA"), {"proxyA"})
        /\ b \in Seq(AllClasses) /\ Elements(b) = E!When(E!Has("proxyB"), {"proxyB"})
        /\ x \in Seq(AllClasses) /\ Elements(x) = E!When(E!Has("box"), {"boxed"})
        /\ y \in Seq(AllClasses) /\ Elements(y) = E!When(E!Has("array"), {"array"})
        /\ z \in Seq(AllClasses) /\ Elements(z) = E!When(E!Has("closure"), {"closure", "env"})
    <2>1. /\ <<"proxyA">> \in Seq(AllClasses) /\ Elements(<<"proxyA">>) = {"proxyA"}
          /\ <<"proxyB">> \in Seq(AllClasses) /\ Elements(<<"proxyB">>) = {"proxyB"}
          /\ <<"boxed">> \in Seq(AllClasses) /\ Elements(<<"boxed">>) = {"boxed"}
          /\ <<"array">> \in Seq(AllClasses) /\ Elements(<<"array">>) = {"array"}
          /\ <<"closure", "env">> \in Seq(AllClasses) /\ Elements(<<"closure", "env">>) = {"closure", "env"}
      BY DEF Elements, AllClasses
    <2> DEFINE la == <<"proxyA">>  lb == <<"proxyB">>  lx == <<"boxed">>
               ly == <<"array">>   lz == <<"closure", "env">>
    <2>2. a \in Seq(AllClasses) /\ Elements(a) = E!When(E!Has("proxyA"), {"proxyA"})
      <3> HIDE DEF la
      <3>1. Elements(E!MadeFor("proxyA", la)) = E!When(E!Has("proxyA"), Elements(la)) /\ E!MadeFor("proxyA", la) \in Seq(AllClasses)
        <4>1. la \in Seq(AllClasses)
          BY <2>1 DEF la
        <4> QED BY <4>1, MadeForRange
      <3> QED BY <2>1, <3>1 DEF la
    <2>3. b \in Seq(AllClasses) /\ Elements(b) = E!When(E!Has("proxyB"), {"proxyB"})
      <3> HIDE DEF lb
      <3>1. Elements(E!MadeFor("proxyB", lb)) = E!When(E!Has("proxyB"), Elements(lb)) /\ E!MadeFor("proxyB", lb) \in Seq(AllClasses)
        <4>1. lb \in Seq(AllClasses)
          BY <2>1 DEF lb
        <4> QED BY <4>1, MadeForRange
      <3> QED BY <2>1, <3>1 DEF lb
    <2>4. x \in Seq(AllClasses) /\ Elements(x) = E!When(E!Has("box"), {"boxed"})
      <3> HIDE DEF lx
      <3>1. Elements(E!MadeFor("box", lx)) = E!When(E!Has("box"), Elements(lx)) /\ E!MadeFor("box", lx) \in Seq(AllClasses)
        <4>1. lx \in Seq(AllClasses)
          BY <2>1 DEF lx
        <4> QED BY <4>1, MadeForRange
      <3> QED BY <2>1, <3>1 DEF lx
    <2>5. y \in Seq(AllClasses) /\ Elements(y) = E!When(E!Has("array"), {"array"})
      <3> HIDE DEF ly
      <3>1. Elements(E!MadeFor("array", ly)) = E!When(E!Has("array"), Elements(ly)) /\ E!MadeFor("array", ly) \in Seq(AllClasses)
        <4>1. ly \in Seq(AllClasses)
          BY <2>1 DEF ly
        <4> QED BY <4>1, MadeForRange
      <3> QED BY <2>1, <3>1 DEF ly
    <2>6. z \in Seq(AllClasses) /\ Elements(z) = E!When(E!Has("closure"), {"closure", "env"})
      <3> HIDE DEF lz
      <3>1. Elements(E!MadeFor("closure", lz)) = E!When(E!Has("closure"), Elements(lz)) /\ E!MadeFor("closure", lz) \in Seq(AllClasses)
        <4>1. lz \in Seq(AllClasses)
          BY <2>1 DEF lz
        <4> QED BY <4>1, MadeForRange
      <3> QED BY <2>1, <3>1 DEF lz
    <2> QED BY <2>2, <2>3, <2>4, <2>5, <2>6
  <1> HIDE DEF a, b, x, y, z
  <1> DEFINE ab == a \o b
             abx == ab \o x
             abxy == abx \o y
             g == abxy \o z
  <1>4. ab \in Seq(AllClasses) /\ Elements(ab) = Elements(a) \cup Elements(b)
    BY <1>3, ConcatRange
  <1> HIDE DEF ab
  <1>5. abx \in Seq(AllClasses) /\ Elements(abx) = Elements(ab) \cup Elements(x)
    BY <1>3, <1>4, ConcatRange
  <1> HIDE DEF abx
  <1>6. abxy \in Seq(AllClasses) /\ Elements(abxy) = Elements(abx) \cup Elements(y)
    BY <1>3, <1>5, ConcatRange
  <1> HIDE DEF abxy
  <1>7. g \in Seq(AllClasses) /\ Elements(g) = Elements(abxy) \cup Elements(z) /\ Len(g) \in Nat
    BY <1>3, <1>6, ConcatRange, LenProperties
  <1>8. klasses = s \o g
    BY <1>1 DEF E!Generated, a, b, x, y, z, ab, abx, abxy
  <1> HIDE DEF g
  <1>9. /\ klasses \in Seq(AllClasses) /\ Len(klasses) = 4 + Len(g)
         /\ Elements(klasses) = Elements(s) \cup Elements(g)
    <2>1. /\ s \o g \in Seq(AllClasses) /\ Len(s \o g) = Len(s) + Len(g)
          /\ Elements(s \o g) = Elements(s) \cup Elements(g)
      BY <1>2, <1>7, ConcatRange
    <2> QED BY <1>2, <1>8, <2>1
  <1>10. ProgramOK(klasses, ProgramClasses)
    <2>2. Len(klasses) \in Nat /\ Len(klasses) > 0
      BY <1>7, <1>9
    <2>3. Elements(klasses) = ProgramClasses
      BY <1>2, <1>3, <1>4, <1>5, <1>6, <1>7, <1>9 DEF ProgramClasses
    <2> QED BY <2>2, <2>3 DEF ProgramOK
  <1>11. PlaceOK(section, pos, Len(klasses))
    BY <1>10 DEF E!Init, PlaceOK, ProgramOK
  <1>12. WrittenOK /\ HeadersOK /\ EarlyOK
    BY <1>10 DEF E!Init, WrittenOK, HeadersOK, EarlyOK, Before, ProgramOK
  <1> QED BY <1>10, <1>11, <1>12 DEF EmissionInv

LEMMA EmitFacts ==
  ASSUME PlaceOK(section, pos, Len(klasses)), E!emit
  PROVE  /\ section \in 1..11 /\ features' = features /\ klasses' = klasses
         /\ E!Writes(Declares(klasses[pos], section), Defines(klasses[pos], section),
                   Needs(klasses[pos], section))
         /\ \/ pos < Len(klasses) /\ pos' = pos + 1 /\ section' = section
            \/ pos = Len(klasses) /\ pos' = 1 /\ section' = section + 1
  <1>1. section \in 1..12 /\ pos \in 1..Len(klasses)
    BY DEF PlaceOK
  <1>2. section # 12
    <2>1. E!Sections[12] = "done"
      BY DEF E!Sections
    <2> QED BY <2>1 DEF E!emit
  <1>3. /\ features' = features /\ klasses' = klasses
        /\ \/ pos < Len(klasses) /\ pos' = pos + 1 /\ section' = section
           \/ pos = Len(klasses) /\ pos' = 1 /\ section' = section + 1
    BY <1>1 DEF E!emit, E!program
  <1>4. E!Text(klasses[pos], E!Sections[section])
    BY DEF E!emit
  <1> DEFINE c == klasses[pos]
  <1>5. E!Writes(Declares(c, section), Defines(c, section), Needs(c, section))
    <2>1. CASE section = 1
      <3>1. E!Sections[section] = "struct_names"
        BY <2>1 DEF E!Sections
      <3>2. E!WritesIf(TRUE, E!StructName(c), {})
        BY <1>4, <3>1 DEF E!Text
      <3> QED BY <2>1, <3>2 DEF Declares, Defines, Needs, E!WritesIf, E!Comes, E!When, E!Nothing
    <2>2. CASE section = 2
      <3>1. E!Sections[section] = "structs"
        BY <2>2 DEF E!Sections
      <3>2. E!WritesIf(TRUE, E!Struct(c), E!StructUses(c))
        BY <1>4, <3>1 DEF E!Text
      <3> QED BY <2>2, <3>2 DEF Declares, Defines, Needs, E!WritesIf, E!Comes, E!When, E!Nothing
    <2>3. CASE section = 3
      <3>1. E!Sections[section] = "class_names"
        BY <2>3 DEF E!Sections
      <3>2. E!WritesIf(FALSE, E!StructName(c), {})
        BY <1>4, <3>1 DEF E!Text
      <3> QED BY <2>3, <3>2 DEF Declares, Defines, Needs, E!WritesIf, E!Comes, E!When, E!Nothing
    <2>4. CASE section = 4
      <3>1. E!Sections[section] = "classes"
        BY <2>4 DEF E!Sections
      <3>2. E!WritesIf(FALSE, E!Struct(c), E!StructUses(c))
        BY <1>4, <3>1 DEF E!Text
      <3> QED BY <2>4, <3>2 DEF Declares, Defines, Needs, E!WritesIf, E!Comes, E!When, E!Nothing
    <2>5. CASE section = 5
      <3>1. E!Sections[section] = "functions"
        BY <2>5 DEF E!Sections
      <3>2. E!Writes(E!FunctionHeaders(c), {}, {})
        BY <1>4, <3>1 DEF E!Text
      <3> QED BY <2>5, <3>2 DEF Declares, Defines, Needs
    <2>6. CASE section = 6
      <3>1. E!Sections[section] = "tables"
        BY <2>6 DEF E!Sections
      <3>2. E!Writes({}, E!VTable(c), E!VTableUses(c))
        BY <1>4, <3>1 DEF E!Text
      <3> QED BY <2>6, <3>2 DEF Declares, Defines, Needs
    <2>7. CASE section = 7
      <3>1. E!Sections[section] = "helpers"
        BY <2>7 DEF E!Sections
      <3>2. E!Writes({}, E!Helper(c), E!HelperUses(c))
        BY <1>4, <3>1 DEF E!Text
      <3> QED BY <2>7, <3>2 DEF Declares, Defines, Needs
    <2>8. CASE section = 8
      <3>1. E!Sections[section] = "bodies"
        BY <2>8 DEF E!Sections
      <3>2. E!Writes({}, E!Bodies(c), E!BodyUses(c))
        BY <1>4, <3>1 DEF E!Text
      <3> QED BY <2>8, <3>2 DEF Declares, Defines, Needs
    <2>9. CASE section = 9
      <3>1. E!Sections[section] = "stubs"
        BY <2>9 DEF E!Sections
      <3>2. E!Writes({}, E!Stub(c), {})
        BY <1>4, <3>1 DEF E!Text
      <3> QED BY <2>9, <3>2 DEF Declares, Defines, Needs
    <2>10. CASE section = 10
      <3>1. E!Sections[section] = "prolog"
        BY <2>10 DEF E!Sections
      <3>2. E!Writes({}, {<<"prolog", "domain">>}, E!PrologUses(c))
        BY <1>4, <3>1 DEF E!Text
      <3> QED BY <2>10, <3>2 DEF Declares, Defines, Needs
    <2>11. CASE section = 11
      <3>1. E!Sections[section] = "epilog"
        BY <2>11 DEF E!Sections
      <3>2. E!Writes({}, {<<"epilog", "domain">>}, E!EpilogUses(c))
        BY <1>4, <3>1 DEF E!Text
      <3> QED BY <2>11, <3>2 DEF Declares, Defines, Needs
    <2> QED BY <1>1, <1>2, <2>1, <2>2, <2>3, <2>4, <2>5, <2>6, <2>7, <2>8, <2>9, <2>10, <2>11
  <1> QED BY <1>1, <1>2, <1>3, <1>5

\* What the sections before this one have for a class of the program is there.
LEMMA SectionSeen ==
  ASSUME EmissionInv, NEW c \in ProgramClasses, NEW k \in 1..11, k < section
  PROVE  /\ Declares(c, k) \subseteq declared /\ Defines(c, k) \subseteq declared
         /\ Defines(c, k) \subseteq defined
  <1>1. PICK i \in 1..Len(klasses) : klasses[i] = c
    BY DEF EmissionInv, ProgramOK, Elements
  <1>2. Before(k, i, section, pos)
    BY DEF Before
  <1> QED BY <1>1, <1>2 DEF EmissionInv, WrittenOK

LEMMA StructsSeen ==
  ASSUME EmissionInv, section > 2
  PROVE  /\ E!Struct("V") \subseteq declared /\ E!Struct("W") \subseteq declared
         /\ <<"full", "V">> \in declared
  <1>1. 2 \in 1..11 /\ 2 < section /\ "V" \in ProgramClasses /\ "W" \in ProgramClasses
    BY DEF ProgramClasses
  <1>2. Declares("V", 2) = E!Struct("V") /\ Declares("W", 2) = E!Struct("W")
    BY DEF Declares, E!When, E!IsValueType, E!Values
  <1>3. E!Struct("V") \subseteq declared /\ E!Struct("W") \subseteq declared
    BY <1>1, <1>2, SectionSeen
  <1>4. <<"full", "V">> \in E!Struct("V")
    BY DEF E!Struct, E!When, E!SharesStruct
  <1> QED BY <1>3, <1>4

LEMMA ClassesSeen ==
  ASSUME EmissionInv, NEW c \in ProgramClasses, section > 4
  PROVE  /\ ~E!SharesStruct(c) => <<"full", c>> \in declared
         /\ E!HasStatics(c) => <<"static", c>> \in declared
  <1>1. 4 \in 1..11 /\ 4 < section /\ section > 2
    BY DEF EmissionInv, PlaceOK
  <1>2. E!Struct(c) \subseteq declared
    <2>1. CASE E!IsValueType(c)
      BY <1>1, <2>1, StructsSeen DEF E!IsValueType, E!Values
    <2>2. CASE ~E!IsValueType(c)
      <3>1. Declares(c, 4) = E!Struct(c)
        BY <2>2 DEF Declares, E!When
      <3> QED BY <1>1, <3>1, SectionSeen
    <2> QED BY <2>1, <2>2
  <1>3. /\ ~E!SharesStruct(c) => <<"full", c>> \in E!Struct(c)
        /\ E!HasStatics(c) => <<"static", c>> \in E!Struct(c)
    BY DEF E!Struct, E!When
  <1> QED BY <1>2, <1>3

LEMMA FullSeen ==
  ASSUME EmissionInv, NEW c \in ProgramClasses, section > 4, ~E!SharesStruct(c)
  PROVE  <<"full", c>> \in declared
  BY ClassesSeen

LEMMA StaticsSeen ==
  ASSUME EmissionInv, NEW c \in ProgramClasses, section > 4, E!HasStatics(c)
  PROVE  <<"static", c>> \in declared
  BY ClassesSeen

LEMMA HeadersSeen ==
  ASSUME EmissionInv, NEW c \in ProgramClasses, section > 5, NEW u \in E!FunctionHeaders(c)
  PROVE  u \in declared
  <1>1. 5 \in 1..11 /\ 5 < section /\ Declares(c, 5) = E!FunctionHeaders(c)
    BY DEF Declares
  <1> QED BY <1>1, SectionSeen

LEMMA TablesSeen ==
  ASSUME EmissionInv, NEW c \in ProgramClasses, section > 6, NEW u \in E!VTable(c)
  PROVE  u \in declared
  <1>1. 6 \in 1..11 /\ 6 < section /\ Defines(c, 6) = E!VTable(c)
    BY DEF Defines
  <1> QED BY <1>1, SectionSeen

LEMMA HelpersSeen ==
  ASSUME EmissionInv, NEW c \in ProgramClasses, section > 7, NEW u \in E!Helper(c)
  PROVE  u \in declared
  <1>1. 7 \in 1..11 /\ 7 < section /\ Defines(c, 7) = E!Helper(c)
    BY DEF Defines
  <1> QED BY <1>1, SectionSeen

LEMMA BodiesSeen ==
  ASSUME EmissionInv, NEW c \in ProgramClasses, section > 8, NEW u \in E!Bodies(c)
  PROVE  u \in declared
  <1>1. 8 \in 1..11 /\ 8 < section /\ Defines(c, 8) = E!Bodies(c)
    BY DEF Defines
  <1> QED BY <1>1, SectionSeen

\* What a section uses for a class has been declared, or is one of the known errors.
Allowed(c, u) == <<c, u>> = E!StructBeforeItsPart \/ (E!IsAbstract("A") /\ <<c, u>> = E!AbstractCtor)
LEMMA UsesAreThere ==
  ASSUME EmissionInv, NEW c \in ProgramClasses, section \in 1..11, NEW u \in Needs(c, section)
  PROVE  u \in declared \cup Defines(c, section) \/ Allowed(c, u)
  <1>1. CASE section \in {1, 3, 5, 9}
    BY <1>1 DEF Needs
  <1>2. CASE section = 2
    <2>1. E!IsValueType(c) /\ u \in E!StructUses(c)
      BY <1>2 DEF Needs, E!When, E!Nothing
    <2>2. c = "V" /\ u = <<"full", "W">>
      BY <2>1 DEF E!StructUses, E!FieldsByValue, E!IsValueType, E!Values, E!When, E!Nothing
    <2> QED BY <2>2 DEF Allowed, E!StructBeforeItsPart
  <1>3. CASE section = 4
    <2>1. ~E!IsValueType(c) /\ u \in E!StructUses(c)
      BY <1>3 DEF Needs, E!When, E!Nothing
    <2>2. u = <<"full", "V">>
      BY <2>1 DEF E!StructUses, E!FieldsByValue, E!IsValueType, E!Values, E!When, E!Nothing
    <2> QED BY <1>3, <2>2, StructsSeen
  <1>4. CASE section = 6
    <2>1. E!HasTable(c) /\ E!HasMethod(c) /\ u = <<"fn", E!MethodOwner(c), "m">>
      BY <1>4 DEF Needs, E!VTableUses, E!When, E!Nothing
    <2>2. E!MethodOwner(c) \in ProgramClasses /\ u \in E!FunctionHeaders(E!MethodOwner(c))
      BY <2>1 DEF E!HasTable, E!HasVTable, E!EmitVTable, E!HasMethod, E!MethodOwner, E!IsAbstract, E!Overrides,
                  E!FunctionHeaders, ProgramClasses, E!When
    <2> QED BY <1>4, <2>2, HeadersSeen
  <1>5. CASE section = 7
    <2>1. CASE u = <<"full", "V">>
      BY <1>5, <2>1, StructsSeen
    <2>2. CASE u # <<"full", "V">>
      <3>1. c = "array" /\ (u = <<"vtbl", c>> \/ u = <<"fn", c, "set">>)
        BY <1>5, <2>2 DEF Needs, E!HelperUses, E!When, E!Nothing
      <3>2. u \in E!VTable(c) \/ u \in E!FunctionHeaders(c)
        BY <3>1 DEF E!VTable, E!FunctionHeaders, E!When, E!HasTable, E!HasVTable, E!EmitVTable, E!IsValueType,
                    E!Values, E!IsAbstract
      <3> QED BY <1>5, <3>2, HeadersSeen, TablesSeen
    <2> QED BY <2>1, <2>2
  <1>6. CASE section = 8
    <2>0. u \in E!BodyUses(c)
      BY <1>6 DEF Needs
    <2>1. CASE E!CtorBody(c) /\ u = <<"full", c>>
      <3>1. ~E!SharesStruct(c)
        BY <2>1 DEF E!CtorBody, E!IsCtorExtern, E!SharesStruct
      <3> QED BY <1>6, <2>1, <3>1, FullSeen
    <2>2. CASE E!CtorBody(c) /\ ~E!IsValueType(c) /\ u = <<"vtbl", c>>
      <3>1. CASE E!IsAbstract(c)
        BY <2>2, <3>1 DEF E!IsAbstract, Allowed, E!AbstractCtor
      <3>2. CASE ~E!IsAbstract(c)
        <4>1. u \in E!VTable(c)
          <5>1. E!EmitVTable(c)
            <6>1. c \notin {"boxed", "closure", "env"}
              BY <2>2 DEF E!CtorBody, E!HasCtor, E!IsCtorExtern, E!Values
            <6> QED BY <6>1 DEF E!EmitVTable
          <5> QED BY <2>2, <3>2, <5>1 DEF E!VTable, E!When, E!HasTable, E!HasVTable
        <4> QED BY <1>6, <4>1, TablesSeen
      <3> QED BY <3>1, <3>2
    <2>3. CASE E!HasDtor(c) /\ u = <<"fn", "A", "dtor">>
      <3>1. "A" \in ProgramClasses /\ u \in E!FunctionHeaders("A")
        BY <2>3 DEF E!HasDtor, ProgramClasses, E!FunctionHeaders, E!When
      <3> QED BY <1>6, <3>1, HeadersSeen
    <2>4. CASE E!HasStatics(c) /\ u = <<"static", c>>
      BY <1>6, <2>4, StaticsSeen
    <2>5. CASE u \in E!MainUses
      <3>1. CASE E!Has("call") /\ u \in E!CallUses
        <4>1. "A" \in ProgramClasses /\ u \in E!FunctionHeaders("A")
          BY <3>1 DEF ProgramClasses, E!CallUses, E!FunctionHeaders, E!When, E!HasMethod, E!MethodOwner,
                      E!IsVirtual, E!IsAbstract, E!ShouldEmitVCH
        <4> QED BY <1>6, <4>1, HeadersSeen
      <3>2. CASE E!Has("box") /\ u \in {<<"fn", "boxed", "create">>, <<"unbox", "V">>}
        <4>1. /\ "boxed" \in ProgramClasses
              /\ u \in E!FunctionHeaders("boxed") \/ u \in E!Helper("boxed")
          BY <3>2 DEF ProgramClasses, E!FunctionHeaders, E!Helper, E!When, E!HasCtor
        <4> QED BY <1>6, <4>1, HeadersSeen, HelpersSeen
      <3>3. CASE E!Has("array") /\ u \in {<<"vtbl", "array">>, <<"init", "array">>}
        <4>1. /\ "array" \in ProgramClasses
              /\ u \in E!VTable("array") \/ u \in E!Helper("array")
          BY <3>3 DEF ProgramClasses, E!VTable, E!Helper, E!When, E!HasTable, E!HasVTable, E!EmitVTable,
                      E!IsValueType, E!Values, E!IsAbstract
        <4> QED BY <1>6, <4>1, TablesSeen, HelpersSeen
      <3>4. CASE E!Has("closure") /\ u = <<"fn", "closure", "create">>
        <4>1. "closure" \in ProgramClasses /\ u \in E!FunctionHeaders("closure")
          BY <3>4 DEF ProgramClasses, E!FunctionHeaders, E!When, E!HasCtor
        <4> QED BY <1>6, <4>1, HeadersSeen
      <3>5. CASE E!Has("closure") /\ u = <<"full", "env">>
        <4>1. "env" \in ProgramClasses /\ ~E!SharesStruct("env")
          BY <3>5 DEF ProgramClasses, E!When, E!SharesStruct
        <4> QED BY <1>6, <3>5, <4>1, FullSeen
      <3>6. CASE E!Has("compare") /\ u = <<"idco", "V">>
        <4>1. "V" \in ProgramClasses /\ u \in E!Helper("V")
          BY <3>6 DEF ProgramClasses, E!Helper, E!When
        <4> QED BY <1>6, <4>1, HelpersSeen
      <3> QED BY <2>5, <3>1, <3>2, <3>3, <3>4, <3>5, <3>6 DEF E!MainUses, E!When, E!Nothing
    <2> QED BY <2>0, <2>1, <2>2, <2>3, <2>4, <2>5 DEF E!BodyUses, E!When, E!Nothing
  <1>7. CASE section = 10
    <2>1. u \in E!VTable(c) \/ (u = <<"fn", c, "cctor">> /\ c = "A" /\ (E!Has("cctor") \/ E!HasStatics(c)))
      BY <1>7 DEF Needs, E!PrologUses, E!When, E!Nothing
    <2>2. u \in E!VTable(c) \/ u \in E!Bodies(c)
      BY <2>1 DEF E!Bodies, E!When
    <2> QED BY <1>7, <2>2, TablesSeen, BodiesSeen
  <1>8. CASE section = 11
    <2>1. u = <<"fn", c, "cdtor">> /\ c = "A" /\ E!Has("cdtor")
      BY <1>8 DEF Needs, E!EpilogUses, E!When, E!Nothing
    <2>2. u \in E!FunctionHeaders(c)
      BY <2>1 DEF E!FunctionHeaders, E!When
    <2> QED BY <1>8, <2>2, HeadersSeen
  <1> QED BY <1>1, <1>2, <1>3, <1>4, <1>5, <1>6, <1>7, <1>8

LEMMA ProgramStays ==
  ASSUME features' = features
  PROVE  /\ ProgramClasses' = ProgramClasses
         /\ \A c, k : Declares(c, k)' = Declares(c, k) /\ Defines(c, k)' = Defines(c, k)
         /\ \A c : E!FunctionHeaders(c)' = E!FunctionHeaders(c)
         /\ E!IsAbstract("A")' = E!IsAbstract("A")
  <1>1. ProgramClasses' = ProgramClasses
    BY DEF ProgramClasses, E!When, E!Has
  <1>2. E!IsAbstract("A")' = E!IsAbstract("A")
    BY DEF E!IsAbstract, E!Has
  <1>3. ASSUME NEW c PROVE E!FunctionHeaders(c)' = E!FunctionHeaders(c)
    BY DEF E!FunctionHeaders, E!When, E!Has, E!HasCtor, E!HasDtor, E!HasMethod, E!MethodOwner, E!IsAbstract,
           E!Overrides, E!ShouldEmitVCH, E!IsVirtual
  <1>4. ASSUME NEW c PROVE /\ E!StructName(c)' = E!StructName(c) /\ E!Struct(c)' = E!Struct(c)
                           /\ E!VTable(c)' = E!VTable(c) /\ E!Helper(c)' = E!Helper(c)
                           /\ E!Bodies(c)' = E!Bodies(c) /\ E!Stub(c)' = E!Stub(c)
    <2>1. E!StructName(c)' = E!StructName(c) /\ E!Struct(c)' = E!Struct(c) /\ E!Stub(c)' = E!Stub(c)
      BY DEF E!StructName, E!Struct, E!Stub, E!When, E!HasStatics, E!Has
    <2>2. E!VTable(c)' = E!VTable(c) /\ E!Helper(c)' = E!Helper(c)
      BY DEF E!VTable, E!Helper, E!When, E!Has, E!HasTable, E!HasVTable, E!EmitVTable, E!IsAbstract
    <2>3. E!Bodies(c)' = E!Bodies(c)
      BY DEF E!Bodies, E!When, E!Has, E!CtorBody, E!HasCtor, E!IsCtorExtern, E!HasDtor, E!HasMethod, E!MethodOwner,
             E!IsAbstract, E!IsExtern, E!IsNative, E!Overrides, E!ShouldEmitVCH, E!IsVirtual, E!HasStatics
    <2> QED BY <2>1, <2>2, <2>3
  <1>5. ASSUME NEW c, NEW k PROVE Declares(c, k)' = Declares(c, k) /\ Defines(c, k)' = Defines(c, k)
    <2>1. Declares(c, k)' = Declares(c, k)
      BY <1>3, <1>4 DEF Declares, E!When
    <2>2. Defines(c, k)' = Defines(c, k)
      BY <1>4 DEF Defines
    <2> QED BY <2>1, <2>2
  <1> QED BY <1>1, <1>2, <1>3, <1>5

LEMMA EmissionNext ==
  ASSUME EmissionInv, E!emit PROVE EmissionInv'
  <1> DEFINE c == klasses[pos]
             new == Declares(c, section) \cup Defines(c, section)
  <1>1. /\ section \in 1..11 /\ features' = features /\ klasses' = klasses
        /\ E!Writes(Declares(c, section), Defines(c, section), Needs(c, section))
        /\ \/ pos < Len(klasses) /\ pos' = pos + 1 /\ section' = section
           \/ pos = Len(klasses) /\ pos' = 1 /\ section' = section + 1
    BY EmitFacts DEF EmissionInv
  <1>2. /\ declared' = declared \cup new /\ defined' = defined \cup Defines(c, section)
        /\ early' = early \cup {<<c, u>> :
                                 u \in Needs(c, section) \ (declared \cup Defines(c, section))}
    BY <1>1 DEF E!Writes
  <1>3. c \in ProgramClasses /\ Len(klasses) \in Nat /\ pos \in 1..Len(klasses)
    BY DEF EmissionInv, ProgramOK, PlaceOK, Elements
  <1>4. ProgramOK(klasses, ProgramClasses)'
    BY <1>1, ProgramStays DEF EmissionInv, ProgramOK, Elements
  <1>5. PlaceOK(section, pos, Len(klasses))'
    BY <1>1, <1>3 DEF PlaceOK
  <1>6. WrittenOK'
    <2> SUFFICES ASSUME NEW k \in 1..11, NEW i \in 1..Len(klasses), Before(k, i, section', pos')
                 PROVE  /\ Declares(klasses[i], k) \cup Defines(klasses[i], k) \subseteq declared'
                        /\ Defines(klasses[i], k) \subseteq defined'
      BY <1>1, ProgramStays DEF WrittenOK
    <2>1. Before(k, i, section, pos) \/ (k = section /\ i = pos)
      BY <1>1, <1>3 DEF Before
    <2>2. CASE Before(k, i, section, pos)
      BY <1>2, <2>2 DEF EmissionInv, WrittenOK
    <2>3. CASE k = section /\ i = pos
      BY <1>2, <2>3
    <2> QED BY <2>1, <2>2, <2>3
  <1>7. HeadersOK'
    <2> SUFFICES ASSUME NEW d \in declared', d[1] \in {"fn", "vch"}
                 PROVE  d \in defined' \/ \E x \in ProgramClasses : d \in E!FunctionHeaders(x)
      BY <1>1, ProgramStays DEF HeadersOK
    <2>1. CASE d \in declared
      BY <1>2, <2>1 DEF EmissionInv, HeadersOK
    <2>2. CASE d \in Defines(c, section)
      BY <1>2, <2>2
    <2>3. CASE d \in Declares(c, section)
      <3>1. d \notin E!StructName(c) /\ d \notin E!Struct(c)
        BY DEF E!StructName, E!Struct, E!When, E!Nothing
      <3>2. d \in E!FunctionHeaders(c)
        BY <1>1, <2>3, <3>1 DEF Declares, E!When, E!Nothing
      <3> QED BY <1>3, <3>2
    <2> QED BY <1>2, <2>1, <2>2, <2>3
  <1>8. EarlyOK'
    <2>1. ASSUME NEW e \in early', e \notin early
          PROVE  e = E!StructBeforeItsPart \/ (E!IsAbstract("A") /\ e = E!AbstractCtor)
      <3>1. PICK u \in Needs(c, section) : e = <<c, u>> /\ u \notin declared \cup Defines(c, section)
        BY <1>2, <2>1
      <3> QED BY <1>1, <1>3, <3>1, UsesAreThere DEF Allowed
    <2>2. E!IsAbstract("A")' = E!IsAbstract("A")
      BY <1>1, ProgramStays
    <2> QED BY <2>1, <2>2 DEF EmissionInv, EarlyOK, E!When, E!StructBeforeItsPart, E!AbstractCtor
  <1> QED BY <1>4, <1>5, <1>6, <1>7, <1>8 DEF EmissionInv

\* What a function header declares has a body in the end, or is linked.
LEMMA HeadersAreFollowed ==
  ASSUME EmissionInv, section = 12, NEW c \in ProgramClasses, NEW d \in E!FunctionHeaders(c),
         d \in declared
  PROVE  d \in defined \cup E!Linked
  <1>1. E!Bodies(c) \subseteq defined
    <2>1. 8 \in 1..11 /\ 8 < section /\ Defines(c, 8) = E!Bodies(c)
      BY DEF Defines
    <2> QED BY <2>1, SectionSeen
  <1>2. CASE E!HasCtor(c) /\ d = <<"fn", c, "create">>
    BY <1>1, <1>2 DEF E!Bodies, E!CtorBody, E!When, E!Linked
  <1>3. CASE E!HasDtor(c) /\ d = <<"fn", c, "dtor">>
    BY <1>1, <1>3 DEF E!Bodies, E!When
  <1>4. CASE E!HasMethod(c) /\ E!MethodOwner(c) = c /\ ~E!IsAbstract(c) /\ d = <<"fn", c, "m">>
    BY <1>1, <1>4 DEF E!Bodies, E!When, E!Linked
  <1>5. CASE E!HasMethod(c) /\ E!MethodOwner(c) = c /\ E!ShouldEmitVCH(c) /\ d = <<"vch", c, "m">>
    BY <1>1, <1>5 DEF E!Bodies, E!When
  <1>6. CASE c = "array" /\ d = <<"fn", c, "set">>
    BY <1>6 DEF E!Linked, E!IsExtern
  <1>7. CASE c = "B" /\ d = <<"fn", c, "main">>
    BY <1>1, <1>7 DEF E!Bodies, E!When
  <1>8. CASE c = "A" /\ E!Has("cctor") /\ d = <<"fn", c, "cctor">>
    BY <1>1, <1>8 DEF E!Bodies, E!When
  <1>9. CASE c = "A" /\ E!Has("cdtor") /\ d = <<"fn", c, "cdtor">>
    BY <1>1, <1>9 DEF E!Bodies, E!When
  <1> QED BY <1>2, <1>3, <1>4, <1>5, <1>6, <1>7, <1>8, <1>9 DEF E!FunctionHeaders, E!When, E!Nothing

LEMMA TextIsDone ==
  ASSUME EmissionInv, section = 12
  PROVE  E!LookedFor \subseteq defined
  <1>1. \A c \in ProgramClasses : E!Bodies(c) \subseteq defined
    <2>1. 8 \in 1..11 /\ 8 < section /\ \A c : Defines(c, 8) = E!Bodies(c)
      BY DEF Defines
    <2> QED BY <2>1, SectionSeen
  <1>2. \A c \in ProgramClasses : E!Stub(c) \subseteq defined
    <2>1. 9 \in 1..11 /\ 9 < section /\ \A c : Defines(c, 9) = E!Stub(c)
      BY DEF Defines
    <2> QED BY <2>1, SectionSeen
  <1>3. "A" \in ProgramClasses /\ "B" \in ProgramClasses
    BY DEF ProgramClasses
  <1>4. <<"prolog", "domain">> \in defined /\ <<"epilog", "domain">> \in defined
    <2>1. 10 \in 1..11 /\ 10 < section /\ Defines("A", 10) = {<<"prolog", "domain">>}
      BY DEF Defines
    <2>2. 11 \in 1..11 /\ 11 < section /\ Defines("A", 11) = {<<"epilog", "domain">>}
      BY DEF Defines
    <2>3. Defines("A", 10) \subseteq defined
      BY <1>3, <2>1, SectionSeen
    <2>4. Defines("A", 11) \subseteq defined
      BY <1>3, <2>2, SectionSeen
    <2> QED BY <2>1, <2>2, <2>3, <2>4
  <1>5. ASSUME NEW c, E!HasDtor(c) PROVE <<"fn", c, "dtor">> \in defined
    <2>1. <<"fn", c, "dtor">> \in E!Bodies(c) /\ c \in ProgramClasses
      BY <1>3, <1>5 DEF E!Bodies, E!When, E!HasDtor
    <2> QED BY <1>1, <2>1
  <1>6. ASSUME E!Has("closure") PROVE <<"fn", "closure", "m">> \in defined
    <2>1. "closure" \in ProgramClasses /\ <<"fn", "closure", "m">> \in E!Bodies("closure")
      BY <1>6 DEF ProgramClasses, E!Bodies, E!When, E!HasMethod, E!MethodOwner, E!IsAbstract, E!IsExtern, E!IsNative
    <2> QED BY <1>1, <2>1
  <1>7. ASSUME E!Has("proxyA") PROVE <<"server", "A", "m">> \in defined
    <2>1. "proxyA" \in ProgramClasses /\ <<"server", "A", "m">> \in E!Stub("proxyA")
      BY <1>7 DEF ProgramClasses, E!Stub, E!When, E!Wrapped
    <2> QED BY <1>2, <2>1
  <1>8. ASSUME E!Has("proxyB") PROVE <<"server", "B", "m">> \in defined
    <2>1. "proxyB" \in ProgramClasses /\ <<"server", "B", "m">> \in E!Stub("proxyB")
      BY <1>8 DEF ProgramClasses, E!Stub, E!When, E!Wrapped
    <2> QED BY <1>2, <2>1
  <1> QED BY <1>4, <1>5, <1>6, <1>7, <1>8 DEF E!LookedFor, E!When, E!Nothing

LEMMA TextCompletes ==
  ASSUME EmissionInv PROVE E!TextIsComplete
  <1>1. early \subseteq {E!StructBeforeItsPart} \cup E!When(E!IsAbstract("A"), {E!AbstractCtor})
    BY DEF EmissionInv, EarlyOK
  <1>2. ASSUME E!Sections[section] = "done"
        PROVE  /\ \A d \in declared : d[1] \in {"fn", "vch"} => d \in defined \cup E!Linked
               /\ E!LookedFor \subseteq defined
    <2>1. section = 12
      BY <1>2 DEF EmissionInv, PlaceOK, E!Sections
    <2>2. ASSUME NEW d \in declared, d[1] \in {"fn", "vch"} PROVE d \in defined \cup E!Linked
      BY <2>1, <2>2, HeadersAreFollowed DEF EmissionInv, HeadersOK
    <2> QED BY <2>1, <2>2, TextIsDone
  <1> QED BY <1>1, <1>2 DEF E!TextIsComplete

LEMMA EmissionStutters ==
  ASSUME EmissionInv, UNCHANGED <<features, klasses, section, pos, declared, defined, early>>
  PROVE  EmissionInv'
  <1>1. ProgramOK(klasses, ProgramClasses)' /\ PlaceOK(section, pos, Len(klasses))'
    BY ProgramStays DEF EmissionInv, ProgramOK, PlaceOK, Elements
  <1>2. WrittenOK'
    BY ProgramStays DEF EmissionInv, WrittenOK
  <1>3. HeadersOK'
    BY ProgramStays DEF EmissionInv, HeadersOK
  <1>4. EarlyOK'
    BY ProgramStays DEF EmissionInv, EarlyOK, E!StructBeforeItsPart, E!AbstractCtor, E!When,
                        E!Nothing
  <1> QED BY <1>1, <1>2, <1>3, <1>4 DEF EmissionInv

\* The text of any program, whatever features it combines, declares what it uses before
\* it uses it, defines what it declares, and has what the run time looks for; but for the
\* two kinds of programs that the emitter does not get right (SEmitter::emit).
THEOREM AllTextIsComplete == MCSpec => []TextIsComplete
<1> DEFINE Inv == which = "emission" => EmissionInv
<1>1. MCInit => Inv
  BY EmissionInit DEF MCInit
<1>2. Inv /\ [MCNext]_allVars => Inv'
  <2> SUFFICES ASSUME Inv, [MCNext]_allVars, which' = "emission" PROVE EmissionInv'
    OBVIOUS
  <2>1. which = "emission"
    BY DEF MCNext, allVars
  <2>2. E!Next \/ UNCHANGED <<features, klasses, section, pos, declared, defined, early>>
    BY <2>1 DEF MCNext, allVars, emissionVars
  <2>3. CASE E!Next
    BY <2>1, <2>3, EmissionNext DEF E!Next
  <2>4. CASE UNCHANGED <<features, klasses, section, pos, declared, defined, early>>
    BY <2>1, <2>4, EmissionStutters
  <2> QED
    BY <2>2, <2>3, <2>4
<1>3. Inv => TextIsComplete
  BY TextCompletes DEF TextIsComplete
<1> QED
  BY <1>1, <1>2, <1>3, PTL DEF MCSpec

-----------------------------------------------------------------------------
(***************************************************************************)
(* Threads: the counter of references and that of entries of the list of   *)
(* known threads are compared with the sets of what they count, which      *)
(* depend only on where everybody is.                                      *)
(***************************************************************************)
UserPlaces   == {"idle", "create", "store", "join"}
RunnerPlaces == {"none", "check", "running", "ref", "list", "body", "stop", "unlist",
                 "unref", "last", "ended"}

ThreadTypes == /\ state \in {"unstarted", "running", "abort", "stopped"}
               /\ handle \in Runners \cup {NoHandle}
               /\ refs \in Nat /\ listed \in Nat /\ starts \in Nat
               /\ holds \in [Users -> 0..MaxHolds]
               /\ pc \in [Users \cup Runners -> UserPlaces \cup RunnerPlaces]
               /\ \A u \in Users : pc[u] \in UserPlaces
               /\ \A r \in Runners : pc[r] \in RunnerPlaces
               /\ joins \subseteq BOOLEAN

\* What the counters count.
HeldRefs(h)  == {p \in Users \X (1..MaxHolds) : p[2] <= h[p[1]]}
At(p, places) == {t \in Users \cup Runners : p[t] \in places}
Creating == {"create"}
Started  == RunnerPlaces \ {"none", "ended"}
Counted  == {"list", "body", "stop", "unlist", "unref"}
Listed   == {"body", "stop", "unlist"}
Created  == RunnerPlaces \ {"none"}

Counts == /\ refs = Cardinality(HeldRefs(holds)) + Cardinality(At(pc, Creating))
                    + Cardinality(At(pc, Started)) + Cardinality(At(pc, Counted))
          /\ listed = Cardinality(At(pc, Listed))
          /\ starts = Cardinality(At(pc, Created))

\* A user that is in a call of the object has a reference to it; a thread that is
\* known has been created, and one that is known to have stopped has.
ThreadOrder == /\ \A u \in Users : pc[u] # "idle" => holds[u] > 0
               /\ handle # NoHandle => pc[handle] # "none"
               /\ state = "stopped" =>
                     \E r \in Runners : pc[r] \in {"unlist", "unref", "last", "ended"}
               /\ starts <= 1 => TRUE \notin joins

ThreadInv == ThreadTypes /\ Counts /\ ThreadOrder

\* The module Threads has FiniteSets of its own.
LEMMA ThreadsAreFinite ==
  ASSUME T!ThreadsAssumption
  PROVE  IsFiniteSet(Users) /\ IsFiniteSet(Runners)
  BY DEF T!ThreadsAssumption, T!IsFiniteSet, IsFiniteSet

\* Who moves to a place is counted there, and not any more where it was.
LEMMA AtMoves ==
  ASSUME T!ThreadsAssumption, NEW p, NEW q, NEW places,
         NEW t \in Users \cup Runners,
         \A v \in (Users \cup Runners) \ {t} : q[v] = p[v]
  PROVE  /\ Cardinality(At(p, places)) \in Nat
         /\ Cardinality(At(q, places)) =
              Cardinality(At(p, places)) + (IF q[t] \in places THEN 1 ELSE 0)
                                         - (IF p[t] \in places THEN 1 ELSE 0)
  <1> DEFINE S == At(p, places)
  <1>1. IsFiniteSet(Users \cup Runners)
    BY FS_Union, ThreadsAreFinite
  <1>2. IsFiniteSet(S) /\ S \subseteq Users \cup Runners
    BY <1>1, FS_Subset DEF At
  <1>3. /\ Cardinality(S) \in Nat
        /\ Cardinality(S \cup {t}) = IF t \in S THEN Cardinality(S) ELSE Cardinality(S) + 1
        /\ Cardinality(S \ {t}) = IF t \in S THEN Cardinality(S) - 1 ELSE Cardinality(S)
    BY <1>2, FS_CardinalityType, FS_AddElement, FS_RemoveElement
  <1>4. t \in S <=> p[t] \in places
    BY DEF At
  <1>5. At(q, places) = IF q[t] \in places THEN S \cup {t} ELSE S \ {t}
    BY DEF At
  <1> QED BY <1>3, <1>4, <1>5

LEMMA HeldFinite ==
  ASSUME T!ThreadsAssumption, NEW h \in [Users -> 0..MaxHolds]
  PROVE  IsFiniteSet(HeldRefs(h)) /\ Cardinality(HeldRefs(h)) \in Nat
  <1>1. IsFiniteSet(1..MaxHolds)
    BY FS_Interval DEF T!ThreadsAssumption
  <1>2. IsFiniteSet(Users \X (1..MaxHolds))
    BY <1>1, FS_Product, ThreadsAreFinite
  <1> QED BY <1>2, FS_Subset, FS_CardinalityType DEF HeldRefs

\* A user that gets n references adds n to those that are counted.
LEMMA HeldGrows ==
  ASSUME T!ThreadsAssumption, NEW h \in [Users -> 0..MaxHolds], NEW u \in Users,
         NEW n \in Nat, NEW g \in [Users -> 0..MaxHolds],
         g[u] = h[u] + n, \A v \in Users \ {u} : g[v] = h[v]
  PROVE  /\ Cardinality(HeldRefs(h)) \in Nat
         /\ Cardinality(HeldRefs(g)) = Cardinality(HeldRefs(h)) + n
  <1> DEFINE I == (h[u] + 1)..(h[u] + n)
             X == {u} \X I
  <1>1. h[u] \in Nat /\ h[u] <= MaxHolds /\ MaxHolds \in Nat
    BY DEF T!ThreadsAssumption
  <1>2. IsFiniteSet(I) /\ Cardinality(I) = n
    <2>1. h[u] + 1 \in Int /\ h[u] + n \in Int
      BY <1>1
    <2>2. IsFiniteSet(I) /\ Cardinality(I) = IF h[u] + 1 > h[u] + n THEN 0
                                             ELSE (h[u] + n) - (h[u] + 1) + 1
      BY <2>1, FS_Interval
    <2> QED BY <2>2, <1>1
  <1>3. IsFiniteSet(X) /\ Cardinality(X) = n
    <2>1. IsFiniteSet({u}) /\ Cardinality({u}) = 1
      BY FS_Singleton
    <2>2. IsFiniteSet(X) /\ Cardinality(X) = Cardinality({u}) * Cardinality(I)
      BY <1>2, <2>1, FS_Product
    <2>3. 1 * n = n
      OBVIOUS
    <2> QED BY <1>2, <2>1, <2>2, <2>3
  <1>4. IsFiniteSet(HeldRefs(h)) /\ Cardinality(HeldRefs(h)) \in Nat
    BY HeldFinite
  <1>5. HeldRefs(g) = HeldRefs(h) \cup X
    <2>1. ASSUME NEW p \in Users \X (1..MaxHolds)
          PROVE  p \in HeldRefs(g) <=> p \in HeldRefs(h) \cup X
      <3>1. PICK v \in Users, i \in 1..MaxHolds : p = <<v, i>>
        OBVIOUS
      <3>2. /\ p \in HeldRefs(g) <=> i <= g[v]
            /\ p \in HeldRefs(h) <=> i <= h[v]
            /\ p \in X <=> v = u /\ i \in I
        BY <3>1 DEF HeldRefs
      <3>3. g[v] = IF v = u THEN h[u] + n ELSE h[v]
        OBVIOUS
      <3> QED BY <3>2, <3>3, <1>1
    <2>2. X \subseteq Users \X (1..MaxHolds)
      BY <1>1
    <2> QED BY <2>1, <2>2 DEF HeldRefs
  <1>6. HeldRefs(h) \cap X = {}
    BY <1>1 DEF HeldRefs
  <1> HIDE DEF X, I
  <1>7. Cardinality(HeldRefs(h) \cup X) = Cardinality(HeldRefs(h)) + n
    <2>1. Cardinality(HeldRefs(h) \cup X) = Cardinality(HeldRefs(h)) + Cardinality(X)
                                            - Cardinality(HeldRefs(h) \cap X)
      BY <1>3, <1>4, FS_Union
    <2>2. Cardinality({}) = 0
      BY FS_EmptySet
    <2>3. Cardinality(HeldRefs(h) \cap X) = 0
      BY <1>6, <2>2
    <2> QED BY ONLY n \in Nat, <1>3, <1>4, <2>1, <2>3
  <1> QED BY <1>4, <1>5, <1>7

Enters(t, place, set) == (IF place \in set THEN 1 ELSE 0) - (IF pc[t] \in set THEN 1 ELSE 0)

(***************************************************************************)
(* One thread moves, and the references change by what that place counts.  *)
(***************************************************************************)
LEMMA ThreadMoves ==
  ASSUME T!ThreadsAssumption, ThreadTypes, Counts,
         NEW t \in Users \cup Runners, NEW place \in UserPlaces \cup RunnerPlaces,
         t \in Users <=> place \in UserPlaces,
         T!Goto(t, place), holds' = holds,
         refs' = refs + Enters(t, place, Creating) + Enters(t, place, Started)
                      + Enters(t, place, Counted),
         listed' = listed + Enters(t, place, Listed),
         starts' = starts + Enters(t, place, Created),
         state' \in {"unstarted", "running", "abort", "stopped"},
         handle' \in Runners \cup {NoHandle},
         joins' \subseteq BOOLEAN
  PROVE  ThreadTypes' /\ Counts'
  <1> DEFINE in(set) == Enters(t, place, set)
             n(set) == Cardinality(At(pc, set))
  <1>0. pc'[t] = place /\ \A v \in (Users \cup Runners) \ {t} : pc'[v] = pc[v]
    BY DEF T!Goto, ThreadTypes
  <1>1. ASSUME NEW set
        PROVE  in(set) \in Int /\ n(set) \in Nat
               /\ Cardinality(At(pc', set)) = n(set) + in(set)
    <2>1. /\ Cardinality(At(pc, set)) \in Nat
          /\ Cardinality(At(pc', set)) = Cardinality(At(pc, set)) +
               (IF pc'[t] \in set THEN 1 ELSE 0) - (IF pc[t] \in set THEN 1 ELSE 0)
      BY ONLY T!ThreadsAssumption, t \in Users \cup Runners, <1>0, AtMoves
    <2>2. (IF place \in set THEN 1 ELSE 0) \in Int /\ (IF pc[t] \in set THEN 1 ELSE 0) \in Int
      OBVIOUS
    <2> QED BY <1>0, <2>1, <2>2 DEF Enters
  <1>2. pc' \in [Users \cup Runners -> UserPlaces \cup RunnerPlaces]
    BY DEF T!Goto, ThreadTypes
  <1>3. /\ Cardinality(At(pc', Creating)) \in Nat /\ Cardinality(At(pc', Started)) \in Nat
        /\ Cardinality(At(pc', Counted)) \in Nat /\ Cardinality(At(pc', Listed)) \in Nat
        /\ Cardinality(At(pc', Created)) \in Nat
    BY <1>2, AtMoves
  <1>4. Cardinality(HeldRefs(holds)) \in Nat /\ HeldRefs(holds') = HeldRefs(holds)
    BY HeldFinite DEF ThreadTypes
  <1>5. Counts'
    <2>1. /\ refs' = refs + in(Creating) + in(Started) + in(Counted)
          /\ listed' = listed + in(Listed)
          /\ starts' = starts + in(Created)
      OBVIOUS
    <2>2. /\ refs = Cardinality(HeldRefs(holds)) + n(Creating) + n(Started) + n(Counted)
          /\ listed = n(Listed) /\ starts = n(Created)
      BY DEF Counts
    <2> HIDE DEF n, in
    <2>3. /\ in(Creating) \in Int /\ n(Creating) \in Nat
          /\ Cardinality(At(pc', Creating)) = n(Creating) + in(Creating)
          /\ in(Started) \in Int /\ n(Started) \in Nat
          /\ Cardinality(At(pc', Started)) = n(Started) + in(Started)
          /\ in(Counted) \in Int /\ n(Counted) \in Nat
          /\ Cardinality(At(pc', Counted)) = n(Counted) + in(Counted)
      BY <1>1
    <2>4. /\ Cardinality(At(pc', Listed)) = n(Listed) + in(Listed)
          /\ Cardinality(At(pc', Created)) = n(Created) + in(Created)
      BY <1>1
    <2>5. refs' = Cardinality(HeldRefs(holds)) + Cardinality(At(pc', Creating))
                    + Cardinality(At(pc', Started)) + Cardinality(At(pc', Counted))
      BY <1>4, <2>1, <2>2, <2>3
    <2>6. refs' = Cardinality(HeldRefs(holds')) + Cardinality(At(pc', Creating))
                    + Cardinality(At(pc', Started)) + Cardinality(At(pc', Counted))
      BY <1>4, <2>5
    <2> QED BY <2>1, <2>2, <2>4, <2>6 DEF Counts
  <1>6. refs' \in Nat /\ listed' \in Nat /\ starts' \in Nat
    BY <1>3, <1>4, <1>5 DEF Counts
  <1>7. /\ \A u \in Users : pc'[u] \in UserPlaces
        /\ \A r \in Runners : pc'[r] \in RunnerPlaces
    BY DEF T!Goto, ThreadTypes, T!ThreadsAssumption
  <1> QED BY <1>2, <1>5, <1>6, <1>7 DEF ThreadTypes

\* A user gets references.
LEMMA HoldsMore ==
  ASSUME T!ThreadsAssumption, ThreadTypes, Counts, NEW u \in Users, NEW n \in Nat,
         holds[u] + n <= MaxHolds, holds' = [holds EXCEPT ![u] = @ + n], refs' = refs + n,
         UNCHANGED <<state, handle, listed, pc, starts, joins>>
  PROVE  ThreadTypes' /\ Counts'
  <1>1. holds \in [Users -> 0..MaxHolds] /\ MaxHolds \in Nat
    BY DEF ThreadTypes, T!ThreadsAssumption
  <1>2. holds' \in [Users -> 0..MaxHolds]
    BY <1>1
  <1>3. /\ Cardinality(HeldRefs(holds)) \in Nat
        /\ Cardinality(HeldRefs(holds')) = Cardinality(HeldRefs(holds)) + n
    <2>1. holds'[u] = holds[u] + n /\ \A v \in Users \ {u} : holds'[v] = holds[v]
      BY <1>1
    <2> QED BY ONLY T!ThreadsAssumption, u \in Users, n \in Nat, <1>1, <1>2, <2>1, HeldGrows
  <1>4. refs' \in Nat
    BY DEF ThreadTypes
  <1>5. /\ Cardinality(At(pc, Creating)) \in Nat
        /\ Cardinality(At(pc, Started)) \in Nat
        /\ Cardinality(At(pc, Counted)) \in Nat
    BY AtMoves
  <1>6. Counts'
    BY <1>3, <1>5 DEF Counts
  <1> QED BY <1>2, <1>4, <1>6 DEF ThreadTypes

\* A user drops a reference.
LEMMA HoldsLess ==
  ASSUME T!ThreadsAssumption, ThreadTypes, Counts, NEW u \in Users,
         holds[u] > 0, holds' = [holds EXCEPT ![u] = @ - 1], refs' = refs - 1,
         UNCHANGED <<state, handle, listed, pc, starts, joins>>
  PROVE  ThreadTypes' /\ Counts'
  <1>1. holds \in [Users -> 0..MaxHolds] /\ MaxHolds \in Nat
    BY DEF ThreadTypes, T!ThreadsAssumption
  <1>2. holds' \in [Users -> 0..MaxHolds]
    BY <1>1
  <1>3. /\ Cardinality(HeldRefs(holds')) \in Nat
        /\ Cardinality(HeldRefs(holds)) = Cardinality(HeldRefs(holds')) + 1
    <2>1. holds[u] = holds'[u] + 1 /\ \A v \in Users \ {u} : holds[v] = holds'[v]
      BY <1>1, <1>2
    <2> QED BY ONLY T!ThreadsAssumption, u \in Users, <1>1, <1>2, <2>1, HeldGrows
  <1>4. /\ Cardinality(At(pc, Creating)) \in Nat
        /\ Cardinality(At(pc, Started)) \in Nat
        /\ Cardinality(At(pc, Counted)) \in Nat
    BY AtMoves
  <1>5. Counts' /\ refs' \in Nat
    BY <1>3, <1>4 DEF Counts
  <1> QED BY <1>2, <1>5 DEF ThreadTypes

\* When no second thread was started, there is only one to wait for.
LEMMA OneThread ==
  ASSUME T!ThreadsAssumption, ThreadTypes, Counts, starts <= 1,
         NEW r \in Runners, NEW s \in Runners, pc[r] # "none", pc[s] # "none"
  PROVE  r = s
  <1> SUFFICES ASSUME r # s PROVE FALSE
    OBVIOUS
  <1>1. {r} \cup {s} \subseteq At(pc, Created)
    BY DEF At, Created, ThreadTypes
  <1>2. IsFiniteSet(At(pc, Created))
    <2>1. IsFiniteSet(Users \cup Runners)
      BY FS_Union, ThreadsAreFinite
    <2> QED BY <2>1, FS_Subset DEF At
  <1>3. IsFiniteSet({r}) /\ Cardinality({r}) = 1
    BY FS_Singleton
  <1>4. Cardinality({r} \cup {s}) = 2
    <2>1. Cardinality({r} \cup {s}) = Cardinality({r}) + 1
      BY <1>3, FS_AddElement, s \notin {r}
    <2> QED BY <1>3, <2>1
  <1>5. Cardinality({r} \cup {s}) <= Cardinality(At(pc, Created))
    BY <1>1, <1>2, FS_Subset
  <1>6. Cardinality(At(pc, Created)) = starts /\ starts \in Nat
    BY DEF Counts, ThreadTypes
  <1> QED BY ONLY starts <= 1, <1>4, <1>5, <1>6

\* So a join that waited for the thread or that found it stopped found nobody running.
LEMMA JoinedInOrder ==
  ASSUME T!ThreadsAssumption, ThreadInv, starts <= 1, NEW r \in Runners,
         pc[r] \in {"unlist", "unref", "last", "ended"}
  PROVE  ~ \E s \in Runners : T!Running(s)
  <1> SUFFICES ASSUME NEW s \in Runners, T!Running(s) PROVE FALSE
    OBVIOUS
  <1>1. pc[s] # "none" /\ pc[s] \notin {"unlist", "unref", "last", "ended"}
    BY DEF T!Running
  <1>2. r = s
    BY <1>1, OneThread DEF ThreadInv
  <1> QED BY <1>1, <1>2

LEMMA UserStep ==
  ASSUME T!ThreadsAssumption, ThreadInv, NEW u \in Users,
         \/ T!Drop(u) \/ T!BeginStart(u) \/ T!CreateFails(u) \/ T!Join(u) \/ T!BeginJoin(u)
         \/ T!Joined(u) \/ T!Abort(u) \/ T!GetThreads(u)
         \/ \E v \in Users : T!Pass(u, v)
         \/ \E r \in Runners : T!StoreHandle(u, r)
  PROVE  ThreadInv'
  <1>0. /\ ThreadTypes /\ Counts /\ ThreadOrder
        /\ Users \cap Runners = {} /\ NoHandle \notin Runners
        /\ u \in Users \cup Runners /\ pc[u] \in UserPlaces
        /\ MaxHolds \in Nat /\ holds \in [Users -> 0..MaxHolds]
    BY DEF ThreadInv, ThreadTypes, T!ThreadsAssumption
  <1> USE <1>0
  <1>1. CASE T!Drop(u)
    <2>1. ThreadTypes' /\ Counts'
      BY <1>1, HoldsLess DEF T!Drop, T!May
    <2>2. ThreadOrder'
      BY <1>1 DEF T!Drop, T!May, ThreadOrder, ThreadTypes
    <2> QED BY <2>1, <2>2 DEF ThreadInv
  <1>2. CASE \E v \in Users : T!Pass(u, v)
    <2> PICK v \in Users : T!Pass(u, v)
      BY <1>2
    <2>1. ThreadTypes' /\ Counts'
      <3>1. holds[v] + 1 <= MaxHolds
        BY DEF T!Pass, ThreadTypes, T!ThreadsAssumption
      <3> QED BY <3>1, 1 \in Nat, HoldsMore DEF T!Pass
    <2>2. ThreadOrder'
      <3>1. \A w \in Users : holds[w] > 0 => holds'[w] > 0
        BY DEF T!Pass
      <3>2. UNCHANGED <<state, handle, pc, starts, joins>>
        BY DEF T!Pass
      <3> QED BY <3>1, <3>2 DEF ThreadOrder
    <2> QED BY <2>1, <2>2 DEF ThreadInv
  <1>3. CASE T!BeginStart(u)
    <2>1. ThreadTypes' /\ Counts'
      <3>1. /\ Enters(u, "create", Creating) = 1 /\ Enters(u, "create", Started) = 0
            /\ Enters(u, "create", Counted) = 0 /\ Enters(u, "create", Listed) = 0
            /\ Enters(u, "create", Created) = 0
        BY <1>3 DEF T!BeginStart, T!May, Enters, Creating, Started, Counted, Listed, Created, RunnerPlaces
      <3> QED BY <1>3, <3>1, ThreadMoves DEF T!BeginStart, T!May, ThreadTypes, UserPlaces
    <2>2. ThreadOrder'
      BY <1>3 DEF T!BeginStart, T!Goto, T!May, ThreadOrder, ThreadTypes
    <2> QED BY <2>1, <2>2 DEF ThreadInv
  <1>4. CASE T!CreateFails(u)
    <2>1. ThreadTypes' /\ Counts'
      <3>1. /\ Enters(u, "idle", Creating) = -1 /\ Enters(u, "idle", Started) = 0
            /\ Enters(u, "idle", Counted) = 0 /\ Enters(u, "idle", Listed) = 0
            /\ Enters(u, "idle", Created) = 0
        BY <1>4 DEF T!CreateFails, T!May, Enters, Creating, Started, Counted, Listed, Created, RunnerPlaces
      <3> QED BY <1>4, <3>1, ThreadMoves DEF T!CreateFails, T!May, ThreadTypes, UserPlaces
    <2>2. ThreadOrder'
      BY <1>4 DEF T!CreateFails, T!Goto, T!May, ThreadOrder, ThreadTypes
    <2> QED BY <2>1, <2>2 DEF ThreadInv
  <1>5. CASE T!BeginJoin(u)
    <2>1. ThreadTypes' /\ Counts'
      <3>1. /\ Enters(u, "join", Creating) = 0 /\ Enters(u, "join", Started) = 0
            /\ Enters(u, "join", Counted) = 0 /\ Enters(u, "join", Listed) = 0
            /\ Enters(u, "join", Created) = 0
        BY <1>5 DEF T!BeginJoin, T!May, Enters, Creating, Started, Counted, Listed, Created, RunnerPlaces
      <3> QED BY <1>5, <3>1, ThreadMoves DEF T!BeginJoin, T!May, ThreadTypes, UserPlaces
    <2>2. ThreadOrder'
      BY <1>5 DEF T!BeginJoin, T!Goto, T!May, ThreadOrder, ThreadTypes
    <2> QED BY <2>1, <2>2 DEF ThreadInv
  <1>6. CASE \E r \in Runners : T!StoreHandle(u, r)
    <2> PICK r \in Runners : T!StoreHandle(u, r)
      BY <1>6
    <2>1. ThreadTypes' /\ Counts'
      <3>1. /\ Enters(u, "idle", Creating) = 0 /\ Enters(u, "idle", Started) = 0
            /\ Enters(u, "idle", Counted) = 0 /\ Enters(u, "idle", Listed) = 0
            /\ Enters(u, "idle", Created) = 0
        BY DEF T!StoreHandle, Enters, Creating, Started, Counted, Listed, Created, RunnerPlaces
      <3> QED BY <3>1, ThreadMoves DEF T!StoreHandle, ThreadTypes, UserPlaces
    <2>2. ThreadOrder'
      BY DEF T!StoreHandle, T!Goto, ThreadOrder, ThreadTypes
    <2> QED BY <2>1, <2>2 DEF ThreadInv
  <1>7. CASE T!Joined(u)
    <2>1. ThreadTypes' /\ Counts'
      <3>1. /\ Enters(u, "idle", Creating) = 0 /\ Enters(u, "idle", Started) = 0
            /\ Enters(u, "idle", Counted) = 0 /\ Enters(u, "idle", Listed) = 0
            /\ Enters(u, "idle", Created) = 0
        BY <1>7 DEF T!Joined, Enters, Creating, Started, Counted, Listed, Created, RunnerPlaces
      <3>2. joins' \subseteq BOOLEAN
        BY <1>7 DEF T!Joined, ThreadTypes
      <3>3. T!Goto(u, "idle") /\ UNCHANGED <<state, handle, refs, holds, listed, starts>>
        BY <1>7 DEF T!Joined
      <3>4. u \in Users <=> "idle" \in UserPlaces
        BY DEF UserPlaces
      <3> QED BY <3>1, <3>2, <3>3, <3>4, ThreadMoves DEF ThreadTypes, UserPlaces
    <2>2. starts <= 1 => TRUE \notin joins'
      <3> SUFFICES ASSUME starts <= 1 PROVE TRUE \notin joins'
        OBVIOUS
      <3>1. TRUE \notin joins
        BY DEF ThreadOrder
      <3>2. CASE handle = NoHandle /\ UNCHANGED joins
        BY <3>1, <3>2
      <3>3. CASE handle # NoHandle /\ pc[handle] = "ended"
        <4>1. ~ \E s \in Runners : T!Running(s)
          BY <3>3, JoinedInOrder DEF ThreadTypes
        <4> QED BY <1>7, <3>1, <3>3, <4>1 DEF T!Joined
      <3> QED BY <1>7, <3>2, <3>3 DEF T!Joined
    <2>3. ThreadOrder'
      BY <1>7, <2>2 DEF T!Joined, T!Goto, ThreadOrder, ThreadTypes
    <2> QED BY <2>1, <2>3 DEF ThreadInv
  <1>8. CASE T!Join(u)
    <2>1. ThreadTypes'
      BY <1>8 DEF T!Join, ThreadTypes
    <2>2. Counts'
      BY <1>8 DEF T!Join, Counts
    <2>3. starts <= 1 => TRUE \notin joins'
      <3> SUFFICES ASSUME starts <= 1 PROVE TRUE \notin joins'
        OBVIOUS
      <3>1. PICK r \in Runners : pc[r] \in {"unlist", "unref", "last", "ended"}
        BY <1>8 DEF T!Join, ThreadOrder
      <3>2. ~ \E s \in Runners : T!Running(s)
        BY <3>1, JoinedInOrder
      <3> QED BY <1>8, <3>2 DEF T!Join, ThreadOrder
    <2>4. ThreadOrder'
      BY <1>8, <2>3 DEF T!Join, ThreadOrder, ThreadTypes
    <2> QED BY <2>1, <2>2, <2>4 DEF ThreadInv
  <1>9. CASE T!Abort(u)
    <2>1. ThreadTypes' /\ Counts'
      BY <1>9 DEF T!Abort, ThreadTypes, Counts
    <2>2. ThreadOrder'
      BY <1>9 DEF T!Abort, ThreadOrder, ThreadTypes
    <2> QED BY <2>1, <2>2 DEF ThreadInv
  <1>10. CASE T!GetThreads(u)
    <2>1. ThreadTypes' /\ Counts'
      <3>1. holds[u] + listed <= MaxHolds /\ listed \in Nat
        BY <1>10 DEF T!GetThreads, ThreadTypes
      <3> QED BY <1>10, <3>1, HoldsMore DEF T!GetThreads
    <2>2. ThreadOrder'
      BY <1>10 DEF T!GetThreads, ThreadOrder, ThreadTypes
    <2> QED BY <2>1, <2>2 DEF ThreadInv
  <1> QED BY <1>1, <1>2, <1>3, <1>4, <1>5, <1>6, <1>7, <1>8, <1>9, <1>10

LEMMA RunnerStep ==
  ASSUME T!ThreadsAssumption, ThreadInv, NEW r \in Runners, T!PosixToSkizo(r)
  PROVE  ThreadInv'
  <1>0. /\ ThreadTypes /\ Counts /\ ThreadOrder
        /\ Users \cap Runners = {} /\ NoHandle \notin Runners
        /\ r \in Users \cup Runners /\ pc[r] \in RunnerPlaces /\ r \notin Users
    BY DEF ThreadInv, ThreadTypes, T!ThreadsAssumption
  <1> USE <1>0
  <1>1. CASE T!Check(r) /\ state = "abort"
    <2>1. ThreadTypes' /\ Counts'
      <3>1. /\ Enters(r, "ref", Creating) = 0 /\ Enters(r, "ref", Started) = 0
            /\ Enters(r, "ref", Counted) = 0 /\ Enters(r, "ref", Listed) = 0
            /\ Enters(r, "ref", Created) = 0
        BY <1>1 DEF T!Check, Enters, Creating, Started, Counted, Listed, Created, RunnerPlaces
      <3> QED BY <1>1, <3>1, ThreadMoves DEF T!Check, ThreadTypes, UserPlaces, RunnerPlaces
    <2>2. ThreadOrder'
      BY <1>1 DEF T!Check, T!Goto, ThreadOrder, ThreadTypes
    <2> QED BY <2>1, <2>2 DEF ThreadInv
  <1>2. CASE T!Check(r) /\ state # "abort"
    <2>1. ThreadTypes' /\ Counts'
      <3>1. /\ Enters(r, "running", Creating) = 0 /\ Enters(r, "running", Started) = 0
            /\ Enters(r, "running", Counted) = 0 /\ Enters(r, "running", Listed) = 0
            /\ Enters(r, "running", Created) = 0
        BY <1>2 DEF T!Check, Enters, Creating, Started, Counted, Listed, Created, RunnerPlaces
      <3> QED BY <1>2, <3>1, ThreadMoves DEF T!Check, ThreadTypes, UserPlaces, RunnerPlaces
    <2>2. ThreadOrder'
      BY <1>2 DEF T!Check, T!Goto, ThreadOrder, ThreadTypes
    <2> QED BY <2>1, <2>2 DEF ThreadInv
  <1>3. CASE T!SetRunning(r)
    <2>1. ThreadTypes' /\ Counts'
      <3>1. /\ Enters(r, "ref", Creating) = 0 /\ Enters(r, "ref", Started) = 0
            /\ Enters(r, "ref", Counted) = 0 /\ Enters(r, "ref", Listed) = 0
            /\ Enters(r, "ref", Created) = 0
        BY <1>3 DEF T!SetRunning, Enters, Creating, Started, Counted, Listed, Created, RunnerPlaces
      <3> QED BY <1>3, <3>1, ThreadMoves DEF T!SetRunning, ThreadTypes, UserPlaces, RunnerPlaces
    <2>2. ThreadOrder'
      BY <1>3 DEF T!SetRunning, T!Goto, ThreadOrder, ThreadTypes
    <2> QED BY <2>1, <2>2 DEF ThreadInv
  <1>4. CASE T!RefItself(r)
    <2>1. ThreadTypes' /\ Counts'
      <3>1. /\ Enters(r, "list", Creating) = 0 /\ Enters(r, "list", Started) = 0
            /\ Enters(r, "list", Counted) = 1 /\ Enters(r, "list", Listed) = 0
            /\ Enters(r, "list", Created) = 0
        BY <1>4 DEF T!RefItself, Enters, Creating, Started, Counted, Listed, Created, RunnerPlaces
      <3> QED BY <1>4, <3>1, ThreadMoves DEF T!RefItself, ThreadTypes, UserPlaces, RunnerPlaces
    <2>2. ThreadOrder'
      BY <1>4 DEF T!RefItself, T!Goto, ThreadOrder, ThreadTypes
    <2> QED BY <2>1, <2>2 DEF ThreadInv
  <1>5. CASE T!AddToList(r)
    <2>1. ThreadTypes' /\ Counts'
      <3>1. /\ Enters(r, "body", Creating) = 0 /\ Enters(r, "body", Started) = 0
            /\ Enters(r, "body", Counted) = 0 /\ Enters(r, "body", Listed) = 1
            /\ Enters(r, "body", Created) = 0
        BY <1>5 DEF T!AddToList, Enters, Creating, Started, Counted, Listed, Created, RunnerPlaces
      <3> QED BY <1>5, <3>1, ThreadMoves DEF T!AddToList, ThreadTypes, UserPlaces, RunnerPlaces
    <2>2. ThreadOrder'
      BY <1>5 DEF T!AddToList, T!Goto, ThreadOrder, ThreadTypes
    <2> QED BY <2>1, <2>2 DEF ThreadInv
  <1>6. CASE T!OnStart(r)
    <2>1. ThreadTypes' /\ Counts'
      <3>1. /\ Enters(r, "stop", Creating) = 0 /\ Enters(r, "stop", Started) = 0
            /\ Enters(r, "stop", Counted) = 0 /\ Enters(r, "stop", Listed) = 0
            /\ Enters(r, "stop", Created) = 0
        BY <1>6 DEF T!OnStart, Enters, Creating, Started, Counted, Listed, Created, RunnerPlaces
      <3> QED BY <1>6, <3>1, ThreadMoves DEF T!OnStart, ThreadTypes, UserPlaces, RunnerPlaces
    <2>2. ThreadOrder'
      BY <1>6 DEF T!OnStart, T!Goto, ThreadOrder, ThreadTypes
    <2> QED BY <2>1, <2>2 DEF ThreadInv
  <1>7. CASE T!Stop(r)
    <2>1. ThreadTypes' /\ Counts'
      <3>1. /\ Enters(r, "unlist", Creating) = 0 /\ Enters(r, "unlist", Started) = 0
            /\ Enters(r, "unlist", Counted) = 0 /\ Enters(r, "unlist", Listed) = 0
            /\ Enters(r, "unlist", Created) = 0
        BY <1>7 DEF T!Stop, Enters, Creating, Started, Counted, Listed, Created, RunnerPlaces
      <3> QED BY <1>7, <3>1, ThreadMoves DEF T!Stop, ThreadTypes, UserPlaces, RunnerPlaces
    <2>2. ThreadOrder'
      BY <1>7 DEF T!Stop, T!Goto, ThreadOrder, ThreadTypes
    <2> QED BY <2>1, <2>2 DEF ThreadInv
  <1>8. CASE T!RemoveFromList(r)
    <2>1. ThreadTypes' /\ Counts'
      <3>1. /\ Enters(r, "unref", Creating) = 0 /\ Enters(r, "unref", Started) = 0
            /\ Enters(r, "unref", Counted) = 0 /\ Enters(r, "unref", Listed) = -1
            /\ Enters(r, "unref", Created) = 0
        BY <1>8 DEF T!RemoveFromList, Enters, Creating, Started, Counted, Listed, Created, RunnerPlaces
      <3> QED BY <1>8, <3>1, ThreadMoves DEF T!RemoveFromList, ThreadTypes, UserPlaces, RunnerPlaces
    <2>2. ThreadOrder'
      BY <1>8 DEF T!RemoveFromList, T!Goto, ThreadOrder, ThreadTypes
    <2> QED BY <2>1, <2>2 DEF ThreadInv
  <1>9. CASE T!UnrefItself(r)
    <2>1. ThreadTypes' /\ Counts'
      <3>1. /\ Enters(r, "last", Creating) = 0 /\ Enters(r, "last", Started) = 0
            /\ Enters(r, "last", Counted) = -1 /\ Enters(r, "last", Listed) = 0
            /\ Enters(r, "last", Created) = 0
        BY <1>9 DEF T!UnrefItself, Enters, Creating, Started, Counted, Listed, Created, RunnerPlaces
      <3> QED BY <1>9, <3>1, ThreadMoves DEF T!UnrefItself, ThreadTypes, UserPlaces, RunnerPlaces
    <2>2. ThreadOrder'
      BY <1>9 DEF T!UnrefItself, T!Goto, ThreadOrder, ThreadTypes
    <2> QED BY <2>1, <2>2 DEF ThreadInv
  <1>10. CASE T!UnrefStart(r)
    <2>1. ThreadTypes' /\ Counts'
      <3>1. /\ Enters(r, "ended", Creating) = 0 /\ Enters(r, "ended", Started) = -1
            /\ Enters(r, "ended", Counted) = 0 /\ Enters(r, "ended", Listed) = 0
            /\ Enters(r, "ended", Created) = 0
        BY <1>10 DEF T!UnrefStart, Enters, Creating, Started, Counted, Listed, Created, RunnerPlaces
      <3> QED BY <1>10, <3>1, ThreadMoves DEF T!UnrefStart, ThreadTypes, UserPlaces, RunnerPlaces
    <2>2. ThreadOrder'
      BY <1>10 DEF T!UnrefStart, T!Goto, ThreadOrder, ThreadTypes
    <2> QED BY <2>1, <2>2 DEF ThreadInv
  <1> QED BY <1>1, <1>2, <1>3, <1>4, <1>5, <1>6, <1>7, <1>8, <1>9, <1>10 DEF T!PosixToSkizo

LEMMA CreateStep ==
  ASSUME T!ThreadsAssumption, ThreadInv, NEW u \in Users, NEW r \in Runners, T!Create(u, r)
  PROVE  ThreadInv'
  <1> DEFINE p == [pc EXCEPT ![u] = "store"]
  <1>0. /\ ThreadTypes /\ Counts /\ ThreadOrder
        /\ Users \cap Runners = {} /\ NoHandle \notin Runners
        /\ u \in Users \cup Runners /\ r \in Users \cup Runners /\ u # r
        /\ pc \in [Users \cup Runners -> UserPlaces \cup RunnerPlaces]
    BY DEF ThreadInv, ThreadTypes, T!ThreadsAssumption
  <1> USE <1>0
  <1>1. p[u] = "store" /\ \A v \in (Users \cup Runners) \ {u} : p[v] = pc[v]
    OBVIOUS
  <1>1a. pc'[r] = "check" /\ \A v \in (Users \cup Runners) \ {r} : pc'[v] = p[v]
    BY DEF T!Create
  <1>1b. pc[u] = "create" /\ pc[r] = "none" /\ p[r] = "none"
    BY DEF T!Create
  <1> HIDE DEF p
  \* The user leaves the place where it counts, and the thread enters one where it does.
  <1>2. ASSUME NEW set
        PROVE  /\ Cardinality(At(pc, set)) \in Nat /\ Cardinality(At(p, set)) \in Nat
               /\ Cardinality(At(p, set)) = Cardinality(At(pc, set)) +
                    (IF p[u] \in set THEN 1 ELSE 0) - (IF pc[u] \in set THEN 1 ELSE 0)
               /\ Cardinality(At(pc', set)) = Cardinality(At(p, set)) +
                    (IF pc'[r] \in set THEN 1 ELSE 0) - (IF p[r] \in set THEN 1 ELSE 0)
    <2>1. /\ Cardinality(At(pc, set)) \in Nat
          /\ Cardinality(At(p, set)) = Cardinality(At(pc, set)) +
               (IF p[u] \in set THEN 1 ELSE 0) - (IF pc[u] \in set THEN 1 ELSE 0)
      BY ONLY T!ThreadsAssumption, u \in Users \cup Runners, <1>1, AtMoves
    <2>2. /\ Cardinality(At(p, set)) \in Nat
          /\ Cardinality(At(pc', set)) = Cardinality(At(p, set)) +
               (IF pc'[r] \in set THEN 1 ELSE 0) - (IF p[r] \in set THEN 1 ELSE 0)
      BY ONLY T!ThreadsAssumption, r \in Users \cup Runners, <1>1a, AtMoves
    <2> QED BY <2>1, <2>2
  <1>3. Cardinality(At(pc', Creating)) = Cardinality(At(pc, Creating)) - 1
    BY <1>1, <1>1a, <1>1b, <1>2 DEF Creating
  <1>4. Cardinality(At(pc', Started)) = Cardinality(At(pc, Started)) + 1
    BY <1>1, <1>1a, <1>1b, <1>2 DEF Started, RunnerPlaces
  <1>5. Cardinality(At(pc', Counted)) = Cardinality(At(pc, Counted))
    BY <1>1, <1>1a, <1>1b, <1>2 DEF Counted
  <1>6. Cardinality(At(pc', Listed)) = Cardinality(At(pc, Listed))
    BY <1>1, <1>1a, <1>1b, <1>2 DEF Listed
  <1>7. Cardinality(At(pc', Created)) = Cardinality(At(pc, Created)) + 1
    BY <1>1, <1>1a, <1>1b, <1>2 DEF Created, RunnerPlaces
  <1>8. /\ Cardinality(At(pc, Creating)) \in Nat /\ Cardinality(At(pc, Started)) \in Nat
        /\ Cardinality(At(pc, Counted)) \in Nat /\ Cardinality(HeldRefs(holds)) \in Nat
    BY <1>2, HeldFinite DEF ThreadTypes
  <1>9. Counts'
    <2>1. /\ UNCHANGED <<refs, holds, listed>> /\ starts' = starts + 1
      BY DEF T!Create
    <2>2. HeldRefs(holds') = HeldRefs(holds)
      BY <2>1
    <2> QED BY <1>3, <1>4, <1>5, <1>6, <1>7, <1>8, <2>1, <2>2 DEF Counts
  <1>10. ThreadTypes'
    BY DEF T!Create, ThreadTypes, UserPlaces, RunnerPlaces
  <1>11. ThreadOrder'
    <2>1. UNCHANGED <<state, handle, holds, joins>> /\ starts' = starts + 1 /\ starts \in Nat
      BY DEF T!Create, ThreadTypes
    <2>2. \A v \in Users : pc[v] # "idle" => holds[v] > 0
      BY DEF ThreadOrder
    <2>3. \A v \in Users : pc'[v] # "idle" => holds[v] > 0
      BY <1>1, <1>1a, <1>1b, <2>2
    <2>4. \A s \in Runners : pc'[s] = pc[s] \/ (pc[s] = "none" /\ pc'[s] = "check")
      BY <1>1, <1>1a, <1>1b
    <2>5. handle \in Runners \cup {NoHandle}
      BY DEF ThreadTypes
    <2>6. handle # NoHandle => pc'[handle] # "none"
      BY <2>4, <2>5 DEF ThreadOrder
    <2>7. state = "stopped" => \E s \in Runners : pc'[s] \in {"unlist", "unref", "last", "ended"}
      <3> SUFFICES ASSUME state = "stopped"
                   PROVE  \E s \in Runners : pc'[s] \in {"unlist", "unref", "last", "ended"}
        OBVIOUS
      <3>1. PICK s \in Runners : pc[s] \in {"unlist", "unref", "last", "ended"}
        BY DEF ThreadOrder
      <3> QED BY <2>4, <3>1
    <2>8. starts' <= 1 => TRUE \notin joins
      <3>1. starts' <= 1 => starts <= 1
        BY <2>1
      <3> QED BY <3>1 DEF ThreadOrder
    <2> QED BY <2>1, <2>3, <2>6, <2>7, <2>8 DEF ThreadOrder
  <1> QED BY <1>9, <1>10, <1>11 DEF ThreadInv

LEMMA ThreadsBegin ==
  ASSUME T!ThreadsAssumption, T!Init
  PROVE  ThreadInv
  <1>0. /\ Users \cap Runners = {} /\ MaxHolds \in Nat \ {0}
    BY DEF T!ThreadsAssumption
  <1>1. ThreadTypes
    BY <1>0 DEF T!Init, ThreadTypes, UserPlaces, RunnerPlaces
  <1>2. Counts
    <2> PICK u \in Users : holds = [v \in Users |-> IF v = u THEN 1 ELSE 0]
      BY DEF T!Init
    <2>1. HeldRefs(holds) = {<<u, 1>>}
      BY <1>0 DEF HeldRefs
    <2>2. Cardinality(HeldRefs(holds)) = 1
      BY <2>1, FS_Singleton
    <2>3. /\ At(pc, Creating) = {} /\ At(pc, Started) = {} /\ At(pc, Counted) = {}
          /\ At(pc, Listed) = {} /\ At(pc, Created) = {}
      BY DEF T!Init, At, Creating, Started, Counted, Listed, Created, RunnerPlaces
    <2>4. Cardinality({}) = 0
      BY FS_EmptySet
    <2> QED BY <2>2, <2>3, <2>4 DEF Counts, T!Init
  <1>3. ThreadOrder
    BY <1>0 DEF T!Init, ThreadOrder
  <1> QED BY <1>1, <1>2, <1>3 DEF ThreadInv

LEMMA ThreadsGoOn ==
  ASSUME T!ThreadsAssumption, ThreadInv, [T!Next]_threadsVars
  PROVE  ThreadInv'
  <1>1. CASE UNCHANGED threadsVars
    BY <1>1 DEF threadsVars, ThreadInv, ThreadTypes, Counts, ThreadOrder
  <1>2. CASE T!Next
    BY <1>2, UserStep, RunnerStep, CreateStep DEF T!Next
  <1> QED BY <1>1, <1>2

LEMMA ThreadsMean ==
  ASSUME T!ThreadsAssumption, ThreadInv
  PROVE  T!ThreadsEndInOrder
  <1> USE DEF ThreadInv
  <1>1. starts \in {0, 1} => TRUE \notin joins
    <2>1. starts \in {0, 1} => starts <= 1
      OBVIOUS
    <2> QED BY <2>1 DEF ThreadOrder
  <1>2. ASSUME refs = 0
        PROVE  /\ listed = 0 /\ \A u \in Users : holds[u] = 0 /\ pc[u] = "idle"
               /\ \A r \in Runners : pc[r] \in {"none", "ended"}
    <2>0. IsFiniteSet(Users \cup Runners) /\ MaxHolds \in Nat \ {0}
      BY FS_Union, ThreadsAreFinite DEF T!ThreadsAssumption
    <2>1. ASSUME NEW set
          PROVE  IsFiniteSet(At(pc, set)) /\ Cardinality(At(pc, set)) \in Nat
      BY <2>0, FS_Subset, FS_CardinalityType DEF At
    <2>2. IsFiniteSet(HeldRefs(holds)) /\ Cardinality(HeldRefs(holds)) \in Nat
      BY HeldFinite DEF ThreadTypes
    <2>3. /\ Cardinality(HeldRefs(holds)) = 0 /\ Cardinality(At(pc, Started)) = 0
      <3>1. /\ Cardinality(At(pc, Creating)) \in Nat /\ Cardinality(At(pc, Started)) \in Nat
            /\ Cardinality(At(pc, Counted)) \in Nat
        BY <2>1
      <3> QED BY <1>2, <2>2, <3>1 DEF Counts
    <2>4. HeldRefs(holds) = {} /\ At(pc, Started) = {}
      BY <2>1, <2>2, <2>3, FS_EmptySet
    <2>5. \A u \in Users : holds[u] = 0
      <3> SUFFICES ASSUME NEW u \in Users PROVE holds[u] = 0
        OBVIOUS
      <3>1. <<u, 1>> \notin HeldRefs(holds)
        BY <2>4
      <3>2. 1 \in 1..MaxHolds
        BY <2>0
      <3>3. ~ (1 <= holds[u])
        BY <3>1, <3>2 DEF HeldRefs
      <3>4. holds[u] \in 0..MaxHolds
        BY DEF ThreadTypes
      <3> QED BY <2>0, <3>3, <3>4
    <2>6. \A u \in Users : pc[u] = "idle"
      BY <2>5 DEF ThreadOrder
    <2>7. \A r \in Runners : pc[r] \in {"none", "ended"}
      BY <2>4 DEF At, Started, ThreadTypes
    <2>8. At(pc, Listed) = {}
      BY <2>6, <2>7 DEF At, Listed
    <2>9. listed = 0
      BY <2>8, FS_EmptySet DEF Counts
    <2> QED BY <2>5, <2>6, <2>7, <2>9
  <1>3. T!StaysAlive
    BY <1>2 DEF T!StaysAlive
  <1> QED BY <1>1, <1>3 DEF T!ThreadsEndInOrder

\* "The framework guarantees that the object is alive as long as the underlying OS thread
\* is alive" (Thread.h): as long as a user, the list of known threads or a thread of the
\* operating system has a pointer to a thread's object, its counter of references is not
\* zero; and a join of a thread that was started once returns after its OnStart().
THEOREM ThreadsAreKept == MCSpec => []ThreadsEndInOrder
  <1> DEFINE Inv == which = "threads" => ThreadInv
  <1>1. MCInit => Inv
    BY ThreadsBegin, ThreadsAreApart DEF MCInit
  <1>2. Inv /\ [MCNext]_allVars => Inv'
    <2> SUFFICES ASSUME Inv, [MCNext]_allVars, which' = "threads" PROVE ThreadInv'
      OBVIOUS
    <2>1. which = "threads"
      BY DEF MCNext, allVars
    <2>2. [T!Next]_threadsVars
      BY <2>1 DEF MCNext, allVars
    <2> QED
      BY <2>1, <2>2, ThreadsGoOn, ThreadsAreApart
  <1>3. Inv => ThreadsEndInOrder
    BY ThreadsMean, ThreadsAreApart DEF ThreadsEndInOrder
  <1> QED
    BY <1>1, <1>2, <1>3, PTL DEF MCSpec
=============================================================================
