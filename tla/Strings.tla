------------------------------- MODULE Strings -------------------------------
(***************************************************************************)
(* CString (src/src/String.cpp), CStringBuilder and paths. A string is the *)
(* sequence of its code units; offsets count from 0, a count of 0 means    *)
(* the rest, and a function that throws gives Error.                       *)
(***************************************************************************)
EXTENDS Integers, Sequences, FiniteSets

S == INSTANCE SequencesExt
F == INSTANCE FiniteSetsExt

CONSTANTS Letters, Signs, PathChars,  \* the code units of the three kinds of text
          MaxText, MaxOther,          \* bounds: their lengths
          IntBits,                    \* the width of int, 32 in the code
          Error, Forever, Junk

VARIABLES kind,                       \* "search", "number", "path" or "builder"
          text, other,                \* two strings
          m_chars, m_count, promised  \* a builder, and what it should hold
vars == <<kind, text, other, m_chars, m_count, promised>>

Blank == {32, 9, 13}
Minus == 45
Zero == 48
Slash == 47
Dot == 46
At(s, i) == IF i < 0 THEN Junk ELSE IF i < Len(s) THEN s[i + 1] ELSE 0

Wrap(n) == ((n + 2^(IntBits - 1)) % 2^IntBits) - 2^(IntBits - 1)
IntMin == -(2^(IntBits - 1))
IntMax == 2^(IntBits - 1) - 1

\* The count a range has, or Error.
ValidateRange(start, count, total) ==
    LET rc == IF count = 0 THEN total - start ELSE count
    IN IF rc < 0 \/ rc > total \/ rc + start > total THEN Error ELSE rc

Substring(s, start, count) ==
    LET rc == ValidateRange(start, count, Len(s))
    IN IF rc = Error THEN Error ELSE [i \in 1..rc |-> At(s, start + i - 1)]

(***************************************************************************)
(* Searching.                                                              *)
(***************************************************************************)
FindChar(s, c, start, count) ==
    LET rc == ValidateRange(start, count, Len(s))
        hits == {i \in start..start + rc - 1 : At(s, i) = c}
    IN IF rc = Error THEN Error ELSE IF hits = {} THEN -1 ELSE F!Min(hits)

\* It begins at the end of the range, which is not in it.
FindLastChar(s, c, start, count) ==
    LET rc == ValidateRange(start, count, Len(s))
        hits == {i \in start..start + rc : At(s, i) = c}
    IN IF rc = Error THEN Error ELSE IF hits = {} THEN -1 ELSE F!Max(hits)

Matches(s, sub, i) == \A j \in 0..Len(sub) - 1 : At(s, i + j) = At(sub, j)

\* The search without a start looks for the first character, then for the rest.
RECURSIVE Scan(_, _, _)
Scan(s, sub, i) ==
    LET firsts == {j \in i..Len(s) - Len(sub) : At(s, j) = At(sub, 0)}
        at == F!Min(firsts)
    IN IF firsts = {} THEN -1 ELSE IF Matches(s, sub, at) THEN at ELSE Scan(s, sub, at + 1)
FindFirst(s, sub) == IF sub = <<>> THEN 0 ELSE IF s = <<>> THEN -1 ELSE Scan(s, sub, 0)

\* The search from a start, which must be in the string, tries every place.
FindSubstring(s, sub, start) ==
    LET hits == {i \in start..Len(s) - 1 : i + Len(sub) <= Len(s) /\ Matches(s, sub, i)}
    IN IF start \notin 0..Len(s) - 1 THEN Error
       ELSE IF sub = <<>> THEN 0 ELSE IF hits = {} THEN -1 ELSE F!Min(hits)

StartsWith(s, sub) == /\ sub # <<>> /\ Len(s) >= Len(sub)
                      /\ \A i \in 1..Len(sub) : sub[i] = s[i]
EndsWith(s, sub) == /\ sub # <<>> /\ Len(s) >= Len(sub)
                    /\ \A i \in 1..Len(sub) : sub[i] = s[Len(s) - Len(sub) + i]

\* Mutant of SplitChars: an empty part is cut like the others.
RECURSIVE SplitUnfixed(_, _, _, _)
SplitUnfixed(s, c, last, parts) ==
    LET found == FindChar(s, c, last, 0)
        part == Substring(s, last, found - last)
    IN IF found = -1 THEN Append(parts, Substring(s, last, Len(s) - last))
       ELSE IF found + 1 = Len(s) THEN Append(parts, part)
       ELSE SplitUnfixed(s, c, found + 1, Append(parts, part))
\* Split(so_char16): last is where the part that is read begins. Nothing follows a
\* delimiter that is the last character.
RECURSIVE SplitChars(_, _, _, _)
SplitChars(s, c, last, parts) ==
    LET found == FindChar(s, c, last, 0)
        part == IF found = last THEN <<>> ELSE Substring(s, last, found - last)
    IN IF found = -1 THEN Append(parts, Substring(s, last, Len(s) - last))
       ELSE IF found + 1 = Len(s) THEN Append(parts, part)
       ELSE SplitChars(s, c, found + 1, Append(parts, part))

\* Split(const CString*): first the places of the delimiter, then the parts.
RECURSIVE Places(_, _, _, _)
Places(s, del, from, places) ==
    LET i == FindSubstring(s, del, from)
    IN IF i = Error THEN Error
       ELSE IF i = -1 THEN Append(places, Len(s))
       ELSE IF i < from THEN Forever
       ELSE Places(s, del, i + 1, Append(places, i))
\* What comes before the n-th place.
PartBefore(s, del, places, n) ==
    LET start == IF n = 1 THEN 0 ELSE places[n - 1] + Len(del)
    IN IF start = places[n] THEN <<>> ELSE Substring(s, start, places[n] - start)
Split(s, del) ==
    LET places == Places(s, del, 0, <<>>)
        parts == [n \in 1..Len(places) |-> PartBefore(s, del, places, n)]
    IN IF places \in {Error, Forever} THEN places
       ELSE IF Error \in S!ToSet(parts) THEN Error ELSE parts

Trim(s) == LET inner == {i \in 1..Len(s) : s[i] \notin Blank}
           IN IF inner = {} THEN <<>> ELSE SubSeq(s, F!Min(inner), F!Max(inner))

(***************************************************************************)
(* Numbers, read from their end.                                           *)
(***************************************************************************)
\* phase: 0 behind the number, 1 in it, 2 before it. The product and the place are
\* ints, the sum is a long.
ParseChar(st, c) ==
    IF ~st.ok THEN st
    ELSE IF c \in {32, 9} THEN IF st.phase = 1 THEN [st EXCEPT !.phase = 2] ELSE st
    ELSE IF c = Minus THEN IF st.phase # 1 THEN [st EXCEPT !.ok = FALSE]
                           ELSE [st EXCEPT !.sign = -1, !.phase = 2]
    ELSE IF c \notin Zero..Zero + 9 \/ st.phase = 2 THEN [st EXCEPT !.ok = FALSE]
    ELSE [st EXCEPT !.phase = 1, !.sum = @ + Wrap((c - Zero) * st.place),
                    !.place = Wrap(10 * @)]

\* FALSE for what is no number, Error for one that is too large.
TryParseInt(s, start, count) ==
    LET rc == ValidateRange(start, count, Len(s))
        st == S!FoldLeft(ParseChar, [phase |-> 0, sign |-> 1, sum |-> 0, place |-> 1, ok |-> TRUE],
                         S!Reverse(Substring(s, start, count)))
        n == st.sign * st.sum
    IN IF rc = Error \/ ~st.ok THEN <<FALSE>>
       ELSE IF n \in IntMin..IntMax THEN <<n>> ELSE <<Error>>

RECURSIVE Digits(_)
Digits(n) == IF n < 10 THEN <<Zero + n>> ELSE Digits(n \div 10) \o <<Zero + (n % 10)>>
\* __int_ToWBuffer: the smallest int has no negative and is written as it is.
IntToString(n) == IF n < 0 THEN <<Minus>> \o Digits(-n) ELSE Digits(n)

(***************************************************************************)
(* Paths.                                                                  *)
(***************************************************************************)
\* Where the extension begins, or -1: the last dot behind the last slash, neither the
\* first nor the last character.
findExtDot(p) == LET marks == {i \in 0..Len(p) - 1 : At(p, i) \in {Slash, Dot}}
                     i == F!Max(marks)
                 IN IF marks = {} THEN -1
                    ELSE IF At(p, i) = Slash \/ i \in {0, Len(p) - 1} THEN -1 ELSE i + 1
GetExtension(p) == Substring(p, findExtDot(p), 0)
ChangeExtension(p, ext) ==
    LET i == findExtDot(p)
        stem == IF i = -1 THEN p ELSE Substring(p, 0, i - 1)
    IN IF StartsWith(ext, <<Dot>>) THEN stem \o ext ELSE stem \o <<Dot>> \o ext
HasExtension(p, ext) ==
    LET i == findExtDot(p)
    IN i # -1 /\ Len(p) - i = Len(ext) /\ \A j \in 0..Len(ext) - 1 : At(p, i + j) = At(ext, j)
\* Mutant of Combine: always a separator.
CombineAlways(p, q) == p \o <<Slash>> \o q
Combine(p, q) == IF (p # <<>> /\ p[Len(p)] = Slash) \/ (q # <<>> /\ q[1] = Slash)
                 THEN p \o q ELSE p \o <<Slash>> \o q
LastSlash(p) == FindLastChar(p, Slash, 0, 0)
GetFileName(p) == IF LastSlash(p) = -1 THEN p
                  ELSE Substring(p, LastSlash(p) + 1, Len(p) - LastSlash(p) - 1)
GetParent(p) == IF LastSlash(p) \in {-1, 0} THEN <<Slash>> ELSE Substring(p, 0, LastSlash(p))

(***************************************************************************)
(* A string builder grows to twice its capacity and what is added.         *)
(***************************************************************************)
expandIfNeeded(n) ==
    LET cap == Len(m_chars)
    IN IF 4 * (m_count + n) >= 3 * cap
       THEN [i \in 1..2 * cap + n |-> IF i <= m_count THEN m_chars[i] ELSE Junk]
       ELSE m_chars

AppendPart(start, count) ==
    LET rc == ValidateRange(start, count, Len(other))
        wide == expandIfNeeded(rc)
    IN /\ kind = "builder" /\ start >= 0 /\ rc # Error /\ m_count + rc <= MaxText
       /\ m_chars' = [i \in DOMAIN wide |-> IF i > m_count /\ i <= m_count + rc
                                            THEN other[start + i - m_count] ELSE wide[i]]
       /\ m_count' = m_count + rc
       /\ promised' = promised \o SubSeq(other, start + 1, start + rc)
       /\ UNCHANGED <<kind, text, other>>

\* Insert: what lies behind the place moves before the string is copied.
InsertString(at) ==
    LET n == Len(other)
        wide == expandIfNeeded(n)
    IN /\ kind = "builder" /\ at \in 0..m_count /\ n > 0 /\ m_count + n <= MaxText
       /\ m_chars' = [i \in DOMAIN wide |->
              IF i <= at THEN wide[i]
              ELSE IF i <= at + n THEN other[i - at]
              ELSE IF i <= m_count + n THEN wide[i - n] ELSE wide[i]]
       /\ m_count' = m_count + n
       /\ promised' = SubSeq(promised, 1, at) \o other \o SubSeq(promised, at + 1, Len(promised))
       /\ UNCHANGED <<kind, text, other>>

\* A memcpy of ranges that may overlap, taken to move them as the C libraries do.
RemovePart(at, n) ==
    /\ kind = "builder" /\ at \in 0..m_count - 1 /\ n > 0 /\ at + n <= m_count
    /\ m_chars' = [i \in DOMAIN m_chars |->
                       IF i > at /\ i <= m_count - n THEN m_chars[i + n] ELSE m_chars[i]]
    /\ m_count' = m_count - n
    /\ promised' = SubSeq(promised, 1, at) \o SubSeq(promised, at + n + 1, Len(promised))
    /\ UNCHANGED <<kind, text, other>>

\* SetLength, which only shortens; Clear is SetLength(0).
SetLength(n) == /\ kind = "builder" /\ n \in 0..m_count
                /\ m_count' = n /\ promised' = SubSeq(promised, 1, n)
                /\ UNCHANGED <<kind, text, other, m_chars>>

Init == /\ kind \in {"search", "number", "path", "builder"}
        /\ text = <<>> /\ other = <<>>
        /\ m_chars = <<Junk, Junk>> /\ m_count = 0 /\ promised = <<>>

\* The texts grow by a character.
Alphabet == CASE kind = "number" -> Signs [] kind = "path" -> PathChars [] OTHER -> Letters
WriteText(c) == /\ kind # "builder" /\ Len(text) < MaxText /\ c \in Alphabet
                /\ text' = Append(text, c)
                /\ UNCHANGED <<kind, other, m_chars, m_count, promised>>
WriteOther(c) == /\ kind \in {"search", "builder"} /\ Len(other) < MaxOther /\ c \in Alphabet
                 /\ other' = Append(other, c)
                 /\ UNCHANGED <<kind, text, m_chars, m_count, promised>>

Next == \/ \E c \in Letters \cup Signs \cup PathChars : WriteText(c) \/ WriteOther(c)
        \/ \E i, j \in 0..MaxText : AppendPart(i, j) \/ RemovePart(i, j)
        \/ \E i \in 0..MaxText : InsertString(i) \/ SetLength(i)
Spec == Init /\ [][Next]_vars

-----------------------------------------------------------------------------
RECURSIVE Joined(_, _)
Joined(parts, del) == IF Len(parts) = 1 THEN parts[1]
                      ELSE parts[1] \o del \o Joined(Tail(parts), del)

\* Both searches find the first occurrence.
FindsFirst == kind = "search" => \A start \in 0..Len(text) - 1 :
    LET places == {i \in start..Len(text) - Len(other) : SubSeq(text, i + 1, i + Len(other)) = other}
        first == IF places = {} THEN -1 ELSE F!Min(places)
    IN other # <<>> => /\ FindSubstring(text, other, start) = first
                       /\ start = 0 => FindFirst(text, other) = first
\* The parts of a split, joined again, are the text; by a character, without the
\* delimiter that ends it.
SplitsJoin == kind = "search" =>
    /\ LET parts == Split(text, other)
       IN parts \in {Error, Forever} \/ Joined(parts, other) = text
    /\ \A c \in Letters : LET t == Joined(SplitChars(text, c, 0, <<>>), <<c>>)
                          IN text \in {t, Append(t, c)}

Blanks == {32, 9}
Unblank(s) == LET inner == {i \in 1..Len(s) : s[i] \notin Blanks}
              IN IF inner = {} THEN <<>> ELSE SubSeq(s, F!Min(inner), F!Max(inner))
Body == LET s == Unblank(text) IN IF s # <<>> /\ s[1] = Minus THEN Tail(s) ELSE s
IsNumber == Body # <<>> /\ \A i \in DOMAIN Body : Body[i] \in Zero..Zero + 9
Value == S!FoldLeft(LAMBDA n, c : 10 * n + c - Zero, 0, Body)
            * (IF Unblank(text)[1] = Minus THEN -1 ELSE 1)
\* A number that fits is read exactly; what is no number, blanks apart, is none.
ParsesNumbers == kind = "number" =>
    /\ IsNumber /\ Value \in IntMin..IntMax => TryParseInt(text, 0, 0) = <<Value>>
    /\ ~IsNumber => TryParseInt(text, 0, 0) = IF Unblank(text) = <<>> THEN <<0>> ELSE <<FALSE>>
\* Every int, written, is read again (said once, of the state where nothing is written).
NumbersRoundTrip == kind = "number" /\ text = <<>> => \A n \in IntMin..IntMax : TryParseInt(IntToString(n), 0, 0) = <<n>>

SingleSlashes == \A i \in 1..Len(text) - 1 : ~(text[i] = Slash /\ text[i + 1] = Slash)
\* A path is its parent and its file name; its extension put back is the path.
PathsRejoin == kind = "path" =>
    /\ LastSlash(text) # -1 /\ SingleSlashes => Combine(GetParent(text), GetFileName(text)) = text
    /\ findExtDot(text) # -1 => /\ ChangeExtension(text, GetExtension(text)) = text
                                /\ HasExtension(text, GetExtension(text))

BuilderHolds == SubSeq(m_chars, 1, m_count) = promised

StringsAreExact == /\ FindsFirst /\ SplitsJoin /\ ParsesNumbers /\ NumbersRoundTrip
                   /\ PathsRejoin /\ BuilderHolds

\* "Returns a string array that contains the substrings in this instance that are
\* delimited" (String.h:480): refuted, a delimiter at the end or none throws.
SplitReturns == kind = "search" => Split(text, other) \notin {Error, Forever}
\* "TODO return false on overflow!" (String.cpp:796): refuted, a product that does
\* not fit wraps and another number is returned.
LargeNumbersFail == kind = "number" /\ IsNumber /\ Value \notin IntMin..IntMax
                        => TryParseInt(text, 0, 0) = <<Error>>
\* "@throws EC_OUT_OF_RANGE start or count is less than zero" (String.h:215): refuted.
NegativeStartFails == kind = "search" => \A count \in 1..MaxText : Substring(text, -1, count) = Error
=============================================================================
