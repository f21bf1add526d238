------------------------------ MODULE Encodings ------------------------------
(***************************************************************************)
(* Conversions between UTF-16, which a CString holds, UTF-8 and UTF-32     *)
(* (src/src/String.cpp). All are strict: the lenient branches of the       *)
(* converters are never taken. A buffer of the code is a sequence of its   *)
(* length; what is not written to it is Junk.                              *)
(***************************************************************************)
EXTENDS Integers, Sequences
S == INSTANCE SequencesExt

CONSTANTS Units, Bytes,       \* code units and bytes at the boundaries of the ranges
          MaxUnits, MaxBytes, \* bounds: the lengths of the texts
          Junk

VARIABLES coding,             \* "utf16" or "utf8": what the text is made of
          chars               \* the text
vars == <<coding, chars>>

IsHigh(u) == u \in \hD800..\hDBFF
IsLow(u) == u \in \hDC00..\hDFFF
halfBase == \h10000

Outcome(result, out) == [result |-> result, out |-> out]
Room(out, n, size) == Len(out) + n <= size

(***************************************************************************)
(* From UTF-16: the character at i and the units it takes, or why there is *)
(* none.                                                                   *)
(***************************************************************************)
Character(s, i) ==
    IF IsHigh(s[i])
    THEN IF i = Len(s) THEN Outcome("sourceExhausted", <<>>)
         ELSE IF IsLow(s[i + 1])
         THEN Outcome("ok", <<(s[i] - \hD800) * 1024 + (s[i + 1] - \hDC00) + halfBase, 2>>)
         ELSE Outcome("sourceIllegal", <<>>)
    ELSE IF IsLow(s[i]) THEN Outcome("sourceIllegal", <<>>)
    ELSE Outcome("ok", <<s[i], 1>>)

RECURSIVE ConvertUTF16toUTF32(_, _, _, _)
ConvertUTF16toUTF32(s, i, out, size) ==
    LET c == Character(s, i) IN
    IF i > Len(s) THEN Outcome("ok", out)
    ELSE IF c.result # "ok" THEN Outcome(c.result, out)
    ELSE IF ~Room(out, 1, size) THEN Outcome("targetExhausted", out)
    ELSE ConvertUTF16toUTF32(s, i + c.out[2], Append(out, c.out[1]), size)

\* The buffer is as long as the text and one more; nothing marks the end of what was
\* written to it.
ToUtf32(s) == LET r == ConvertUTF16toUTF32(s, 1, <<>>, Len(s))
              IN IF r.result # "ok" THEN r
                 ELSE Outcome("ok", r.out \o [i \in 1..Len(s) + 1 - Len(r.out) |-> Junk])

bytesToWrite(c) == IF c < \h80 THEN 1 ELSE IF c < \h800 THEN 2
                   ELSE IF c < \h10000 THEN 3 ELSE 4
firstByteMark == <<0, \hC0, \hE0, \hF0>>
\* The bytes of a character, of which the last are written first.
RECURSIVE BytesOf(_, _)
BytesOf(c, n) == IF n = 1 THEN <<c>> ELSE Append(BytesOf(c \div 64, n - 1), \h80 + (c % 64))
Marked(bytes) == [bytes EXCEPT ![1] = @ + firstByteMark[Len(bytes)]]

RECURSIVE ConvertUTF16toUTF8(_, _, _, _)
ConvertUTF16toUTF8(s, i, out, size) ==
    LET c == Character(s, i)
        n == bytesToWrite(c.out[1])
    IN IF i > Len(s) THEN Outcome("ok", out)
       ELSE IF c.result # "ok" THEN Outcome(c.result, out)
       ELSE IF ~Room(out, n, size) THEN Outcome("targetExhausted", out)
       ELSE ConvertUTF16toUTF8(s, i + c.out[2], out \o Marked(BytesOf(c.out[1], n)), size)

ToUtf8(s) == ConvertUTF16toUTF8(s, 1, <<>>, Len(s) * 4 + 1)

(***************************************************************************)
(* From UTF-8.                                                             *)
(***************************************************************************)
trailingBytesForUTF8(b) == IF b < \hC0 THEN 0 ELSE IF b < \hE0 THEN 1
                           ELSE IF b < \hF0 THEN 2 ELSE IF b < \hF8 THEN 3
                           ELSE IF b < \hFC THEN 4 ELSE 5
offsetsFromUTF8 == <<0, \h3080, \hE2080, \h3C82080>>

\* Mutant of isLegalUTF8: what may follow a byte does not depend on it.
LegalByLength(s, i, n) ==
    /\ n <= 4
    /\ \A j \in i + 1..i + n - 1 : s[j] \in \h80..\hBF
    /\ ~(s[i] >= \h80 /\ s[i] < \hC2) /\ s[i] <= \hF4
\* n bytes from i on are a character. The bytes behind the first are checked, then, by
\* the first, the second.
isLegalUTF8(s, i, n) ==
    /\ n <= 4
    /\ \A j \in i + 1..i + n - 1 : s[j] \in \h80..\hBF
    /\ n > 1 => CASE s[i] = \hE0 -> s[i + 1] >= \hA0
                  [] s[i] = \hED -> s[i + 1] <= \h9F
                  [] s[i] = \hF0 -> s[i + 1] >= \h90
                  [] s[i] = \hF4 -> s[i + 1] <= \h8F
                  [] OTHER -> TRUE
    /\ ~(s[i] >= \h80 /\ s[i] < \hC2) /\ s[i] <= \hF4

\* The bytes as one number, less what their marks add to it.
Scalar(s, i, n) == S!FoldLeft(LAMBDA c, b : c * 64 + b, 0, SubSeq(s, i, i + n - 1))
                       - offsetsFromUTF8[n]
\* The code units of a character.
UnitsOf(c) == IF c < halfBase THEN <<c>>
              ELSE <<(c - halfBase) \div 1024 + \hD800, ((c - halfBase) % 1024) + \hDC00>>

RECURSIVE ConvertUTF8toUTF16(_, _, _, _)
ConvertUTF8toUTF16(s, i, out, size) ==
    LET n == trailingBytesForUTF8(s[i]) + 1
        c == Scalar(s, i, n)
    IN IF i > Len(s) THEN Outcome("ok", out)
       ELSE IF i + n - 1 > Len(s) THEN Outcome("sourceExhausted", out)
       ELSE IF ~isLegalUTF8(s, i, n) THEN Outcome("sourceIllegal", out)
       ELSE IF ~Room(out, Len(UnitsOf(c)), size) THEN Outcome("targetExhausted", out)
       ELSE IF c \in \hD800..\hDFFF \/ c > \h10FFFF THEN Outcome("sourceIllegal", out)
       ELSE ConvertUTF8toUTF16(s, i + n, out \o UnitsOf(c), size)

\* strlen: what is behind a zero is not read.
FromUtf8(s) == LET zeros == {i \in DOMAIN s : s[i] = 0}
                   end == CHOOSE i \in zeros : \A j \in zeros : i <= j
                   read == IF zeros = {} THEN s ELSE SubSeq(s, 1, end - 1)
               IN ConvertUTF8toUTF16(read, 1, <<>>, Len(read))

-----------------------------------------------------------------------------
Init == coding \in {"utf16", "utf8"} /\ chars = <<>>
\* The text grows by a unit.
Write(c) == /\ CASE coding = "utf16" -> c \in Units /\ Len(chars) < MaxUnits
                 [] coding = "utf8" -> c \in Bytes /\ Len(chars) < MaxBytes
            /\ chars' = Append(chars, c) /\ UNCHANGED coding
Next == \E c \in Units \cup Bytes : Write(c)
Spec == Init /\ [][Next]_vars

-----------------------------------------------------------------------------
\* Reference: the Unicode scalar values a text of units stands for, or none.
RECURSIVE Scalars(_)
Scalars(s) ==
    IF s = <<>> THEN <<>>
    ELSE IF IsHigh(s[1]) /\ Len(s) > 1 /\ IsLow(s[2])
    THEN <<halfBase + (s[1] % 1024) * 1024 + (s[2] % 1024)>> \o Scalars(SubSeq(s, 3, Len(s)))
    ELSE <<s[1]>> \o Scalars(Tail(s))
IsScalar(c) == c \in 0..\h10FFFF /\ c \notin \hD800..\hDFFF
WellFormed(s) == \A i \in DOMAIN Scalars(s) : IsScalar(Scalars(s)[i])

\* Reference: the UTF-8 form of a scalar value, from its bits.
Encode(c) == CASE c < 128 -> <<c>>
               [] c \in 128..2047 -> <<192 + c \div 64, 128 + (c % 64)>>
               [] c \in 2048..65535 -> <<224 + c \div 4096, 128 + ((c \div 64) % 64), 128 + (c % 64)>>
               [] OTHER -> <<240 + c \div 262144, 128 + ((c \div 4096) % 64),
                             128 + ((c \div 64) % 64), 128 + (c % 64)>>
\* The scalar value of which n bytes would be the form.
Bits(s, n) == LET lead == CASE n = 1 -> s[1] [] n = 2 -> s[1] % 32
                            [] n = 3 -> s[1] % 16 [] OTHER -> s[1] % 8
              IN S!FoldLeft(LAMBDA c, b : c * 64 + (b % 64), lead, SubSeq(s, 2, n))
RECURSIVE IsUtf8(_)
IsUtf8(s) == s = <<>> \/ \E n \in 1..4 :
    /\ n <= Len(s) /\ IsScalar(Bits(s, n)) /\ Encode(Bits(s, n)) = SubSeq(s, 1, n)
    /\ IsUtf8(SubSeq(s, n + 1, Len(s)))

\* A text that is well-formed, and no other, is converted: to the forms of its scalar
\* values, and back to itself unless it has a zero. No buffer is too small.
FromUtf16IsExact == coding = "utf16" =>
    LET utf8 == ToUtf8(chars)
        utf32 == ToUtf32(chars)
        n == Len(Scalars(chars))
    IN /\ utf8.result = "ok" <=> WellFormed(chars)
       /\ utf32.result = utf8.result /\ utf8.result # "targetExhausted"
       /\ WellFormed(chars) =>
              /\ utf8.out = S!FlattenSeq([i \in 1..n |-> Encode(Scalars(chars)[i])])
              /\ SubSeq(utf32.out, 1, n) = Scalars(chars)
              /\ 0 \notin S!ToSet(chars) => FromUtf8(utf8.out) = Outcome("ok", chars)
FromUtf8IsExact == coding = "utf8" /\ 0 \notin S!ToSet(chars) =>
    LET utf16 == FromUtf8(chars)
    IN /\ utf16.result = "ok" <=> IsUtf8(chars)
       /\ utf16.result # "targetExhausted"
       /\ IsUtf8(chars) => ToUtf8(utf16.out) = Outcome("ok", chars)
EncodingsAreExact == FromUtf16IsExact /\ FromUtf8IsExact
=============================================================================
