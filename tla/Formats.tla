------------------------------- MODULE Formats -------------------------------
(***************************************************************************)
(* Text made from a format and arguments: CString::Format                  *)
(* (src/src/String.cpp), STextBuilder, which the emitter and error texts   *)
(* are made with (src/src/TextBuilder.cpp), and escapes in string literals *)
(* (src/src/ScriptUtils.cpp). Characters are one-letter strings; an        *)
(* argument that no format changes is one element of the text.             *)
(***************************************************************************)
EXTENDS Integers, Sequences
S == INSTANCE SequencesExt
F == INSTANCE FiniteSetsExt

CONSTANTS MaskChars,   \* the characters of formats
          EscapeChars, \* the characters of literals
          MaxMask, MaxEscape, MaxBuilt, \* bounds: their lengths, and of what is built
          ConvSize,    \* SKIZO_CONVBUFFER_SIZE
          Error, Junk

VARIABLES kind,        \* "format", "escape" or "builder"
          text,        \* the format or the literal
          m_buffer,    \* the bytes of an STextBuilder
          promised     \* history: the text that its operations promise
vars == <<kind, text, m_buffer, promised>>

Percent == "%"
Types == {"d", "l", "f", "o", "s", "p"}
IntText == <<"-", "7">>              \* the text of every int that is an argument

(***************************************************************************)
(* CString::Format. Positions begin with 1.                                *)
(***************************************************************************)
Digit == [c \in {"0", "5"} |-> IF c = "0" THEN 0 ELSE 5]
\* CString::TryParseInt, without minus.
ParseInt(s) == LET inner == {i \in DOMAIN s : s[i] # " "}
                   body == SubSeq(s, F!Min(inner), F!Max(inner))
               IN IF inner = {} THEN 0
                  ELSE IF \A i \in DOMAIN body : body[i] \in DOMAIN Digit
                  THEN S!FoldLeft(LAMBDA n, c : 10 * n + Digit[c], 0, body) ELSE Error

Element(start, length, type, width, precision) ==
    [StartOffset |-> start, Length |-> length, Type |-> type, Width |-> width, Precision |-> precision]

\* Mutant of Extent: only what is between the mark and the letter.
ExtentInside(length) == length
\* The mark and the letter are in the element too.
Extent(length) == length + 2

\* What is between the mark and the letter is s[start..start + length - 1].
createElement(s, start, length, type) ==
    LET inside == SubSeq(s, start, start + length - 1)
        dots == {i \in DOMAIN inside : inside[i] = "."}
        dot == F!Min(dots)
        Made(width, precision) ==
            IF Error \in {width, precision} THEN Error
            ELSE Element(start - 1, Extent(length), type, width, precision)
    IN CASE length = 0 -> Made(0, 0)
         [] length > 0 /\ type \in {"d", "l"} ->
                IF inside[1] # "0" \/ length = 1 THEN Error ELSE Made(ParseInt(Tail(inside)), 0)
         [] length > 0 /\ type = "f" ->
                IF dots = {} THEN Error
                ELSE IF dot \in {1, length} THEN Error
                ELSE Made(ParseInt(SubSeq(inside, 1, dot - 1)),
                          ParseInt(SubSeq(inside, dot + 1, length)))
         [] OTHER -> Made(0, 0)

\* From i on. The letter is looked for up to the end of the text.
RECURSIVE GetStringFormatElements(_, _)
GetStringFormatElements(s, i) ==
    LET letters == {j \in i..Len(s) : s[j] \in Types}
        j == F!Min(letters)
        e == createElement(s, i + 1, j - i - 1, s[j])
    IN IF i > Len(s) THEN <<>>
       ELSE IF s[i] # Percent THEN GetStringFormatElements(s, i + 1)
       ELSE IF i < Len(s) /\ s[i + 1] = Percent THEN GetStringFormatElements(s, i + 2)
       ELSE IF letters = {} THEN GetStringFormatElements(s, i + 1)
       ELSE IF e = Error THEN GetStringFormatElements(s, i + 1)
       ELSE <<e>> \o GetStringFormatElements(s, j + 1)

Zeros(n) == [i \in 1..(IF n > 0 THEN n ELSE 0) |-> "0"]
\* The text of an argument.
Formatted(e) == CASE e.Type \in {"d", "l"} -> Zeros(e.Width - Len(IntText)) \o IntText
                  [] e.Type = "f" ->
                         <<<<"f", IF e.Width = 0 /\ e.Precision = 0 THEN 0 ELSE e.Precision>>>>
                  [] OTHER -> <<<<e.Type, 0>>>>

FormatImpl(s) ==
    LET es == GetStringFormatElements(s, 1)
        After(n) == IF n = 0 THEN 1 ELSE es[n].StartOffset + es[n].Length    \* lastIndex
        parts == [n \in 1..Len(es) |->
                      SubSeq(s, After(n - 1), es[n].StartOffset - 1) \o Formatted(es[n])]
    IN S!FlattenSeq(parts) \o SubSeq(s, After(Len(es)), Len(s))

(***************************************************************************)
(* Escapes.                                                                *)
(***************************************************************************)
Escapes == [c \in {"n", "t", "r", "\\"} |->
                CASE c = "n" -> "\n" [] c = "t" -> "\t" [] c = "r" -> "\r" [] OTHER -> "\\"]
RECURSIVE EscapeString(_)
EscapeString(s) ==
    IF s = <<>> THEN <<>>
    ELSE IF s[1] = "\\" /\ Len(s) > 1 /\ s[2] \in DOMAIN Escapes
    THEN <<Escapes[s[2]]>> \o EscapeString(SubSeq(s, 3, Len(s)))
    ELSE <<s[1]>> \o EscapeString(Tail(s))
UnescapeString(s) ==
    S!FlattenSeq([i \in DOMAIN s |-> CASE s[i] = "\n" -> <<"\\", "n">> [] s[i] = "\t" -> <<"\\", "t">>
                                       [] s[i] = "\r" -> <<"\\", "r">> [] OTHER -> <<s[i]>>])

(***************************************************************************)
(* STextBuilder. A name is a sequence of characters; "0" is the zero that  *)
(* Chars() adds.                                                           *)
(***************************************************************************)
Zero == "0"
Building == kind = "builder" /\ Len(m_buffer) < MaxBuilt

\* emitImpl of a format with one name in it, as "struct %s*". A name that does not fit
\* the conversion buffer is read after the buffer for it was deleted.
emitStringSlice(name) == IF Len(name) >= ConvSize THEN {name, [i \in DOMAIN name |-> Junk]}
                         ELSE {name}
Emit(name) ==
    /\ Building
    /\ \E bytes \in emitStringSlice(name) : m_buffer' = m_buffer \o <<"(">> \o bytes \o <<")">>
    /\ promised' = promised \o <<"(">> \o name \o <<")">>
    /\ UNCHANGED <<kind, text>>
\* Mutant of Prepend: what was there is lost.
PrependOver(name) ==
    /\ Building
    /\ \E bytes \in emitStringSlice(name) : m_buffer' = bytes
    /\ promised' = name \o promised /\ UNCHANGED <<kind, text>>
\* What was there is kept in m_tmpBuffer.
Prepend(name) ==
    /\ Building
    /\ \E bytes \in emitStringSlice(name) : m_buffer' = bytes \o m_buffer
    /\ promised' = name \o promised /\ UNCHANGED <<kind, text>>
Clear == /\ kind = "builder" /\ m_buffer' = <<>> /\ promised' = <<>> /\ UNCHANGED <<kind, text>>
\* ToString() and ClearFormat() call it. An empty buffer is read before its beginning.
Chars == /\ Building /\ m_buffer # <<>>
         /\ m_buffer' = IF S!Last(m_buffer) = Zero THEN m_buffer ELSE Append(m_buffer, Zero)
         /\ UNCHANGED <<kind, text, promised>>

Init == /\ kind \in {"format", "escape", "builder"}
        /\ text = <<>> /\ m_buffer = <<>> /\ promised = <<>>
Write(c) == /\ \/ kind = "format" /\ c \in MaskChars /\ Len(text) < MaxMask
               \/ kind = "escape" /\ c \in EscapeChars /\ Len(text) < MaxEscape
            /\ text' = Append(text, c) /\ UNCHANGED <<kind, m_buffer, promised>>
Names == {<<"a">>, <<"a", "b">>}
Next == \/ \E c \in MaskChars \cup EscapeChars : Write(c)
        \/ \E name \in Names : Emit(name) \/ Prepend(name)
        \/ Clear \/ Chars
Spec == Init /\ [][Next]_vars

-----------------------------------------------------------------------------
\* Reference: the text read from the left, a mask or a character at a time.
RECURSIVE Reading(_)
Reading(s) ==
    LET ends == {j \in 2..Len(s) : s[j] \in Types}
        end == F!Min(ends)
        e == createElement(s, 2, end - 2, s[end])
    IN IF s = <<>> THEN <<>>
       ELSE IF Len(s) > 1 /\ s[1] = Percent /\ s[2] = Percent
            THEN <<Percent, Percent>> \o Reading(SubSeq(s, 3, Len(s)))
       ELSE IF s[1] = Percent /\ ends # {} /\ (ends # {} => e # Error)
            THEN Formatted(e) \o Reading(SubSeq(s, end + 1, Len(s)))
       ELSE <<s[1]>> \o Reading(Tail(s))
\* Masks are replaced, each by its argument, and everything else stays, in order; an
\* int is as wide as its mask says.
FormatsReplaceMasks == kind = "format" =>
    /\ FormatImpl(text) = Reading(text)
    /\ \A i \in DOMAIN GetStringFormatElements(text, 1) :
           LET e == GetStringFormatElements(text, 1)[i]
           IN text[e.StartOffset] = Percent /\ text[e.StartOffset + e.Length - 1] = e.Type
\* Escaping what was unescaped gives it back, when it has no backslash.
EscapesInvert == kind = "escape" =>
    ("\\" \notin S!ToSet(text) => EscapeString(UnescapeString(text)) = text)
\* What was emitted and prepended is there, unless a name was too long or the text was
\* read in between.
BuilderHolds == kind = "builder" =>
    Junk \in S!ToSet(m_buffer) \/ SelectSeq(m_buffer, LAMBDA c : c # Zero) = promised
FormatsAreExact == FormatsReplaceMasks /\ EscapesInvert /\ BuilderHolds

\* "Double '%%' is translated to a single '%'" (String.h:404): refuted, both stay.
PercentIsTranslated ==
    (kind = "format" /\ text = <<Percent, Percent>>) => FormatImpl(text) = <<Percent>>
\* "Supported masks" (String.h:394): refuted, "% s" is one too, and takes an argument.
OnlySupportedMasks == kind = "format" =>
    \A i \in DOMAIN GetStringFormatElements(text, 1) :
        LET e == GetStringFormatElements(text, 1)[i]
        IN e.Length > 2 => e.Type \in {"d", "l", "f"}
\* Refuted for names of ConvSize characters and more (TextBuilder.cpp:emitStringSlice).
LongNamesAreEmitted == Junk \notin S!ToSet(m_buffer)
\* Refuted: what is emitted after the text was read is behind a zero (TextBuilder::Chars).
TextGrowsAfterChars == \A i \in DOMAIN m_buffer : m_buffer[i] = Zero => i = Len(m_buffer)
=============================================================================
