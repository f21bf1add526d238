------------------------------ MODULE Templates ------------------------------
(***************************************************************************)
(* Templates (src/src/Template.cpp): a text with placeholders in braces is *)
(* read once, for a class, into parts; Render writes the parts, for an     *)
(* object, into a string builder that the template keeps. A placeholder is *)
(* a sequence of words: a method of the class, or a number or a quoted     *)
(* text for its method "get", then a method of what that returns, and so   *)
(* on. toString of what comes out is code of the program, which may abort  *)
(* and may render with the same template again.                            *)
(***************************************************************************)
EXTENDS Integers, Sequences
S == INSTANCE SequencesExt

CONSTANTS SourceChars, MaxSource,  \* the characters of templates; bound: their number
          Results,                 \* the class a method returns, by class and word
          MaxRenders,              \* bound: renders at a time
          Aborted

VARIABLES kind,     \* "source" or "render"
          text,     \* the source of a template
          m_sb,     \* the string builder
          frames,   \* the renders that are going on: the next part, what the parts
                    \* before it gave, and whether there was another at a time
          rendered  \* history: the last render that ended
vars == <<kind, text, m_sb, frames, rendered>>

Quote == "'"
(***************************************************************************)
(* The words of a placeholder.                                             *)
(***************************************************************************)
SplitAt(s, st, i) ==
    LET c == s[i]
        word == SubSeq(s, st.last, i - 1)
    IN IF st.words = Aborted THEN st
       ELSE IF ~st.quote /\ c = " "
       THEN [st EXCEPT !.words = IF word = <<>> THEN @ ELSE Append(@, word), !.last = i + 1]
       ELSE IF c # Quote THEN st
       ELSE IF ~st.quote /\ i > 1 /\ s[i - 1] # " " THEN [st EXCEPT !.words = Aborted]
       ELSE IF st.quote /\ i < Len(s) /\ s[i + 1] # " " THEN [st EXCEPT !.words = Aborted]
       ELSE [st EXCEPT !.quote = ~@]
split(s) ==
    LET st == S!FoldLeft(LAMBDA x, i : SplitAt(s, x, i), [last |-> 1, quote |-> FALSE, words |-> <<>>],
                         [i \in 1..Len(s) |-> i])
    IN IF st.words = Aborted \/ st.quote THEN Aborted
       ELSE IF st.last <= Len(s) THEN Append(st.words, SubSeq(s, st.last, Len(s))) ELSE st.words

IsInt(w) == \A i \in DOMAIN w : w[i] = "4"
IsQuoted(w) == /\ Len(w) >= 3 /\ w[1] = Quote /\ S!Last(w) = Quote
               /\ \A i \in 2..Len(w) - 1 : w[i] # Quote
\* What a word means: an argument of "get" or the name of a method.
Called(w) == IF IsInt(w) THEN "get int" ELSE IF IsQuoted(w) THEN "get string"
             ELSE IF w = <<"a">> THEN "a" ELSE "other"
\* The class the words lead to from a class.
ClassOf(words, class) ==
    S!FoldLeft(LAMBDA c, w : IF c = Aborted THEN Aborted
                             ELSE IF <<c, Called(w)>> \in DOMAIN Results THEN Results[c, Called(w)]
                             ELSE Aborted,
               class, words)

(***************************************************************************)
(* The parts of a template: <<"text", characters>> or <<"object", words>>. *)
(***************************************************************************)
addObjectPart(parts, literal, class) ==
    LET words == split(literal)
    IN IF words = Aborted THEN Aborted
       ELSE IF words = <<>> \/ ClassOf(words, class) = Aborted THEN Aborted
       ELSE Append(parts, <<"object", words>>)

\* Mutant of ReadChar: a brace that closes nothing is text.
ReadCharLoosely(s, st, i, class) ==
    LET literal == SubSeq(s, st.last, i - 1)
    IN IF st.parts = Aborted THEN st
       ELSE IF s[i] = "{" /\ st.static
       THEN [parts |-> IF literal = <<>> THEN st.parts ELSE Append(st.parts, <<"text", literal>>),
             static |-> FALSE, last |-> i + 1]
       ELSE IF s[i] = "}" /\ ~st.static
       THEN [parts |-> addObjectPart(st.parts, literal, class), static |-> TRUE, last |-> i + 1]
       ELSE st
ReadChar(s, st, i, class) ==
    LET literal == SubSeq(s, st.last, i - 1)
    IN IF st.parts = Aborted THEN st
       ELSE IF s[i] = "{"
       THEN IF ~st.static THEN [st EXCEPT !.parts = Aborted]
            ELSE [parts |-> IF literal = <<>> THEN st.parts ELSE Append(st.parts, <<"text", literal>>),
                  static |-> FALSE, last |-> i + 1]
       ELSE IF s[i] = "}"
       THEN IF st.static \/ literal = <<>> THEN [st EXCEPT !.parts = Aborted]
            ELSE [parts |-> addObjectPart(st.parts, literal, class), static |-> TRUE, last |-> i + 1]
       ELSE st
CreateForClass(s, class) ==
    LET st == S!FoldLeft(LAMBDA x, i : ReadChar(s, x, i, class),
                         [parts |-> <<>>, static |-> TRUE, last |-> 1], [i \in 1..Len(s) |-> i])
    IN IF st.parts = Aborted \/ ~st.static THEN Aborted
       ELSE IF st.last <= Len(s) THEN Append(st.parts, <<"text", SubSeq(s, st.last, Len(s))>>)
       ELSE st.parts

(***************************************************************************)
(* Rendering with the template "A{a}B".                                    *)
(***************************************************************************)
Parts == <<"A", "{a}", "B">>
Top == frames[Len(frames)]
SetTop(f) == [frames EXCEPT ![Len(frames)] = f]
\* Code of the program runs, not a part of a render.
Idle == frames # <<>> => Top.part = 2
None == [text |-> <<>>, promised |-> <<>>, alone |-> TRUE]

\* Render; while another runs, from the toString that it called.
Render == /\ kind = "render" /\ Idle /\ Len(frames) < MaxRenders
          /\ frames' = Append([i \in DOMAIN frames |-> [frames[i] EXCEPT !.alone = FALSE]],
                              [part |-> 1, promised |-> <<>>, alone |-> frames = <<>>])
          /\ UNCHANGED <<kind, text, m_sb, rendered>>
Output(out) == /\ m_sb' = m_sb \o out
               /\ frames' = SetTop([Top EXCEPT !.part = @ + 1, !.promised = @ \o out])
               /\ UNCHANGED <<kind, text, rendered>>
StaticPart == frames # <<>> /\ Top.part \in {1, 3} /\ Output(<<Parts[Top.part]>>)
\* toString returns a text, or null, which is no text.
DynamicPart == frames # <<>> /\ Top.part = 2 /\ \E out \in {<<"o">>, <<>>} : Output(out)
\* Mutant of RenderAborts: the builder is left as it is.
RenderAbortsDirty(n) == /\ n \in 1..Len(frames) /\ Idle
                        /\ frames' = SubSeq(frames, 1, Len(frames) - n)
                        /\ UNCHANGED <<kind, text, m_sb, rendered>>
\* toString, or a method before it, aborts. The exception leaves the innermost n
\* renders, up to a Domain::try in a toString or outside.
RenderAborts(n) == /\ n \in 1..Len(frames) /\ Idle
                   /\ m_sb' = <<>> /\ frames' = SubSeq(frames, 1, Len(frames) - n)
                   /\ UNCHANGED <<kind, text, rendered>>
EndRender == /\ frames # <<>> /\ Top.part = 4
             /\ rendered' = [text |-> m_sb, promised |-> Top.promised, alone |-> Top.alone]
             /\ m_sb' = <<>> /\ frames' = S!Front(frames)
             /\ UNCHANGED <<kind, text>>

Init == /\ kind \in {"source", "render"}
        /\ text = <<>> /\ m_sb = <<>> /\ frames = <<>> /\ rendered = None
Write(c) == /\ kind = "source" /\ Len(text) < MaxSource
            /\ text' = Append(text, c) /\ UNCHANGED <<kind, m_sb, frames, rendered>>
Next == \/ \E c \in SourceChars : Write(c)
        \/ Render \/ StaticPart \/ DynamicPart \/ EndRender
        \/ \E n \in 1..MaxRenders : RenderAborts(n)
Spec == Init /\ [][Next]_vars

-----------------------------------------------------------------------------
\* Reference: the places of braces, and of the blanks that part words.
Braces == SelectSeq([i \in DOMAIN text |-> i], LAMBDA i : text[i] \in {"{", "}"})
Alternate == /\ Len(Braces) % 2 = 0
             /\ \A n \in DOMAIN Braces : text[Braces[n]] = IF n % 2 = 1 THEN "{" ELSE "}"
Quotes(s, i) == Len(SelectSeq(SubSeq(s, 1, i), LAMBDA c : c = Quote))
\* The words, each followed by one blank.
Squeezed(s) ==
    LET Parting(i) == s[i] = " " /\ Quotes(s, i) % 2 = 0
        kept == SelectSeq([i \in DOMAIN s |-> i],
                          LAMBDA i : ~Parting(i) \/ (i < Len(s) /\ ~Parting(i + 1)))
        chars == [j \in DOMAIN kept |-> s[kept[j]]]
    IN IF chars # <<>> /\ chars[1] = " " THEN Tail(chars) ELSE chars
Written(part) == IF part[1] = "text" THEN part[2]
                 ELSE <<"{">> \o S!FlattenSeq([i \in DOMAIN part[2] |->
                                  IF i = 1 THEN part[2][i] ELSE <<" ">> \o part[2][i]]) \o <<"}">>
\* The text with single blanks in its placeholders.
Normal == LET n == Len(Braces)
              At(k) == IF k = 0 THEN 0 ELSE IF k > n THEN Len(text) + 1 ELSE Braces[k]
              Between(k) == SubSeq(text, At(k) + 1, At(k + 1) - 1)
          IN S!FlattenSeq([k \in 1..n + 1 |->
                 IF k % 2 = 1 THEN Between(k - 1)
                 ELSE <<"{">> \o Squeezed(Between(k - 1)) \o <<"}">>])
\* A template is what its source says: its parts, written out, are the source, blanks
\* in placeholders apart, and braces that do not match are refused.
PartsAreTheSource == kind = "source" =>
    LET parts == CreateForClass(text, "P")
    IN /\ parts # Aborted =>
          Alternate /\ S!FlattenSeq([i \in DOMAIN parts |-> Written(parts[i])]) = Normal
       /\ parts # Aborted => \A i \in DOMAIN parts : parts[i][2] # <<>>
       /\ Braces = <<>> => parts # Aborted
\* A render that is not interleaved with another of the same template gives what its
\* parts gave, whatever aborted before it.
RendersAreWhole == rendered.alone => rendered.text = rendered.promised
TemplatesRender == PartsAreTheSource /\ RendersAreWhole

\* "render a Skizo object to a string using template information" (Template.h): refuted
\* when the toString of the object renders with the same template, as that of a tree
\* might: the builder is shared.
NestedRendersAreWhole == rendered.text = rendered.promised
=============================================================================
