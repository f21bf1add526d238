------------------------------ MODULE Tokenizer ------------------------------
(***************************************************************************)
(* Tokenizer::Tokenize: one pass over the text of a module. A token ends   *)
(* where the type of the character changes, unless the token is a          *)
(* composite one (an identifier with digits, a float literal, "==").       *)
(*                                                                         *)
(* A character stands for its kind: "a" a letter, "1" a digit, " " white   *)
(* space, ";" any operator without a role of its own, "q" the double quote,*)
(* for which single quotes and @ stand as well.                            *)
(***************************************************************************)
EXTENDS Naturals, Sequences, FiniteSets, SequencesExt

CONSTANTS Chars,        \* the characters a text is made of
          MaxLength     \* bound: the length of a text

VARIABLES text,      \* the characters read; all but the last are processed
          ended,     \* the text is complete
          scan,      \* the locals of the loop
          tokens     \* r: [from, to, kind]
vars == <<text, ended, scan, tokens>>

Digit(c) == c = "1"
getCharType(c) == CASE c = "a" -> "letter"
                    [] Digit(c) -> "digit"
                    [] c = " " -> "whitespace"
                    [] OTHER -> "punctuation"

Init == /\ text = <<>> /\ ended = FALSE
        /\ scan = [mode |-> "code",      \* "code", "quote", "comment" or "failed"
                   skip |-> FALSE,       \* i++ inside the loop
                   type |-> "none",      \* prevType
                   char |-> "none",      \* prevC
                   from |-> 1,           \* prevCharIndex
                   composite |-> "none"] \* compositeToken
        /\ tokens = <<>>

\* A minus in front of a digit belongs to it.
TypeAt(c, next) == IF c = "-" /\ Digit(next) THEN "digit" ELSE getCharType(c)

Composite(c, type) ==
    CASE scan.type = "digit" /\ c = "." -> "float"
      [] scan.type = "letter" /\ type = "digit" -> "identifier"
      [] scan.composite = "none" \/ type \in {"punctuation", "whitespace"} -> "none"
      [] OTHER -> scan.composite
BadFloat(c, type) == /\ Composite(c, type) = "float" /\ scan.composite = "float"
                     /\ ~(scan.type = "digit" /\ c = ".") /\ type # "digit"

IsCompositeOp(c, d) == c = "=" /\ d = "="

\* Mutant of GreenLight: any two operators in a row are one token.
GreenLightByType(c, type) == Composite(c, type) = "none" /\ scan.type # type
GreenLight(c, type) ==
    /\ Composite(c, type) = "none"
    /\ scan.type # type \/ (scan.type = "punctuation" /\ ~IsCompositeOp(scan.char, c))

\* createToken for the characters from scan.from to i - 1; "bad" is a failure.
Kind(i) ==
    LET word == SubSeq(text, scan.from, i - 1)
    IN CASE Len(word) >= 2 /\ word[1] = "q" -> "string"
         [] scan.composite # "none" -> scan.composite
         [] scan.type = "digit"  -> "int"
         [] scan.type = "letter" -> "identifier"
         [] Len(word) = 3 -> IF word = <<"=", "=", "=">> THEN "identity" ELSE "bad"
         [] Len(word) = 2 -> IF word = <<"=", "=">> THEN "equals" ELSE "bad"
         [] Len(word) = 1 -> "operator"
         [] OTHER -> "bad"
IsToken == scan.type \notin {"whitespace", "none"}

Failed == scan' = [scan EXCEPT !.mode = "failed"] /\ UNCHANGED tokens

\* The loop's body below the special modes, for character c at i.
Code(i, c, next) ==
    LET type == TypeAt(c, next)
        green == GreenLight(c, type)
    IN IF BadFloat(c, type) \/ (green /\ IsToken /\ Kind(i) = "bad") THEN Failed
       ELSE /\ tokens' = IF green /\ IsToken
                         THEN Append(tokens, [from |-> scan.from, to |-> i - 1, kind |-> Kind(i)])
                         ELSE tokens
            /\ scan' = [scan EXCEPT !.mode = IF green /\ c = "q" THEN "quote" ELSE "code",
                                    !.type = type, !.char = c,
                                    !.from = IF green THEN i ELSE @,
                                    !.composite = Composite(c, type)]

Skip == UNCHANGED tokens /\ scan' = [scan EXCEPT !.skip = FALSE]
Quote(c) == UNCHANGED tokens /\ scan' = [scan EXCEPT !.mode = IF c = "q" THEN "code" ELSE "quote"]
Comment(c, next) ==
    /\ UNCHANGED tokens
    /\ scan' = IF c = "*" /\ next = "/" THEN [scan EXCEPT !.mode = "code", !.skip = TRUE] ELSE scan
\* Mutant of OpensComment: the asterisk is looked at again.
OpensCommentUnskipped == UNCHANGED tokens /\ scan' = [scan EXCEPT !.mode = "comment"]
OpensComment == UNCHANGED tokens /\ scan' = [scan EXCEPT !.mode = "comment", !.skip = TRUE]

Process(i, c, next) ==
    \/ scan.skip /\ Skip
    \/ ~scan.skip /\ scan.mode = "quote" /\ Quote(c)
    \/ ~scan.skip /\ scan.mode = "comment" /\ Comment(c, next)
    \/ ~scan.skip /\ scan.mode = "code" /\ c = "/" /\ next = "*" /\ OpensComment
    \/ ~scan.skip /\ scan.mode = "code" /\ ~(c = "/" /\ next = "*") /\ Code(i, c, next)

\* The text goes on with c, so that the character before can be processed.
Read(c) ==
    /\ ~ended /\ scan.mode # "failed" /\ Len(text) < MaxLength
    /\ text' = Append(text, c)
    /\ IF text = <<>> THEN UNCHANGED <<scan, tokens>> ELSE Process(Len(text), Last(text), c)
    /\ UNCHANGED ended

\* The text ends: the last character, then a white space the loop adds, which
\* ends the last token, then the checks behind the loop.
ReadLast ==
    /\ ~ended /\ scan.mode # "failed" /\ text # <<>> /\ Last(text) # "end"
    /\ text' = Append(text, "end")
    /\ Process(Len(text), Last(text), "none")
    /\ UNCHANGED ended
Tokenize ==
    /\ ~ended /\ text # <<>> /\ Last(text) = "end" /\ ended' = TRUE
    /\ CASE scan.mode = "quote"  -> Failed
         [] scan.mode = "code"   -> Code(Len(text), " ", "none")
         [] OTHER -> UNCHANGED <<scan, tokens>>
    /\ UNCHANGED text

Next == (\E c \in Chars : Last(<<"none">> \o text) # "end" /\ Read(c)) \/ ReadLast \/ Tokenize
Spec == Init /\ [][Next]_vars

-----------------------------------------------------------------------------
\* What each character of a text is, read from the left: white space, part of a
\* comment, of a string, or code.
Source == Front(text)
Roles == LET \* the role of character i, and what the next one continues
             R[i \in 0..Len(Source)] ==
                IF i = 0 THEN [role |-> "space", inside |-> "code"]
                ELSE LET c == Source[i]
                         before == R[i - 1].inside
                         follows(d) == i < Len(Source) /\ Source[i + 1] = d
                     IN CASE before = "string"  -> [role |-> "string",
                                                     inside |-> IF c = "q" THEN "code" ELSE "string"]
                          [] before = "opening" -> [role |-> "comment", inside |-> "comment"]
                          [] before = "closing" -> [role |-> "comment", inside |-> "code"]
                          [] before = "comment" -> [role |-> "comment",
                                                    inside |-> IF c = "*" /\ follows("/") THEN "closing"
                                                                ELSE "comment"]
                          [] c = "/" /\ follows("*") -> [role |-> "comment", inside |-> "opening"]
                          [] c = "q" -> [role |-> "opens", inside |-> "string"]
                          [] c = " " -> [role |-> "space", inside |-> "code"]
                          [] OTHER   -> [role |-> "code", inside |-> "code"]
         IN [i \in 1..Len(Source) |-> R[i].role]

Complete == ended /\ scan.mode \notin {"failed"}
Within(t) == t.from..t.to

\* Every character that is no white space and no comment is in one token, the
\* tokens are in the order of the text, a string is a token of its own and no
\* token runs on over white space or over the start of a string.
CoverTheText ==
    /\ UNION {Within(tokens[k]) : k \in DOMAIN tokens}
           = {i \in DOMAIN Source : Roles[i] \notin {"space", "comment"}}
    /\ \A k \in DOMAIN tokens : LET t == tokens[k] IN
          /\ t.from <= t.to
          /\ k > 1 => tokens[k - 1].to < t.from
          /\ (t.kind = "string") = (Roles[t.from] = "opens")
          /\ t.kind = "string" => \A i \in (t.from + 1)..t.to : Roles[i] = "string"
          /\ t.kind # "string" => \A i \in Within(t) : Roles[i] = "code"

\* Comments may stand wherever white space may.
CommentsSeparate == Complete => CoverTheText

\* What holds: so it is where no comment follows a token immediately.
TokensCoverTheText ==
    Complete /\ (\A i \in DOMAIN Source :
                    i > 1 /\ Roles[i] = "comment" => Roles[i - 1] \in {"space", "comment"})
        => CoverTheText
=============================================================================
