------------------------------ MODULE MCLibrary -------------------------------
(***************************************************************************)
(* What everything else is built from, and how a text is read: each        *)
(* behaviour exercises one part, and the variables of the others keep the  *)
(* value Off.                                                              *)
(*                                                                         *)
(*   "tables"     hash maps, ordered maps and pointer sets, enumerated     *)
(*                while they change                                        *)
(*   "lists"      arrays, stacks and linked lists                          *)
(*   "strings"    searches, numbers, paths and builders over all short     *)
(*                texts                                                    *)
(*   "encodings"  all short texts of units and bytes at the boundaries     *)
(*   "formats"    all short formats and escapes, and the text builder      *)
(*   "streams"    all short files, and streams that are written, read and   *)
(*                moved in                                               *)
(*   "templates"  all short templates, and renders inside renders          *)
(*   "tokens"     all texts of up to five characters                       *)
(*   "body"       all method bodies of up to seven tokens                  *)
(***************************************************************************)
EXTENDS Naturals, Sequences, FiniteSets

CONSTANTS Keys, Values, Capacities, MaxChanges,                       \* of Tables
          Items, Nodes, Null, MaxItems,                               \* of Lists
          Letters, Signs, PathChars, MaxText, MaxOther, IntBits,
          Error, Forever,                                             \* of Strings
          Units, Bytes, MaxUnits, MaxBytes,                           \* of Encodings
          MaskChars, EscapeChars, MaxMask, MaxEscape, MaxBuilt,
          ConvSize,                                                   \* of Formats
          SourceChars, MaxSource, MaxRenders, Results, Aborted,        \* of Templates
          MaxFile, MaxMoves, MaxWritten, BufSize, WordSize, DefaultCap,
          ByteSize, Utf16BufSize, Unwritten,                          \* of Streams
          CodeChars, MaxLength,                                       \* of Tokenizer
          Tokens, MaxTokens,                                          \* of MethodBody
          Junk, Off

\* The class that the methods of the templates return, by class and word.
ResultClasses == [p \in {<<"P", "a">>, <<"P", "get string">>, <<"P", "get int">>} |->
                     IF p[2] = "get int" THEN "V" ELSE "P"]

\* What can follow a backslash, what it stands for, and a character that cannot.
Escapable == {"n", "t", "\\", "\n", "\t", "x"}

VARIABLES which, kind, text, promised,                                \* common
          m_buckets, m_size, m_threshold, m_modCount, m_list, enum, changes,
          m_items, m_count, spilled, m_first, m_last, next, prev, value, itemRefs,
          other, m_chars, coding, chars, m_buffer, m_sb, frames, rendered,
          medium, m_bytes, m_position, m_cap, m_byteOrder, knownSize, turned,
          m_lineNumber, lines, got, copy, wrote, answers, moves,
          ended, scan, tokens,
          read, awaited, call, callStack, body, bodyStack, result

tablesVars    == <<m_buckets, m_size, m_threshold, m_modCount, m_list, enum, changes>>
listsVars     == <<m_items, spilled, m_first, m_last, next, prev, value, itemRefs>>
stringsVars   == <<other, m_chars>>
encodingsVars == <<coding, chars>>
templatesVars == <<m_sb, frames, rendered>>
streamsVars   == <<medium, m_bytes, m_position, m_cap, m_byteOrder, knownSize, turned,
                   m_lineNumber, lines, got, copy, wrote, answers, moves>>
tokensVars    == <<ended, scan, tokens>>
bodyVars      == <<read, awaited, call, callStack, body, bodyStack, result>>
readVars      == <<tokensVars, bodyVars>>
allVars == <<which, kind, text, promised, m_count, tablesVars, listsVars, stringsVars,
             encodingsVars, m_buffer, templatesVars, streamsVars, readVars>>

T == INSTANCE Tables
L == INSTANCE Lists WITH refs <- itemRefs
S == INSTANCE Strings
E == INSTANCE Encodings
F == INSTANCE Formats
P == INSTANCE Templates
B == INSTANCE Streams
C == INSTANCE Tokenizer WITH Chars <- CodeChars
M == INSTANCE MethodBody

NoTables == /\ m_buckets = Off /\ m_size = Off /\ m_threshold = Off /\ m_modCount = Off
            /\ m_list = Off /\ enum = Off /\ changes = Off
NoLists == /\ m_items = Off /\ spilled = Off /\ m_first = Off /\ m_last = Off
           /\ next = Off /\ prev = Off /\ value = Off /\ itemRefs = Off
NoStrings == other = Off /\ m_chars = Off
NoEncodings == coding = Off /\ chars = Off
NoStreams == /\ medium = Off /\ m_bytes = Off /\ m_position = Off /\ m_cap = Off
             /\ m_byteOrder = Off /\ knownSize = Off /\ turned = Off /\ m_lineNumber = Off
             /\ lines = Off /\ got = Off /\ copy = Off /\ wrote = Off /\ answers = Off
             /\ moves = Off
NoTemplates == m_sb = Off /\ frames = Off /\ rendered = Off
NoTokens == ended = Off /\ scan = Off /\ tokens = Off
NoBody == /\ read = Off /\ awaited = Off /\ call = Off /\ callStack = Off /\ body = Off
          /\ bodyStack = Off /\ result = Off
NothingRead == NoTokens /\ NoBody
NothingKept == /\ kind = Off /\ promised = Off /\ m_count = Off /\ m_buffer = Off
               /\ NoTables /\ NoLists /\ NoStrings /\ NoEncodings /\ NoTemplates /\ NoStreams

MCInit ==
    \/ /\ which = "tables" /\ T!Init /\ text = Off /\ m_count = Off /\ m_buffer = Off
       /\ NoLists /\ NoStrings /\ NoEncodings /\ NoTemplates /\ NoStreams
       /\ NothingRead
    \/ /\ which = "lists" /\ L!Init /\ text = Off /\ m_buffer = Off
       /\ NoTables /\ NoStrings /\ NoEncodings /\ NoTemplates /\ NoStreams
       /\ NothingRead
    \/ /\ which = "strings" /\ S!Init /\ m_buffer = Off
       /\ NoTables /\ NoLists /\ NoEncodings /\ NoTemplates /\ NoStreams
       /\ NothingRead
    \/ /\ which = "encodings" /\ E!Init /\ kind = Off /\ text = Off /\ promised = Off
       /\ m_count = Off /\ m_buffer = Off
       /\ NoTables /\ NoLists /\ NoStrings /\ NoTemplates /\ NoStreams
       /\ NothingRead
    \/ /\ which = "formats" /\ F!Init /\ m_count = Off
       /\ NoTables /\ NoLists /\ NoStrings /\ NoEncodings /\ NoTemplates /\ NoStreams
       /\ NothingRead
    \/ /\ which = "templates" /\ P!Init /\ promised = Off /\ m_count = Off /\ m_buffer = Off
       /\ NoTables /\ NoLists /\ NoStrings /\ NoEncodings /\ NoStreams
       /\ NothingRead
    \/ /\ which = "streams" /\ B!Init /\ kind = Off /\ text = Off /\ promised = Off
       /\ m_count = Off /\ m_buffer = Off
       /\ NoTables /\ NoLists /\ NoStrings /\ NoEncodings /\ NoTemplates
       /\ NothingRead
    \/ which = "tokens" /\ C!Init /\ NothingKept /\ NoBody
    \/ which = "body" /\ M!Init /\ NothingKept /\ text = Off /\ NoTokens

MCNext ==
    /\ \/ /\ which = "tables" /\ T!Next
          /\ UNCHANGED <<text, m_count, listsVars, stringsVars, encodingsVars, m_buffer,
                         templatesVars, streamsVars, readVars>>
       \/ /\ which = "lists" /\ L!Next
          /\ UNCHANGED <<text, tablesVars, stringsVars, encodingsVars, m_buffer,
                         templatesVars, streamsVars, readVars>>
       \/ /\ which = "strings" /\ S!Next
          /\ UNCHANGED <<tablesVars, listsVars, encodingsVars, m_buffer, templatesVars,
                         streamsVars, readVars>>
       \/ /\ which = "encodings" /\ E!Next
          /\ UNCHANGED <<kind, text, promised, m_count, tablesVars, listsVars, stringsVars,
                         m_buffer, templatesVars, streamsVars, readVars>>
       \/ /\ which = "formats" /\ F!Next
          /\ UNCHANGED <<m_count, tablesVars, listsVars, stringsVars, encodingsVars,
                         templatesVars, streamsVars, readVars>>
       \/ /\ which = "templates" /\ P!Next
          /\ UNCHANGED <<promised, m_count, tablesVars, listsVars, stringsVars,
                         encodingsVars, m_buffer, streamsVars, readVars>>
       \/ /\ which = "streams" /\ B!Next
          /\ UNCHANGED <<kind, text, promised, m_count, tablesVars, listsVars, stringsVars,
                         encodingsVars, m_buffer, templatesVars, readVars>>
       \/ /\ which = "tokens" /\ C!Next
          /\ UNCHANGED <<kind, promised, m_count, tablesVars, listsVars, stringsVars,
                         encodingsVars, m_buffer, templatesVars, streamsVars, bodyVars>>
       \/ /\ which = "body" /\ M!Next
          /\ UNCHANGED <<kind, text, promised, m_count, tablesVars, listsVars, stringsVars,
                         encodingsVars, m_buffer, templatesVars, streamsVars, tokensVars>>
    /\ UNCHANGED which

MCSpec == MCInit /\ [][MCNext]_allVars

\* A table holds what was set and not removed, whatever it grew through, and an
\* enumeration of it that is not refused meets each entry once; a list holds what was
\* put into it, in its order, and a reference to each item (CHashMap, COrderedHashMap,
\* SPointerSet, CArrayList, CStack, CLinkedList).
ContainersAreExact == /\ which = "tables" => T!TablesAreMaps
                      /\ which = "lists" => L!KeepsItems

\* Searches, splits, numbers, paths and builders do what they stand for; Unicode text
\* converts to what the standard says, and nothing else converts; a format is its text
\* and its elements, a literal is read back as it was written, and a text builder holds
\* what was emitted; a file is its lines, and what is written to a stream is read back
\* (CString, CStringBuilder, Path, STextBuilder, CTextReader, CStream).
TextIsExact == /\ which = "strings" => S!StringsAreExact
               /\ which = "encodings" => E!EncodingsAreExact
               /\ which = "formats" => F!FormatsAreExact
               /\ which = "streams" => B!StreamsAreExact

\* A template is its parts, and a render that was alone gives the text of its own
\* parts.
TemplatesRender == which = "templates" => P!TemplatesRender

\* Every character that is no white space and no comment is in one token, in the order of
\* the text; and a method body, parsed and written out again, is what was read
\* (Tokenizer::Tokenize, SParser::parseMethodBody).
ReadAsWritten == /\ which = "tokens" => C!TokensCoverTheText
                 /\ which = "body" => M!PrintsBack
=============================================================================
