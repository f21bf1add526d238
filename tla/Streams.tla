------------------------------- MODULE Streams -------------------------------
(***************************************************************************)
(* Streams and what reads and writes them: CByteBuffer and CMemoryStream,  *)
(* CFileStream over the C library, CTextReader, CTextWriter and FileUtils, *)
(* SBinaryReader and SBinaryWriter. A module of a program is read with     *)
(* ReadAllText.                                                            *)
(*                                                                         *)
(*   "lines"         a file is read line by line                           *)
(*   "file","memory" reads, writes and seeks; the stream is copied         *)
(*   "values"        values are written one after the other and read back  *)
(***************************************************************************)
EXTENDS Integers, Sequences, FiniteSets

CONSTANTS MaxFile,      \* bound: characters in a file
          MaxMoves,     \* bound: operations on a stream
          MaxWritten,   \* bound: values written
          BufSize,      \* SKIZO_STREAMREADER_BUFSIZE, READTO_BUFSZ: 1024
          WordSize,     \* sizeof(so_long)
          DefaultCap,   \* SKIZO_DEF_BYTEBUFFER_CAP
          ByteSize,     \* the numbers of a byte
          Utf16BufSize, \* SKIZO_UTF16BUF_SIZE
          Unwritten     \* of a byte

VARIABLES medium, m_bytes, m_position,
          m_cap,        \* of the byte buffer of a memory stream
          m_byteOrder,  \* of a reader and a writer of values
          knownSize,    \* m_size of CFileStream, -1: not asked for yet
          turned,       \* a file was read last and not moved since
          m_lineNumber, lines,
          got,          \* what the last read gave: from where, how much was asked for, the bytes
          copy,         \* ReadTo: from where, how much, how much is left, the target
          wrote,        \* history: the bytes of a stream, or the values
          answers,      \* the values that were read back
          moves
vars == <<medium, m_bytes, m_position, m_cap, m_byteOrder, knownSize, turned, m_lineNumber, lines,
          got, copy, wrote, answers, moves>>
ofFiles  == <<knownSize, turned>>
ofLines  == <<m_lineNumber, lines>>
ofMoves  == <<got, copy>>

Least(a, b) == IF a < b THEN a ELSE b
Piece(s, from, n) == SubSeq(s, from + 1, Least(from + n, Len(s)))

-----------------------------------------------------------------------------
(***************************************************************************)
(* Text. A byte order mark is one character here, and a file is at its end *)
(* when a read gives less than a buffer.                                   *)
(***************************************************************************)
Mark == "BOM"
LF == "LF"
CR == "CR"
IsEnd(c) == c \in {CR, LF}
IsCR(i) == IF m_bytes[i] = CR THEN 1 ELSE 0

\* Where the buffers that ReadLine reads up to a line's end begin.
EndOfLine == {i \in m_position + 1..Len(m_bytes) :
                 IsEnd(m_bytes[i]) /\ \A j \in m_position + 1..i - 1 : ~IsEnd(m_bytes[j])}
startsWithBom(line) == line # <<>> /\ line[1] = Mark
Text(line) == IF m_lineNumber = 0 /\ startsWithBom(line) THEN Tail(line) ELSE line
Gives(line) == /\ lines' = Append(lines, Text(line))
               /\ m_lineNumber' = IF line = <<>> THEN m_lineNumber ELSE m_lineNumber + 1

\* Mutant of AfterEnd: of a CR and an LF the LF is left.
AfterCR(i) == i
AfterEnd(i) == i + IsCR(i)
Rest == Piece(m_bytes, m_position, Len(m_bytes))
ReadLine ==
    /\ medium = "lines"
    /\ \/ \E i \in EndOfLine : /\ Gives(SubSeq(m_bytes, m_position + 1, i - 1))
                               /\ m_position' = AfterEnd(i)
                               /\ UNCHANGED medium
       \/ /\ EndOfLine = {} /\ Len(Rest) % BufSize # 0    \* the last read was short
          /\ Gives(Rest)
          /\ m_position' = Len(m_bytes) /\ UNCHANGED medium
       \/ /\ EndOfLine = {} /\ Len(Rest) % BufSize = 0    \* or there was none: a null
          /\ m_position' = Least(m_position, Len(m_bytes)) + Len(Rest)
          /\ medium' = "read" /\ UNCHANGED ofLines
    /\ UNCHANGED <<m_bytes, m_cap, m_byteOrder, ofFiles, ofMoves, wrote, answers, moves>>

-----------------------------------------------------------------------------
(***************************************************************************)
(* Bytes. A file that is written behind its end has zeros up to there; what *)
(* a byte buffer is extended by is not initialized.                        *)
(***************************************************************************)
Moved == /\ moves > 0 /\ moves' = moves - 1 /\ copy.left = 0
         /\ UNCHANGED <<m_byteOrder, ofLines, answers>>
NoRead == [from |-> 0, asked |-> 0, bytes |-> <<>>]
NoCopy == [from |-> 0, asked |-> 0, left |-> 0, target |-> <<>>]
Forgets == got' = NoRead /\ copy' = NoCopy
Extended(s, n) == s \o [i \in 1..n |-> IF medium = "file" THEN 0 ELSE Unwritten]
Overwritten(s, from, buf) ==
    [i \in DOMAIN s |-> IF i - from \in DOMAIN buf THEN buf[i - from] ELSE s[i]]

\* Mutant of EnsureBuffer: extended by what is asked for.
EnsureTwice(end) == Extended(m_bytes, end)
EnsureBuffer(end) == IF end >= Len(m_bytes) THEN Extended(m_bytes, end - Len(m_bytes)) ELSE m_bytes
\* appendBytesGeneric: the buffer grows at three quarters.
AppendBytes(end) ==
    LET count == end - Len(m_bytes)
    IN m_cap' = IF end >= Len(m_bytes) /\ 4 * end >= 3 * m_cap THEN 2 * m_cap + count ELSE m_cap

Write(buf) ==
    LET end == m_position + Len(buf)
    IN /\ Moved /\ end <= MaxFile
       /\ \/ /\ medium = "memory"
             /\ m_bytes' = Overwritten(EnsureBuffer(end), m_position, buf)
             /\ AppendBytes(end) /\ UNCHANGED <<medium, ofFiles>>
          \/ /\ medium = "file" /\ ~turned
             /\ m_bytes' = Overwritten(EnsureBuffer(end), m_position, buf)
             /\ UNCHANGED <<medium, m_cap, ofFiles>>
          \/ /\ medium = "file" /\ turned        \* C asks for a seek in between
             /\ medium' = "undefined" /\ UNCHANGED <<m_bytes, m_cap, ofFiles>>
       /\ m_position' = end
       /\ wrote' = [i \in 1..MaxFile |-> IF i - m_position \in DOMAIN buf THEN buf[i - m_position]
                                         ELSE wrote[i]]
       /\ Forgets

Read(n) ==
    /\ Moved /\ medium \in {"file", "memory"}
    /\ got' = [from |-> m_position, asked |-> n, bytes |-> Piece(m_bytes, m_position, n)]
    /\ m_position' = m_position + Len(got'.bytes)
    /\ turned' = (medium = "file")
    /\ UNCHANGED <<medium, m_bytes, m_cap, knownSize, copy, wrote>>

SetPosition(pos) ==
    /\ Moved /\ pos + WordSize <= MaxFile
    /\ \/ /\ medium = "memory" /\ m_bytes' = EnsureBuffer(pos + WordSize)
          /\ AppendBytes(pos + WordSize)
       \/ medium = "file" /\ UNCHANGED <<m_bytes, m_cap>>
    /\ m_position' = pos /\ turned' = FALSE
    /\ UNCHANGED <<medium, knownSize, ofMoves, wrote>>

\* The size of a file is asked for once.
Size == /\ Moved /\ medium = "file"
        /\ knownSize' = IF knownSize = -1 THEN Len(m_bytes) ELSE knownSize
        /\ turned' = (turned /\ knownSize # -1)
        /\ UNCHANGED <<medium, m_bytes, m_position, m_cap, ofMoves, wrote>>

\* Clear of a memory stream.
Clear == /\ Moved /\ medium = "memory"
         /\ m_bytes' = <<>> /\ m_position' = 0
         /\ wrote' = [i \in 1..MaxFile |-> Unwritten]
         /\ Forgets /\ UNCHANGED <<medium, m_cap, ofFiles>>

\* ReadTo reads into another stream, buffer by buffer.
BeginReadTo(n) ==
    /\ Moved /\ n > 0 /\ medium \in {"file", "memory"}
    /\ copy' = [from |-> m_position, asked |-> n, left |-> n, target |-> <<>>]
    /\ UNCHANGED <<medium, m_bytes, m_position, m_cap, ofFiles, got, wrote>>
ReadTo ==
    /\ medium \in {"file", "memory"} /\ copy.left > 0
    /\ LET bytes == Piece(m_bytes, m_position, Least(copy.left, BufSize))
       IN /\ copy' = [copy EXCEPT !.left = IF Len(bytes) < BufSize THEN 0 ELSE @ - Len(bytes),
                                  !.target = @ \o bytes]
          /\ m_position' = m_position + Len(bytes)
          /\ turned' = (medium = "file")
    /\ UNCHANGED <<medium, m_bytes, m_cap, m_byteOrder, knownSize, ofLines, got, wrote, answers,
                   moves>>

-----------------------------------------------------------------------------
(***************************************************************************)
(* Values. A word is two bytes here; a text is as many bytes as characters *)
(* (or words, in UTF-16).                                                  *)
(***************************************************************************)
NullObject == <<-1>>
Refused == <<-2>>
Word(n) == <<n % ByteSize, n \div ByteSize>>
Number(w) == w[1] + ByteSize * w[2]
Swapped(order, w) == IF order = "network" THEN <<w[2], w[1]>> ELSE w
Chars(n) == [i \in 1..n |-> 1]
Texts(kind) == {[kind |-> kind, is |-> Chars(n)] : n \in 0..ByteSize}
Writable == {[kind |-> k, is |-> <<n>>] : k \in {"int", "uint32"}, n \in {0, 1, ByteSize}}
          \cup {[kind |-> k, is |-> <<n>>] : k \in {"byte", "long"}, n \in {0, 1}}
          \cup UNION {Texts(k) : k \in {"short utf8", "utf8", "utf16", "variant"}}
          \cup {[kind |-> "variant", is |-> NullObject]}
NullTag == Word(2)
StringTag == Word(3)

\* The bytes a value is written as.
Written(order, v) ==
    LET word(n) == Swapped(order, Word(n))
    IN CASE v.kind \in {"int", "uint32"} -> word(v.is[1])
         [] v.kind = "byte" -> v.is
         [] v.kind = "long" -> IF order = "host" THEN Word(v.is[1]) \o Word(0) ELSE Refused
         [] v.kind = "short utf8" -> IF Len(v.is) \in {0, ByteSize} THEN Refused
                                     ELSE <<Len(v.is) % ByteSize>> \o v.is
         [] v.kind = "utf8" -> word(Len(v.is)) \o v.is
         [] v.kind = "utf16" -> word(Len(v.is)) \o v.is \o v.is
         [] v.kind = "variant" -> IF v.is = NullObject THEN Swapped(order, NullTag)
                                  ELSE Swapped(order, StringTag) \o word(Len(v.is)) \o v.is
\* What reading a value of the kind gives, and how many bytes it takes.
Taken(n, bytes) == Piece(m_bytes, m_position + n, bytes)
WordAt(order, n) == Number(Swapped(order, Taken(n, 2)))
Value(kind, is, size) == [kind |-> kind, is |-> is, size |-> size]
Readings(order, kind) ==
    CASE kind \in {"int", "uint32"} -> Value(kind, <<WordAt(order, 0)>>, 2)
      [] kind = "byte" -> Value(kind, Taken(0, 1), 1)
      [] kind = "long" -> Value(kind, <<WordAt("host", 0)>>, 4)
      [] kind = "short utf8" -> LET n == Taken(0, 1)[1]
                                IN Value(kind, IF n = 0 THEN Refused ELSE Taken(1, n), 1 + n)
      [] kind = "utf8" -> LET n == WordAt(order, 0)
                          IN Value(kind, IF n = 0 THEN Refused ELSE Taken(2, n), 2 + n)
      [] kind = "utf16" -> LET n == WordAt(order, 0)
                           IN Value(kind, IF n >= Utf16BufSize - 1 THEN Refused ELSE Taken(2, n),
                                    2 + 2 * n)
      [] kind = "variant" -> LET n == WordAt(order, 2)
                             IN IF WordAt(order, 0) = Number(StringTag)
                                THEN Value(kind, Taken(4, n), 4 + n)
                                ELSE Value(kind, Refused, 2)

WriteValue(v) ==
    /\ medium = "values" /\ moves > 0
    /\ Written(m_byteOrder, v) # Refused
    /\ m_bytes' = m_bytes \o Written(m_byteOrder, v)
    /\ wrote' = Append(wrote, v) /\ moves' = moves - 1
    /\ UNCHANGED <<medium, m_position, m_cap, m_byteOrder, ofFiles, ofLines, ofMoves, answers>>
ReadValue ==
    /\ medium = "values" /\ moves = 0 /\ Len(answers) < Len(wrote)
    /\ LET kind == wrote[Len(answers) + 1].kind
           read == Readings(m_byteOrder, kind)
       IN /\ answers' = Append(answers, [kind |-> kind, is |-> read.is])
          /\ m_position' = m_position + read.size
          /\ medium' = IF read.is = Refused THEN "refused" ELSE medium
    /\ UNCHANGED <<m_bytes, m_cap, m_byteOrder, ofFiles, ofLines, ofMoves, wrote, moves>>

-----------------------------------------------------------------------------
Files == UNION {[1..n -> {"a", LF, CR, Mark}] : n \in 0..MaxFile}
Init == /\ m_position = 0 /\ knownSize = -1 /\ turned = FALSE
        /\ m_lineNumber = 0 /\ lines = <<>> /\ got = NoRead /\ copy = NoCopy /\ answers = <<>>
        /\ \/ /\ medium = "lines" /\ m_bytes \in Files /\ m_cap = 0 /\ m_byteOrder = "host"
              /\ wrote = m_bytes /\ moves = 0
           \/ /\ medium \in {"file", "memory"} /\ m_bytes = <<>> /\ m_byteOrder = "host"
              /\ m_cap = IF medium = "memory" THEN DefaultCap ELSE 0
              /\ wrote = [i \in 1..MaxFile |-> Unwritten] /\ moves = MaxMoves
           \/ /\ medium = "values" /\ m_bytes = <<>> /\ m_byteOrder \in {"host", "network"}
              /\ m_cap = 0 /\ wrote = <<>> /\ moves = MaxWritten

Next == \/ ReadLine
        \/ \E buf \in {<<>>, <<1>>, <<2, 1>>} : Write(buf)
        \/ \E n \in 0..MaxFile : Read(n) \/ SetPosition(n) \/ BeginReadTo(n)
        \/ Size \/ Clear \/ ReadTo
        \/ \E v \in Writable : WriteValue(v)
        \/ ReadValue
Spec == Init /\ [][Next]_vars

-----------------------------------------------------------------------------
\* "A line is defined as a sequence of characters followed by \n or \r\n" (TextReader.h);
\* what is behind the last one is a line, too.
LinesEnd == {i \in DOMAIN wrote : wrote[i] = LF}
            \cup (IF wrote # <<>> /\ wrote[Len(wrote)] # LF THEN {Len(wrote) + 1} ELSE {})
NumberOf(i) == Cardinality({j \in LinesEnd : j <= i})
Begins(i) == 1 + Cardinality({k \in DOMAIN wrote : \E j \in LinesEnd : k <= j /\ j < i})
WithoutCR(line) == IF line = <<>> \/ line[Len(line)] # CR THEN line
                   ELSE SubSeq(line, 1, Len(line) - 1)
WithoutMark(line, i) == IF i = 1 /\ startsWithBom(line) THEN Tail(line) ELSE line
LinesAreRead == /\ Len(lines) = Cardinality(LinesEnd)
                /\ \A i \in LinesEnd : lines[NumberOf(i)] =
                      WithoutMark(WithoutCR(SubSeq(wrote, Begins(i), i - 1)), NumberOf(i))

CRsHaveLFs == \A i \in DOMAIN wrote : wrote[i] = CR => i < Len(wrote) /\ wrote[i + 1] = LF
MarksAreFirst == \A i \in DOMAIN wrote : wrote[i] = Mark => i = 1 \/ wrote[i - 1] \notin {LF, CR}
LastLine == Len(wrote) + 1 - Begins(Len(wrote) + 1)
LastLineEnds == LastLine % BufSize # 0 \/ LastLine = 0
\* A file is its lines, wherever the buffers end that it is read by, unless the last line
\* fills its buffers.
LinesAreExact ==
    medium = "read" /\ CRsHaveLFs /\ MarksAreFirst /\ LastLineEnds => LinesAreRead

\* What was written is there, at its place and to its end.
IsWritten(from, asked, bytes) ==
    \A i \in 1..Least(asked, MaxFile - from) :
       wrote[from + i] # Unwritten => i <= Len(bytes) /\ bytes[i] = wrote[from + i]
\* What is read from a stream is what was last written there, in one piece or by ReadTo,
\* and the bytes are in the buffer.
BytesAreKept ==
    /\ medium \in {"file", "memory"} =>
          /\ IsWritten(got.from, got.asked, got.bytes)
          /\ copy.left = 0 => IsWritten(copy.from, copy.asked, copy.target)
    /\ medium = "memory" => m_position <= Len(m_bytes) /\ Len(m_bytes) <= m_cap
\* Writable are read back as they were written, or refused, in either byte order.
ValuesReadBack == medium \in {"values", "refused"} =>
    \A i \in DOMAIN answers : answers[i].is \in {wrote[i].is, Refused}

StreamsAreExact == LinesAreExact /\ BytesAreKept /\ ValuesReadBack

\* "A line is defined as a sequence of characters followed by \n or \r\n" (TextReader.h:51):
\* refuted, a CR alone ends a line and takes the character behind it.
OnlyLineEndsAreLost == medium = "read" /\ MarksAreFirst /\ LastLineEnds => LinesAreRead
\* Refuted: if the last line has no end and fills its buffers it is lost, and a module of
\* a program is read without it.
LastLineIsRead == medium = "read" /\ CRsHaveLFs /\ MarksAreFirst => LinesAreRead
\* "Total size of the stream" (Stream.h:118): refuted, that of a file is remembered.
SizeIsCurrent == medium = "file" => knownSize \in {-1, Len(m_bytes)}
\* Refuted: empty and long texts and nulls are written and cannot be read.
WrittenIsReadable == medium # "refused"
=============================================================================
