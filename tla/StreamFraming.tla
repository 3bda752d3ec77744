--------------------------- MODULE StreamFraming ---------------------------
(* The three readers between a socket and the backend, fed with a stream that *)
(* arrives in pieces of any length and may break off anywhere: whatever the   *)
(* pieces, a reader has to say what the bytes received so far say.            *)
EXTENDS HttpResponseParser, JsonLineReader, LogFrameReader, Integers, FiniteSets, SequencesExt

CONSTANTS BodyBytes,        \* the bytes of bodies
          BodyBound,        \* longest response body
          LinesBound,       \* longest stream of JSON lines
          TextAlphabets,    \* each a set of bytes that log texts are made of
          TextBound         \* longest log text

ASSUME BoundsAssumption ==
    /\ BodyBytes \subseteq Byte /\ \A alphabet \in TextAlphabets : alphabet \subseteq Byte
    /\ BodyBound \in Nat /\ LinesBound \in Nat /\ TextBound \in Nat
    /\ TextBound <= MaxFrameBytes

VARIABLES stream,   \* what is sent: its kind, its bytes and what they were made from
          sent,     \* the number of bytes that have arrived
          closed,   \* whether the connection has ended
          reader,   \* the reader's members
          handed    \* the body handed out by takeBody() so far

vars == <<stream, sent, closed, reader, handed>>
-----------------------------------------------------------------------------
(* Responses: a body in up to two chunks with or without a trailer, with a    *)
(* length, until the connection ends, or none at all.                         *)
HttpHead(status, header) == <<Number(status), CR, LF>>
                            \o (IF header = <<>> THEN <<>> ELSE header \o <<CR, LF>>) \o <<CR, LF>>
Chunk(data) == IF data = <<>> THEN <<>> ELSE <<Number(Len(data)), CR, LF>> \o data \o <<CR, LF>>
LastChunk(trailer) == <<Number(0), CR, LF>> \o (IF trailer THEN <<CHUNKED, CR, LF>> ELSE <<>>) \o <<CR, LF>>

Chunked(first, second, trailer) ==
    LET head == HttpHead(200, <<CHUNKED>>)
    IN  [kind |-> "http", mode |-> "Chunked", bytes |-> head \o Chunk(first) \o Chunk(second) \o LastChunk(trailer),
         head |-> Len(head), chunks |-> <<first, second>>]
WithHead(mode, head, body) ==
    [kind |-> "http", mode |-> mode, bytes |-> head \o body, head |-> Len(head), chunks |-> <<body, <<>>>>]

Bodies == BoundedSeq(BodyBytes, BodyBound)
Responses ==
    {Chunked(first, second, trailer) : first \in Bodies, second \in Bodies, trailer \in BOOLEAN}
    \cup {WithHead("ContentLength", HttpHead(200, <<Number(Len(b))>>), b) : b \in Bodies}
    \cup {WithHead("UntilEof", HttpHead(200, <<>>), b) : b \in Bodies}
    \cup {WithHead("None", HttpHead(204, <<>>), <<>>)}

JsonStreams ==
    {[kind |-> "json", bytes |-> b] : b \in BoundedSeq({LEFT_BRACE, RIGHT_BRACE, CR, LF}, LinesBound)}

(* Logs: bare text for a terminal, or two frames of the two streams.          *)
Texts == UNION {BoundedSeq(alphabet, TextBound) : alphabet \in TextAlphabets}
Frame(byte, text) == <<byte, Number(Len(text))>> \o text
Terminal(text) == [kind |-> "log", tty |-> TRUE, bytes |-> text]
Framed(first, second) ==
    [kind |-> "log", tty |-> FALSE, bytes |-> Frame(1, first) \o Frame(2, second), frames |-> <<first, second>>]
Splits == {c \in Texts \X (0..TextBound) : c[2] <= Len(c[1])}
Logs == {Terminal(text) : text \in Texts} \cup {Framed(Left(c[1], c[2]), Rest(c[1], c[2])) : c \in Splits}

Streams == Responses \cup JsonStreams \cup Logs
-----------------------------------------------------------------------------
NewReaderOf(s) == CASE s.kind = "http" -> Reset
                    [] s.kind = "json" -> NewReader
                    [] s.kind = "log"  -> NewFrames(s.tty)

Init ==
    /\ stream \in Streams
    /\ sent = 0
    /\ closed = FALSE
    /\ reader = NewReaderOf(stream)
    /\ handed = <<>>

(* The socket delivers a piece; the body of a response is taken at once.      *)
Feed(r, piece) == CASE stream.kind = "http" -> HttpFeed(r, piece)
                    [] stream.kind = "json" -> JsonFeed(r, piece)
                    [] stream.kind = "log"  -> LogFeed(r, piece)
Taken(r) == IF stream.kind = "http" THEN BodyTaken(r) ELSE r
Body(r)  == IF stream.kind = "http" THEN TakeBody(r) ELSE <<>>

PieceArrives ==
    /\ ~closed
    /\ \E n \in sent + 1..Len(stream.bytes) :
         LET r == Feed(reader, SubSeq(stream.bytes, sent + 1, n)) IN
         /\ sent' = n
         /\ reader' = Taken(r)
         /\ handed' = handed \o Body(r)
    /\ UNCHANGED <<stream, closed>>

(* The connection ends, here or after the last byte.                          *)
Finish(r) == CASE stream.kind = "http" -> HttpFinish(r)
               [] stream.kind = "json" -> JsonFinish(r)
               [] stream.kind = "log"  -> LogFlush(r)
ConnectionEnds ==
    /\ ~closed
    /\ closed' = TRUE
    /\ LET r == Finish(reader) IN
       /\ reader' = Taken(r)
       /\ handed' = handed \o Body(r)
    /\ UNCHANGED <<stream, sent>>

Next == PieceArrives \/ ConnectionEnds

Spec == Init /\ [][Next]_vars
-----------------------------------------------------------------------------
(* What the received bytes of a response say: the body bytes among them (all  *)
(* or nothing of a body whose length was announced), whether the response is  *)
(* over, and that a connection that ends before that is an error.             *)
ChunkStart(s, k) ==
    s.head + (IF s.mode = "Chunked" THEN 3 ELSE 0) + (IF k = 2 THEN Len(Chunk(s.chunks[1])) ELSE 0)
Arrived(s, k, n) ==
    LET beyond == n - ChunkStart(s, k)
    IN  IF beyond <= 0 THEN 0 ELSE IF beyond < Len(s.chunks[k]) THEN beyond ELSE Len(s.chunks[k])
BodyOf(s) == s.chunks[1] \o s.chunks[2]

ResponseIsRead ==
    LET all   == sent = Len(stream.bytes)
        count == Arrived(stream, 1, sent) + Arrived(stream, 2, sent)
        over  == IF stream.mode = "UntilEof" THEN closed /\ sent >= stream.head ELSE all
    IN  /\ handed = IF stream.mode = "ContentLength" /\ ~all THEN <<>> ELSE Left(BodyOf(stream), count)
        /\ (reader.state = "Complete") = over
        /\ (reader.state = "Failed") = (closed /\ ~over)

(* What the received JSON bytes say: every line counts once, as an object, a  *)
(* malformed or an oversized line; blank lines do not, and the last line does *)
(* when the stream ends or it is already too long.                            *)
LineStart(b, i) == CHOOSE j \in 0..i - 1 : (j = 0 \/ b[j] = LF) /\ \A k \in j + 1..i - 1 : b[k] # LF
LineBefore(b, i) == SubSeq(b, LineStart(b, i) + 1, i - 1)
NewlinesTo(b, n) == {i \in 1..n : b[i] = LF}

Longs(b, ends)   == {i \in ends : Len(LineBefore(b, i)) > MaxLineBytes}
Objects(b, ends) == {i \in ends \ Longs(b, ends) : IsObject(LineBefore(b, i))}
Others(b, ends)  == {i \in ends \ Longs(b, ends) : ~IsObject(LineBefore(b, i)) /\ ~IsBlank(LineBefore(b, i))}

LinesAreRead ==
    LET newlines == NewlinesTo(stream.bytes, sent)
        ends     == newlines \cup (IF closed THEN {sent + 1} ELSE {})
    IN  /\ reader.objects = Cardinality(Objects(stream.bytes, ends))
        /\ reader.malformed = Cardinality(Others(stream.bytes, ends))
        /\ reader.dropped = Cardinality(Longs(stream.bytes, newlines \cup {sent + 1}))

(* The text of a log, each character with its stream, and how many characters *)
(* of it the first n bytes complete: those of complete frames.                *)
Characters(text, name) == [i \in 1..Len(text) |-> [ch |-> text[i], stream |-> name]]
TextOf(s) == IF s.tty THEN Characters(s.bytes, "stdout")
             ELSE Characters(s.frames[1], "stdout") \o Characters(s.frames[2], "stderr")
FrameEnd(s, k) == k * HeaderBytes + Len(s.frames[1]) + (IF k = 2 THEN Len(s.frames[2]) ELSE 0)
Completed(s, n) ==
    IF s.tty THEN n
    ELSE IF n < FrameEnd(s, 1) THEN 0
    ELSE IF n < FrameEnd(s, 2) THEN Len(s.frames[1]) ELSE Len(s.frames[1]) + Len(s.frames[2])

(* The text without escape sequences: an automaton over single characters.    *)
EscapeMode(mode, ch) ==
    CASE mode = "text"   -> IF ch = ESC THEN "escape" ELSE "text"
      [] mode = "escape" -> IF ch = LEFT_BRACKET THEN "csi" ELSE IF ch = RIGHT_BRACKET THEN "osc" ELSE "text"
      [] mode = "csi"    -> IF ch \in CsiFinal THEN "text" ELSE "csi"
      [] mode = "osc"    -> IF ch = BEL THEN "text" ELSE IF ch = ESC THEN "oscEnd" ELSE "osc"
      [] mode = "oscEnd" -> IF ch \in {BEL, BACKSLASH} THEN "text" ELSE IF ch = ESC THEN "oscEnd" ELSE "osc"
ScanOne(q, c) ==
    LET mode == EscapeMode(q.mode, c.ch)
    IN  [mode |-> mode, shown |-> IF q.mode = "text" /\ mode = "text" THEN Append(q.shown, c) ELSE q.shown]
Scan(text) ==
    LET scan[n \in 0..Len(text)] ==
            IF n = 0 THEN [mode |-> "text", shown |-> <<>>] ELSE ScanOne(scan[n - 1], text[n])
    IN  scan
Visible(s, n) == Scan(TextOf(s))[Completed(s, n)].shown

(* The lines that the first n characters of a text show: a newline completes  *)
(* a line, a carriage return not followed by one shows what it is about to    *)
(* overwrite, unless nothing was written.                                     *)
Newlines(text, n) == {i \in 1..n : text[i].ch = LF}
Returns(text, n)  == {i \in 1..n - 1 : text[i].ch = CR /\ text[i + 1].ch # LF}
Cuts(text, n)     == Newlines(text, n) \cup Returns(text, n)
Shown(text, n)    == Newlines(text, n) \cup {i \in Returns(text, n) : i # 1 /\ i - 1 \notin Newlines(text, n)}

(* The line that ends before i is the text since the cut before it.           *)
Begins(text, n, from, i) == from \in Cuts(text, n) \cup {0} /\ \A k \in from + 1..i - 1 : k \notin Cuts(text, n)
Shows(line, text, n, i, complete) ==
    \E from \in 0..i - 1 :
        LET end == IF from < i - 1 /\ text[i - 1].ch = CR THEN i - 2 ELSE i - 1
        IN  /\ Begins(text, n, from, i)
            /\ line.text = [k \in 1..end - from |-> text[from + k].ch]
            /\ line.complete = complete
            /\ line.text # <<>> => line.stream = text[from + 1].stream

(* What the received log bytes say: the lines of the visible text, in their   *)
(* order, and at the end of the stream what is left of it.                    *)
LogIsRead ==
    LET text  == Visible(stream, sent)
        n     == Len(text)
        shown == Shown(text, n)
        left  == closed /\ n # 0 /\ text[n].ch # LF
        last  == reader.out[Len(reader.out)]
    IN  /\ Len(reader.out) = Cardinality(shown) + (IF left THEN 1 ELSE 0)
        /\ \A i \in shown : Shows(reader.out[Cardinality(shown \cap 1..i)], text, n, i, text[i].ch = LF)
        /\ left => IF text[n].ch = CR THEN last.text = <<>> /\ ~last.complete
                   ELSE Shows(last, text, n, n + 1, FALSE)

(* The readers depend on the bytes received and not on the pieces they came   *)
(* in: HttpResponseParser, JsonLineReader and LogFrameReader against their    *)
(* formats, at every prefix, with and without the end of the connection.      *)
FramingIsInvisible ==
    CASE stream.kind = "http" -> ResponseIsRead
      [] stream.kind = "json" -> LinesAreRead
      [] stream.kind = "log"  -> LogIsRead
=============================================================================
