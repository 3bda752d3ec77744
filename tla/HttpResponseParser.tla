------------------------ MODULE HttpResponseParser ------------------------
(* HttpResponseParser (src/backend/http/http_response_parser.cpp): a parser  *)
(* record that is fed pieces of a response.  The status line is the symbol   *)
(* of its status, a header and a chunk size one symbol each.                 *)
EXTENDS Bytes

Reset ==
    [state |-> "StatusLine", mode |-> "None", buffer |-> <<>>, body |-> <<>>,
     taken |-> 0, expected |-> 0, headers |-> {}, status |-> 0]

Ended(p) == p.state \in {"Complete", "Failed"}
ParserFails(p) == [p EXCEPT !.state = "Failed", !.buffer = <<>>]

(* The position of the first CR LF in a buffer, 0 if there is none yet.      *)
LineEnd(buffer) ==
    LET Ends == {i \in 1..Len(buffer) - 1 : buffer[i] = CR /\ buffer[i + 1] = LF}
    IN  IF Ends = {} THEN 0 ELSE CHOOSE i \in Ends : \A j \in Ends : i <= j
Consume(p, n) == [p EXCEPT !.buffer = Rest(@, n)]

(* How the body ends is decided by the empty line that ends the headers:     *)
(* chunked encoding goes before a length, a length before a bodiless status. *)
HeadersEnd(p) ==
    LET lengths == {h \in p.headers : IsNumber(h)}
        length  == NumberOf(CHOOSE h \in lengths : TRUE)
    IN  CASE CHUNKED \in p.headers -> [p EXCEPT !.mode = "Chunked", !.state = "ChunkSize"]
          [] CHUNKED \notin p.headers /\ lengths # {} ->
                [p EXCEPT !.mode = "ContentLength", !.expected = length,
                          !.state = IF length = 0 THEN "Complete" ELSE "Body"]
          [] CHUNKED \notin p.headers /\ lengths = {} /\ p.status \in {100, 204, 304} ->
                [p EXCEPT !.state = "Complete"]
          [] CHUNKED \notin p.headers /\ lengths = {} /\ p.status \notin {100, 204, 304} ->
                [p EXCEPT !.mode = "UntilEof", !.state = "Body"]

(* One line of the status line, the headers, a chunk size or the trailers.   *)
ParseLine(p) ==
    LET line == Left(p.buffer, LineEnd(p.buffer) - 1)
        q    == Consume(p, Len(line) + 2)
    IN  CASE p.state = "StatusLine" ->
               IF Len(line) # 1 \/ ~IsNumber(line[1]) THEN ParserFails(q)
               ELSE [q EXCEPT !.status = NumberOf(line[1]), !.state = "Headers"]
          [] p.state = "Headers" ->
               IF line = <<>> THEN HeadersEnd(q) ELSE [q EXCEPT !.headers = @ \cup {line[1]}]
          [] p.state = "ChunkSize" ->
               IF Len(line) # 1 \/ ~IsNumber(line[1]) THEN ParserFails(q)
               ELSE [q EXCEPT !.expected = NumberOf(line[1]),
                              !.state = IF NumberOf(line[1]) = 0 THEN "Trailers" ELSE "ChunkData"]
          [] p.state = "Trailers" ->
               IF line = <<>> THEN [q EXCEPT !.state = "Complete"] ELSE q

(* A body of known length is handed on whole, a chunk piece by piece.        *)
ParseBody(p) ==
    LET available == Len(p.buffer)
        piece == IF available < p.expected THEN available ELSE p.expected
        with  == [Consume(p, piece) EXCEPT !.body = @ \o Left(p.buffer, piece), !.expected = @ - piece]
    IN  CASE p.mode = "UntilEof" -> [p EXCEPT !.body = @ \o p.buffer, !.buffer = <<>>]
          [] p.mode = "ContentLength" ->
               IF available < p.expected THEN p ELSE [with EXCEPT !.state = "Complete"]
          [] p.mode = "Chunked" ->
               IF available < p.expected THEN with ELSE [with EXCEPT !.state = "ChunkTerminator"]

(* Fault: the terminator of a chunk is skipped without looking at it, and    *)
(* without waiting for both its bytes.                                       *)
ParseTerminatorEagerly(p) ==
    IF p.buffer = <<>> THEN p ELSE [Consume(p, 2) EXCEPT !.state = "ChunkSize"]

ParseTerminator(p) ==
    IF Len(p.buffer) < 2 THEN p
    ELSE IF LineEnd(p.buffer) # 1 THEN ParserFails(p)
    ELSE [Consume(p, 2) EXCEPT !.state = "ChunkSize"]

ParseStep(p) ==
    CASE Ended(p) -> p
      [] p.state \in {"Body", "ChunkData"} -> ParseBody(p)
      [] p.state = "ChunkTerminator" -> ParseTerminator(p)
      [] p.state \in {"StatusLine", "Headers", "ChunkSize", "Trailers"} ->
            IF LineEnd(p.buffer) = 0 THEN p ELSE ParseLine(p)

(* The loop of parse(): every pass that does anything takes a byte or more.  *)
Parse(p) ==
    LET pass[k \in 0..Len(p.buffer)] == IF k = 0 THEN p ELSE ParseStep(pass[k - 1])
    IN  pass[Len(p.buffer)]

(* feed(), and takeBody(), which hands out what came since the last call.    *)
HttpFeed(p, data) == IF Ended(p) THEN p ELSE Parse([p EXCEPT !.buffer = @ \o data])
TakeBody(p) == Rest(p.body, p.taken)
BodyTaken(p) == [p EXCEPT !.taken = Len(p.body)]

(* finishInput(): the connection is closed; only a body that ends with the   *)
(* connection may end here.                                                  *)
HttpFinish(p) ==
    LET q == IF Ended(p) THEN p ELSE Parse(p)
    IN  IF Ended(q) THEN q
        ELSE IF q.state = "Body" /\ q.mode = "UntilEof"
        THEN [q EXCEPT !.body = @ \o q.buffer, !.buffer = <<>>, !.state = "Complete"]
        ELSE ParserFails(q)
=============================================================================
