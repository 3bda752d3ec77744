-------------------------- MODULE JsonLineReader --------------------------
(* JsonLineReader (src/backend/http/json_line_reader.cpp): one JSON object   *)
(* per line.  The text of an object is a pair of braces, with white space    *)
(* around each as JSON allows.                                               *)
EXTENDS Bytes

CONSTANT MaxLineBytes           \* kMaxLineBytes

ASSUME MaxLineBytesAssumption == MaxLineBytes \in Nat \ {0}

NewReader == [buffer |-> <<>>, objects |-> 0, malformed |-> 0, dropped |-> 0, dropping |-> FALSE]

Whitespace == {9, LF, CR, 32}
IsBlank(line) == \A i \in 1..Len(line) : line[i] \in Whitespace
IsObject(line) ==
    \E i, j \in 1..Len(line) :
        /\ i < j /\ line[i] = LEFT_BRACE /\ line[j] = RIGHT_BRACE
        /\ \A k \in 1..Len(line) : k \in {i, j} \/ line[k] \in Whitespace

ConsumeLine(r, line) ==
    LET size == Len(line)
        candidate == IF size > 0 /\ line[size] = CR THEN Left(line, size - 1) ELSE line
    IN  CASE IsBlank(candidate)  -> r
          [] IsObject(candidate) -> [r EXCEPT !.objects = @ + 1]
          [] ~IsBlank(candidate) /\ ~IsObject(candidate) -> [r EXCEPT !.malformed = @ + 1]

(* The position of the first newline in a buffer, 0 if there is none yet.    *)
Newline(buffer) ==
    LET Newlines == {i \in 1..Len(buffer) : buffer[i] = LF}
    IN  IF Newlines = {} THEN 0 ELSE CHOOSE i \in Newlines : \A j \in Newlines : i <= j

(* One pass of takeCompleteLines() that finds a newline.                     *)
TakeLine(r) ==
    LET newline == Newline(r.buffer)
        line    == Left(r.buffer, newline - 1)
        q       == [r EXCEPT !.buffer = Rest(@, newline)]
    IN  CASE newline = 0 -> r
          [] newline # 0 /\ r.dropping -> [q EXCEPT !.dropping = FALSE]
          [] newline # 0 /\ ~r.dropping ->
                IF Len(line) > MaxLineBytes THEN [q EXCEPT !.dropped = @ + 1] ELSE ConsumeLine(q, line)

(* Its last pass: the rest waits for more, unless it is too long already.    *)
KeepRest(r) ==
    IF r.dropping THEN [r EXCEPT !.buffer = <<>>]
    ELSE IF Len(r.buffer) > MaxLineBytes
    THEN [r EXCEPT !.buffer = <<>>, !.dropping = TRUE, !.dropped = @ + 1]
    ELSE r

(* Every pass but the last takes a byte or more.                             *)
TakeCompleteLines(r) ==
    LET pass[k \in 0..Len(r.buffer)] == IF k = 0 THEN r ELSE TakeLine(pass[k - 1])
    IN  KeepRest(pass[Len(r.buffer)])

JsonFeed(r, chunk) == TakeCompleteLines([r EXCEPT !.buffer = @ \o chunk])

(* finish(): a last line without a newline still counts.                     *)
JsonFinish(r) ==
    LET q == CASE r.dropping \/ r.buffer = <<>> -> r
               [] ~r.dropping /\ r.buffer # <<>> /\ Len(r.buffer) > MaxLineBytes ->
                     [r EXCEPT !.dropped = @ + 1]
               [] ~r.dropping /\ r.buffer # <<>> /\ Len(r.buffer) <= MaxLineBytes ->
                     ConsumeLine(r, r.buffer)
    IN  [q EXCEPT !.buffer = <<>>, !.dropping = FALSE]
=============================================================================
