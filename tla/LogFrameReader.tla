-------------------------- MODULE LogFrameReader --------------------------
(* LogFrameReader (src/backend/log_frame_reader.cpp): the frames of a log    *)
(* stream, or its bare bytes for a terminal, become text lines without       *)
(* escape sequences; a carriage return alone makes the line provisional.     *)
(* A frame header is two symbols, the stream and the size.                   *)
EXTENDS Bytes

CONSTANT MaxFrameBytes          \* kMaxFrameBytes

ASSUME MaxFrameBytesAssumption == MaxFrameBytes \in Nat

HeaderBytes == 2
StreamOf(byte) == IF byte = 2 THEN "stderr" ELSE "stdout"

CsiFinal == 64..126             \* the bytes a CSI sequence may end with

NewFrames(tty) ==
    [tty |-> tty, frames |-> <<>>, ansi |-> <<>>, crPending |-> FALSE,
     line |-> <<>>, hasPending |-> FALSE, stream |-> "stdout", out |-> <<>>]

(* The length of the escape sequence that starts input, 0 while it is cut.   *)
EscapeLength(input) ==
    LET Positions == 3..Len(input)
        Ends == IF input[2] = LEFT_BRACKET
                THEN {j \in Positions : input[j] \in CsiFinal}
                ELSE {j \in Positions : \/ input[j] = BEL
                                        \/ j > 3 /\ input[j - 1] = ESC /\ input[j] = BACKSLASH}
    IN  IF Len(input) < 2 THEN 0
        ELSE IF input[2] \notin {LEFT_BRACKET, RIGHT_BRACKET} THEN 2
        ELSE IF Ends = {} THEN 0 ELSE CHOOSE i \in Ends : \A j \in Ends : i <= j

(* The loop of stripAnsi(): a pass takes one character or one sequence of    *)
(* what is left, and none of a sequence that is cut.                         *)
StripOne(s) ==
    LET length == IF s.left = <<>> THEN 0
                  ELSE IF s.left[1] = ESC THEN EscapeLength(s.left) ELSE 1
    IN  [left  |-> Rest(s.left, length),
         clean |-> IF length # 0 /\ s.left[1] # ESC THEN Append(s.clean, s.left[1]) ELSE s.clean]
StripAnsi(input) ==
    LET pass[k \in 0..Len(input)] ==
            IF k = 0 THEN [left |-> input, clean |-> <<>>] ELSE StripOne(pass[k - 1])
    IN  pass[Len(input)]

EmitProvisionalLine(r) ==
    IF ~r.hasPending THEN r
    ELSE [r EXCEPT !.out = Append(@, [stream |-> r.stream, text |-> r.line, complete |-> FALSE])]

ClosePendingLine(r, stream) ==
    [r EXCEPT !.out = Append(@, [stream |-> IF r.hasPending THEN r.stream ELSE stream,
                                 text |-> r.line, complete |-> TRUE]),
              !.line = <<>>, !.hasPending = FALSE]

(* One character of appendText(): a pending carriage return is decided by    *)
(* the character after it.                                                   *)
AppendCharacter(r, stream, ch) ==
    LET decided == [r EXCEPT !.crPending = FALSE]
        q == IF r.crPending /\ ch # LF
             THEN [EmitProvisionalLine(decided) EXCEPT !.line = <<>>, !.hasPending = TRUE,
                                                       !.stream = stream]
             ELSE decided
    IN  IF ch = LF THEN ClosePendingLine(q, stream)
        ELSE IF ch = CR THEN [q EXCEPT !.crPending = TRUE]
        ELSE [q EXCEPT !.line = Append(@, ch), !.hasPending = TRUE,
                       !.stream = IF q.hasPending THEN @ ELSE stream]

AppendText(r, stream, data) ==
    LET stripped == StripAnsi(r.ansi \o data)
        after[k \in 0..Len(stripped.clean)] ==
            IF k = 0 THEN [r EXCEPT !.ansi = stripped.left]
            ELSE AppendCharacter(after[k - 1], stream, stripped.clean[k])
    IN  after[Len(stripped.clean)]

(* One pass of feed() over a frame: nothing before the frame is complete; a  *)
(* header that makes no sense discards everything.                           *)
TakeFrame(r) ==
    LET size == NumberOf(r.frames[2])
        last == HeaderBytes + size
    IN  IF Len(r.frames) < HeaderBytes THEN r
        ELSE IF r.frames[1] \notin {1, 2} \/ size > MaxFrameBytes THEN [r EXCEPT !.frames = <<>>]
        ELSE IF Len(r.frames) < last THEN r
        ELSE AppendText([r EXCEPT !.frames = Rest(@, last)], StreamOf(r.frames[1]),
                        SubSeq(r.frames, HeaderBytes + 1, last))

LogFeed(r, data) ==
    LET frames == r.frames \o data
        pass[k \in 0..Len(frames)] ==
            IF k = 0 THEN [r EXCEPT !.frames = frames] ELSE TakeFrame(pass[k - 1])
    IN  IF r.tty THEN AppendText(r, "stdout", data) ELSE pass[Len(frames)]

(* flush(): what is left at the end of the stream.  A line that a carriage   *)
(* return ends is shown empty.                                               *)
LogFlush(r) ==
    LET q == IF r.crPending
             THEN [r EXCEPT !.crPending = FALSE, !.line = <<>>, !.hasPending = TRUE] ELSE r
    IN  [EmitProvisionalLine(q) EXCEPT !.line = <<>>, !.hasPending = FALSE,
                                       !.ansi = <<>>, !.frames = <<>>]
=============================================================================
