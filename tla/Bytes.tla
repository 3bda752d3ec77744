-------------------------------- MODULE Bytes --------------------------------
(* What the streams of the engine are made of: bytes, and single symbols for  *)
(* what a reader never looks into, a number in decimal or hexadecimal digits  *)
(* and a header.                                                              *)
EXTENDS Naturals, Sequences

Byte == 0..255

BEL == 7
LF == 10
CR == 13
ESC == 27
LEFT_BRACKET == 91
BACKSLASH == 92
RIGHT_BRACKET == 93
LEFT_BRACE == 123
RIGHT_BRACE == 125

CHUNKED == 256                  \* a Transfer-Encoding header
Number(n) == 257 + n            \* the digits of n, or a Content-Length header of n
IsNumber(symbol) == symbol >= 257
NumberOf(symbol) == symbol - 257

(* What is left of a buffer without its first n bytes.                        *)
Rest(buffer, n) == SubSeq(buffer, n + 1, Len(buffer))
Left(buffer, n) == SubSeq(buffer, 1, n)
=============================================================================
