---------------------------- MODULE SequenceParts ----------------------------
(***************************************************************************)
(* Parts of a sequence, by a recursive function.                           *)
(***************************************************************************)
EXTENDS Integers, Sequences

\* What a sequence holds at some of its positions, in its order.
Picked(seq, positions) ==
    LET picked[n \in 0 .. Len(seq)] ==
            IF n = 0 THEN <<>>
            ELSE IF n \in positions THEN Append(picked[n - 1], seq[n]) ELSE picked[n - 1]
    IN picked[Len(seq)]
==============================================================================
