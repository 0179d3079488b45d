--------------------------- MODULE MCLineReversal ---------------------------
(* LineReversal with a line of two chunks, with two lines of one chunk, and *)
(* with a line in each of two epochs.                                       *)
EXTENDS LineReversal

CONSTANTS a, b

LongLine == << <<a, b, Newline>> >>
ShortLines == << <<a, Newline, b, Newline>> >>
TwoEpochs == << <<a, Newline>>, <<b, Newline>> >>
=============================================================================
