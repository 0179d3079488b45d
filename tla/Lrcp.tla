-------------------------------- MODULE Lrcp --------------------------------
(***************************************************************************)
(* Problem 7, line reversal (src/src/p7_reversal.rs): how LRCP data are    *)
(* escaped, unescaped, checked and cut into packets.  A text is a sequence *)
(* of characters of one byte, the alphabet LRCP allows.                    *)
(***************************************************************************)
EXTENDS Integers, Sequences, SequencesExt

CONSTANTS Char, Backslash, Slash, Newline,
          MaxSize \* of the escaped data of a packet, 800 in the code

ASSUME CharAssumption ==
  /\ {Backslash, Slash, Newline} \subseteq Char
  /\ Backslash # Slash /\ Slash # Newline /\ Newline # Backslash
ASSUME SizeAssumption == MaxSize \in Nat /\ MaxSize >= 2

Special == {Backslash, Slash}

Text(data) == FoldLeft(LAMBDA s, t : s \o t, << >>, data)

Double(c, data) ==
  Text([i \in DOMAIN data |-> IF data[i] = c THEN <<Backslash, c>> ELSE <<data[i]>>])

escape_data(data) == Double(Slash, Double(Backslash, data))

(* str::replace: pairs <<Backslash, c>> become c, from the left, and what  *)
(* a replacement leaves is not looked at again.                            *)
Halve(c, content) ==
  LET step(s, d) == IF s.open /\ d = c
                    THEN [out |-> Append(Front(s.out), c), open |-> FALSE]
                    ELSE [out |-> Append(s.out, d), open |-> d = Backslash]
  IN FoldLeft(step, [out |-> << >>, open |-> FALSE], content).out

unescape_data(content) == Halve(Backslash, Halve(Slash, content))

char_size(c) == IF c \in Special THEN 2 ELSE 1

total_size(data) == FoldLeft(LAMBDA n, c : n + char_size(c), 0, data)

(* Mutant: the size of the content is not compared. *)
ValidUnchecked(content) == TRUE

(* ClientMessage::parse takes the content of a data packet. *)
Valid(content) == total_size(unescape_data(content)) = Len(content)

(* One character more: one that does not fit opens a new chunk, whose size *)
(* is then restart of it.                                                  *)
TakeChar(s, c, restart(_)) ==
  IF s.size + char_size(c) > MaxSize
  THEN [cut |-> Append(s.cut, [pos |-> s.pos, data |-> s.cur]),
        pos |-> s.pos + Len(s.cur), cur |-> <<c>>, size |-> restart(c)]
  ELSE [s EXCEPT !.cur = Append(@, c), !.size = @ + char_size(c)]

(* The chunks of data, the first at position pos. *)
Chunks(pos, data, restart(_)) ==
  LET after[n \in 0..Len(data)] ==
        IF n = 0 THEN [cut |-> << >>, pos |-> pos, cur |-> << >>, size |-> 0]
        ELSE TakeChar(after[n - 1], data[n], restart)
      end == after[Len(data)]
  IN Append(end.cut, [pos |-> end.pos, data |-> end.cur])

(* Mutant: the size of a new chunk starts from nothing. *)
SplitForgetsSize(pos, data) == Chunks(pos, data, LAMBDA c : 0)

split_data(pos, data) == Chunks(pos, data, char_size)

(* The answer to a line, which ends in a newline. *)
Reversed(line) == Append(Reverse(Front(line)), Newline)
=============================================================================
