--------------------------- MODULE InsecureSockets ---------------------------
(***************************************************************************)
(* Problem 8, the insecure sockets layer (src/src/p8_insecure.rs).         *)
(*                                                                         *)
(* A session begins with the specification of a cipher, up to a zero byte. *)
(* After it, the two directions are encoded with that cipher, each with    *)
(* its own count of bytes as the position.  The client asks lines of toys, *)
(* separated by commas, and is answered the toy it needs most.             *)
(*                                                                         *)
(* A byte has Width bits.  The first character of a toy is the count, any  *)
(* more are its name; one character, <<Lead, Trail>>, has two bytes.       *)
(***************************************************************************)
EXTENDS Integers, SequencesExt

CONSTANTS
  Width,     \* bits of a byte, 8 in the code
  NewLine, Comma, Lead, Trail,
  Digit,     \* the bytes that are counts
  CipherSpec,\* the specifications clients send, without the zero at the end
  Plaintext, \* what clients send after it
  MaxRead    \* bound: bytes the session reads at a time, 1024 in the code

Byte == 0..(2 ^ Width - 1)
Modulus == 2 ^ Width

SocketsAssumption ==
  /\ Width \in Nat \ {0} /\ MaxRead \in Nat \ {0}
  /\ CipherSpec \union Plaintext \subseteq Seq(Byte)

VARIABLES
  spec,      \* the specification the client has chosen
  plain,     \* the text of the client
  phase,     \* "choosing", "specifying", "serving", "ended", "broken"
  operations,\* Cipher
  req_pos,   \* bytes decoded so far
  res_pos,   \* bytes encoded so far
  prev_buf,  \* text decoded and not answered yet
  replies,   \* bytes written to the client
  cut        \* whether a read has ended inside of a character

sessionVars == <<operations, req_pos, res_pos, prev_buf, replies, cut>>
socketVars == <<spec, plain, phase, sessionVars>>

Init ==
  /\ spec = <<>> /\ plain = <<>> /\ phase = "choosing"
  /\ operations = <<>> /\ req_pos = 0 /\ res_pos = 0
  /\ prev_buf = <<>> /\ replies = <<>> /\ cut = FALSE

-----------------------------------------------------------------------------
(* CipherOp and Cipher.                                                    *)

Bit(b, k) == (b \div 2 ^ k) % 2
FromBits(bit(_)) ==
  LET upTo[k \in 0..Width] == IF k = 0 THEN 0 ELSE upTo[k - 1] + bit(k - 1) * 2 ^ (k - 1)
  IN  upTo[Width]

reverse_bits(b) == FromBits(LAMBDA k : Bit(b, Width - 1 - k))
Xor(a, b) == FromBits(LAMBDA k : (Bit(a, k) + Bit(b, k)) % 2)

EncodeOp(op, pos, b) ==
  CASE op.kind = "reverse" -> reverse_bits(b)
    [] op.kind = "xor" -> Xor(b, op.by)
    [] op.kind = "xorpos" -> Xor(b, pos)
    [] op.kind = "add" -> (b + op.by) % Modulus
    [] op.kind = "addpos" -> (b + pos) % Modulus

DecodeOp(op, pos, b) ==
  CASE op.kind = "add" -> (b - op.by) % Modulus
    [] op.kind = "addpos" -> (b - pos) % Modulus
    [] OTHER -> EncodeOp(op, pos, b)

(* The operation of a code, in the order 1, 2, ...                         *)
Operation == <<"reverse", "xor", "xorpos", "add", "addpos">>

(* parse_all: a code that needs an operand waits for the next byte.        *)
parse_all(bytes) ==
  LET Step(acc, b) ==
        CASE ~acc.ok -> acc
          [] acc.wants # 0 ->
               [acc EXCEPT !.ops = Append(@, [kind |-> Operation[acc.wants], by |-> b]), !.wants = 0]
          [] b \in {2, 4} -> [acc EXCEPT !.wants = b]
          [] b \in {1, 3, 5} -> [acc EXCEPT !.ops = Append(@, [kind |-> Operation[b], by |-> 0])]
          [] OTHER -> [acc EXCEPT !.ok = FALSE]
      end == FoldLeft(Step, [ok |-> TRUE, ops |-> <<>>, wants |-> 0], bytes)
  IN  [ok |-> end.ok /\ end.wants = 0, ops |-> end.ops]

Encode(ops, pos, b) == FoldLeft(LAMBDA v, op : EncodeOp(op, pos % Modulus, v), b, ops)
(* Mutant: the operations are undone from first to last.                   *)
DecodeInOrder(ops, pos, b) == FoldLeft(LAMBDA v, op : DecodeOp(op, pos % Modulus, v), b, ops)

Decode(ops, pos, b) ==
  FoldLeft(LAMBDA v, op : DecodeOp(op, pos % Modulus, v), b, Reverse(ops))

(* is_dumb leaves out the last position and the last byte.                 *)
is_dumb(ops) ==
  \A pos, b \in 0..(Modulus - 2) : Encode(ops, pos, b) = b

-----------------------------------------------------------------------------
(* Lines and toys.                                                         *)

(* The places where a text is cut; the pieces between them.                *)
Pieces(text, mark) ==
  FoldLeft(LAMBDA done, b : IF b = mark THEN Append(done, <<>>)
                            ELSE [done EXCEPT ![Len(done)] = Append(@, b)], <<<<>>>>, text)

IsToy(text) == text # <<>> /\ text[1] \in Digit

(* max_by: the last one of the toys with the largest count.                *)
BestToy(line) ==
  LET toys == Pieces(line, Comma)
      last == CHOOSE i \in DOMAIN toys :
                \A j \in DOMAIN toys : \/ toys[j][1] < toys[i][1]
                                       \/ toys[j][1] = toys[i][1] /\ j <= i
  IN  toys[last]

IsOrder(line) == line # <<>> /\ \A i \in DOMAIN Pieces(line, Comma) : IsToy(Pieces(line, Comma)[i])

(* String::from_utf8: no character is cut.                                 *)
IsUtf8(text) ==
  \A i \in 1..Len(text) :
    /\ text[i] = Lead => i < Len(text) /\ text[i + 1] = Trail
    /\ text[i] = Trail => i > 1 /\ text[i - 1] = Lead

-----------------------------------------------------------------------------
(* The session.                                                            *)

Choose(bytes, text) ==
  /\ phase = "choosing"
  /\ spec' = bytes /\ plain' = text
  /\ phase' = "specifying"
  /\ UNCHANGED sessionVars

(* read_until(0): an operand that is zero ends the specification as well.  *)
SpecRead == LET zeros == {i \in DOMAIN spec : spec[i] = 0}
            IN  IF zeros = {} THEN spec
                ELSE SubSeq(spec, 1, (CHOOSE i \in zeros : \A j \in zeros : i <= j) - 1)

ReadSpec ==
  /\ phase = "specifying"
  /\ LET cipher == parse_all(SpecRead)
     IN  IF cipher.ok /\ ~is_dumb(cipher.ops)
         THEN phase' = "serving" /\ operations' = cipher.ops
         ELSE phase' = "ended" /\ UNCHANGED operations
  /\ UNCHANGED <<spec, plain, req_pos, res_pos, prev_buf, replies, cut>>

(* What the client sends: its text, encoded with the cipher it has chosen. *)
Wire(i) == Encode(parse_all(spec).ops, i - 1, plain[i])

HasLine == \E i \in DOMAIN prev_buf : prev_buf[i] = NewLine

ReadChunk(n) ==
  /\ phase = "serving" /\ ~HasLine
  /\ req_pos + n <= Len(plain)
  /\ LET chunk == [i \in 1..n |-> Decode(operations, req_pos + i - 1, Wire(req_pos + i))]
     IN  IF IsUtf8(chunk)
         THEN prev_buf' = prev_buf \o chunk /\ UNCHANGED <<phase, cut>>
         ELSE phase' = "ended" /\ cut' = TRUE /\ UNCHANGED prev_buf
  /\ req_pos' = req_pos + n
  /\ UNCHANGED <<spec, plain, operations, res_pos, replies>>

ServeLine ==
  /\ phase = "serving" /\ HasLine
  /\ LET i == CHOOSE k \in DOMAIN prev_buf :
                prev_buf[k] = NewLine /\ \A j \in 1..(k - 1) : prev_buf[j] # NewLine
         line == SubSeq(prev_buf, 1, i - 1)
         answer == BestToy(line) \o <<NewLine>>
     IN  /\ prev_buf' = SubSeq(prev_buf, i + 1, Len(prev_buf))
         /\ IF IsOrder(line)
            THEN /\ replies' = replies \o
                      [k \in 1..Len(answer) |-> Encode(operations, res_pos + k - 1, answer[k])]
                 /\ res_pos' = res_pos + Len(answer)
                 /\ UNCHANGED phase
            ELSE phase' = "ended" /\ UNCHANGED <<replies, res_pos>>
  /\ UNCHANGED <<spec, plain, operations, req_pos, cut>>

(* The client closes when it has sent its text.                            *)
Eof ==
  /\ phase = "serving" /\ ~HasLine /\ req_pos = Len(plain)
  /\ phase' = "ended"
  /\ UNCHANGED <<spec, plain, sessionVars>>

(* A read fails, or the write of an answer, of which the client reads no   *)
(* more: the task ends there.                                              *)
ConnectionFails ==
  /\ phase \in {"specifying", "serving"}
  /\ phase' = "broken"
  /\ UNCHANGED <<spec, plain, sessionVars>>

Next ==
  \/ \E bytes \in CipherSpec, text \in Plaintext : Choose(bytes, text)
  \/ ReadSpec
  \/ \E n \in 1..MaxRead : ReadChunk(n)
  \/ ServeLine
  \/ Eof \/ ConnectionFails

Spec == Init /\ [][Next]_socketVars
-----------------------------------------------------------------------------
TypeOK ==
  /\ spec \in CipherSpec \union {<<>>} /\ plain \in Plaintext \union {<<>>}
  /\ phase \in {"choosing", "specifying", "serving", "ended", "broken"}
  /\ req_pos \in 0..Len(plain) /\ res_pos = Len(replies)
  /\ prev_buf \in Seq(Byte) /\ replies \in Seq(Byte) /\ cut \in BOOLEAN

(* What the client reads in the replies, and should: the best toys of its  *)
(* orders, up to the first one that is none.                               *)
Understood == [i \in DOMAIN replies |-> Decode(parse_all(spec).ops, i - 1, replies[i])]
Orders == LET lines == Front(Pieces(plain, NewLine))
              good == {n \in 0..Len(lines) : \A i \in 1..n : IsOrder(lines[i])}
          IN  SubSeq(lines, 1, CHOOSE n \in good : \A m \in good : m <= n)
Answers(n) == FoldLeft(LAMBDA text, line : text \o BestToy(line) \o <<NewLine>>, <<>>, SubSeq(Orders, 1, n))

(* However its bytes were cut into reads, and for positions that run over  *)
(* reads, lines and the range of a byte, a client that decodes the replies *)
(* with the cipher it has chosen reads the answers to its first orders; it *)
(* reads all of them when the session ends, unless its connection failed   *)
(* or a read ended inside of a character.  A session is served only with   *)
(* that cipher, and never with one that changes no byte at any position.   *)
(* What is refused is no cipher, holds a zero, which ends it, or changes   *)
(* no byte at any position but the last, which is_dumb leaves out.         *)
RepliesUnderstood ==
  /\ \E n \in 0..Len(Orders) :
       /\ Understood = Answers(n)
       /\ phase = "ended" /\ operations # <<>> /\ ~cut => n = Len(Orders)
  /\ phase = "serving" =>
       /\ parse_all(spec) = [ok |-> TRUE, ops |-> operations]
       /\ \E pos, b \in Byte : Encode(operations, pos, b) # b
  /\ phase = "ended" /\ operations = <<>> =>
       \/ ~parse_all(spec).ok
       \/ \E i \in DOMAIN spec : spec[i] = 0
       \/ \A pos \in 0..(Modulus - 2), b \in Byte : Encode(parse_all(spec).ops, pos, b) = b
=============================================================================
