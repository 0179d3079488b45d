------------------------------ MODULE ChatProxy ------------------------------
(***************************************************************************)
(* Problem 5, the proxy in front of a chat server (src/src/p5_middle.rs).  *)
(*                                                                         *)
(* A connection is one task with two sides, the client and the upstream    *)
(* server.  It awaits a line of either side, in a select! that cancels     *)
(* the wait for the other one; rewrites the payment addresses of the line; *)
(* and writes it to the other side.  A side ends when it closes, and when  *)
(* it sends a byte that is not a character of its own: characters are      *)
(* decoded byte by byte.  The end of a side shuts the writer of the other  *)
(* one down, and the task ends with both, or with a failed write.          *)
(*                                                                         *)
(* Text is a sequence of tokens: a word is one token, and so are a space   *)
(* and the end of a line.                                                  *)
(***************************************************************************)
EXTENDS Integers, SequencesExt

CONSTANTS
  Word,      \* words that are no address
  Address,   \* a payment address
  Tony,      \* the address put in the place of every other one
  Space,
  NewLine,
  Wide,      \* a character of more than one byte
  Texts,     \* what a side sends at a time, lines and parts of lines
  MaxTokens  \* bound: tokens sent by a side

Side == {"client", "server"}
Other(s) == CHOOSE t \in Side : t # s
Token == Word \union {Address, Space, NewLine, Wide}

(* The characters that matter are different ones.                          *)
ProxyAssumption ==
  /\ Space \notin {Address, NewLine, Tony} /\ NewLine # Address
  /\ Wide \notin {NewLine, Tony}
  /\ Texts \subseteq Seq(Token) /\ MaxTokens \in Nat

VARIABLES
  sent,             \* per side, all it has sent
  taken,            \* per side, how many tokens of it have been read
  prev_part,        \* per side, the part of a line read so far
  written,          \* per side, what was written to it
  writing,          \* the line being written, and
  target,           \* the side it is written to
  name_established, \* whether the first line of the client has been seen
  ended,            \* the sides whose get_next_line returned None
  closed,           \* the sides whose peer has closed its connection
  broken,           \* whether a write has failed
  relay             \* "selecting", "writing", "ended"

peerVars == <<sent, closed>>
lineVars == <<taken, prev_part>>
writeVars == <<written, writing, target>>
endVars == <<ended, broken>>
proxyVars == <<peerVars, lineVars, writeVars, name_established, endVars, relay>>

Init ==
  /\ sent = [s \in Side |-> <<>>] /\ taken = [s \in Side |-> 0]
  /\ prev_part = [s \in Side |-> <<>>]
  /\ written = [s \in Side |-> <<>>] /\ writing = <<>> /\ target = "client"
  /\ name_established = FALSE
  /\ ended = {} /\ closed = {} /\ broken = FALSE
  /\ relay = "selecting"

-----------------------------------------------------------------------------
(* replace_address: spaces are doubled, so that two matches of the regular *)
(* expression, (^| )address($| |\n), never need the same space; matches    *)
(* are taken from left to right and do not overlap; spaces are halved.     *)
Doubled(text) ==
  FoldLeft(LAMBDA done, t : done \o (IF t = Space THEN <<t, t>> ELSE <<t>>), <<>>, text)

(* "used" is the place of the last token that a match has consumed.        *)
Substituted(text) ==
  LET Matches(i, used) ==
        /\ text[i] = Address
        /\ i = 1 \/ (text[i - 1] = Space /\ used < i - 1)
        /\ i = Len(text) \/ text[i + 1] \in {Space, NewLine}
      Step(acc, i) ==
        IF Matches(i, acc.used)
        THEN [done |-> Append(acc.done, Tony), used |-> i + 1]
        ELSE [acc EXCEPT !.done = Append(@, text[i])]
  IN  FoldLeft(Step, [done |-> <<>>, used |-> 0], [i \in 1..Len(text) |-> i]).done

(* Every two spaces in a row, from the left, become one.                   *)
Halved(text) ==
  LET Step(acc, t) ==
        IF t = Space /\ acc.odd THEN [acc EXCEPT !.odd = FALSE]
        ELSE [done |-> Append(acc.done, t), odd |-> t = Space]
  IN  FoldLeft(Step, [done |-> <<>>, odd |-> FALSE], text).done

(* Mutant: spaces are not doubled first.                                   *)
replace_addressOnce(text) == Substituted(text)

(* Pass by pass; a set of one text is a text that is computed once.         *)
replace_address(text) ==
  CHOOSE r \in {Halved(s) : s \in {Substituted(d) : d \in {Doubled(text)}}} : TRUE

-----------------------------------------------------------------------------
(* The task.                                                               *)

HasLine(s) == prev_part[s] # <<>> /\ prev_part[s][Len(prev_part[s])] = NewLine

(* get_next_line reads on until its part ends a line.  When the other side *)
(* is ready first it is dropped, and its part is still there the next time.*)
ReadToken(s) ==
  /\ relay = "selecting" /\ ~HasLine(s)
  /\ taken[s] < Len(sent[s]) /\ sent[s][taken[s] + 1] # Wide
  /\ taken' = [taken EXCEPT ![s] = @ + 1]
  /\ prev_part' = [prev_part EXCEPT ![s] = Append(@, sent[s][taken[s] + 1])]
  /\ UNCHANGED <<peerVars, writeVars, name_established, endVars, relay>>

(* None: a closed side that was read to its end, or a wide character, of   *)
(* which the rest is never a text either.  It may happen again and again:  *)
(* the side stays in the select!.                                          *)
EndSide(s) ==
  /\ relay = "selecting" /\ ~HasLine(s)
  /\ \/ taken[s] = Len(sent[s]) /\ s \in closed /\ UNCHANGED taken
     \/ /\ taken[s] < Len(sent[s]) /\ sent[s][taken[s] + 1] = Wide
        /\ taken' = [taken EXCEPT ![s] = @ + 1]
  /\ ended' = ended \union {s}
  /\ relay' = IF ended' = Side THEN "ended" ELSE relay
  /\ UNCHANGED <<peerVars, prev_part, writeVars, name_established, broken>>

(* A whole line is taken, rewritten unless it is the name of the client.   *)
TakeLine(s) ==
  /\ relay = "selecting" /\ HasLine(s)
  /\ prev_part' = [prev_part EXCEPT ![s] = <<>>]
  /\ writing' = IF s = "server" \/ name_established
                THEN replace_address(prev_part[s]) ELSE prev_part[s]
  /\ target' = Other(s)
  /\ name_established' = (name_established \/ s = "client")
  /\ relay' = "writing"
  /\ UNCHANGED <<peerVars, taken, written, endVars>>

WriteLine ==
  /\ relay = "writing" /\ Other(target) \notin ended
  /\ written' = [written EXCEPT ![target] = @ \o writing]
  /\ writing' = <<>>
  /\ relay' = "selecting"
  /\ UNCHANGED <<peerVars, lineVars, target, name_established, endVars>>

(* Mutant: a failed write is ignored.                                      *)
FailToWriteIgnored ==
  /\ relay = "writing" /\ (Other(target) \in ended \/ target \in closed)
  /\ relay' = "selecting"
  /\ UNCHANGED <<peerVars, lineVars, writeVars, name_established, endVars>>

(* A write fails when the writer was shut down, and may fail when the peer *)
(* has closed.                                                             *)
FailToWrite ==
  /\ relay = "writing" /\ (Other(target) \in ended \/ target \in closed)
  /\ broken' = TRUE
  /\ relay' = "ended"
  /\ UNCHANGED <<peerVars, lineVars, writeVars, name_established, ended>>

-----------------------------------------------------------------------------
(* The peers.                                                              *)
Send(s, text) ==
  /\ s \notin closed /\ Len(sent[s]) + Len(text) <= MaxTokens
  /\ sent' = [sent EXCEPT ![s] = @ \o text]
  /\ UNCHANGED <<closed, lineVars, writeVars, name_established, endVars, relay>>

Close(s) ==
  /\ s \notin closed
  /\ closed' = closed \union {s}
  /\ UNCHANGED <<sent, lineVars, writeVars, name_established, endVars, relay>>

Next ==
  \/ \E s \in Side :
       \/ ReadToken(s) \/ EndSide(s) \/ TakeLine(s)
       \/ \E text \in Texts : Send(s, text)
       \/ Close(s)
  \/ WriteLine \/ FailToWrite

Spec == Init /\ [][Next]_proxyVars

(* The task reads what is there, and select! polls its branches in random  *)
(* order: a side that has ended cannot keep it from the other one.  A peer *)
(* that has not closed reads what is written to it: the task does nothing  *)
(* else while it writes, so that one that does not would stop both         *)
(* directions.                                                             *)
Fairness ==
  /\ \A s \in Side : WF_proxyVars(ReadToken(s)) /\ WF_proxyVars(EndSide(s))
                    /\ SF_proxyVars(TakeLine(s))
  /\ WF_proxyVars(WriteLine) /\ WF_proxyVars(FailToWrite)

FairSpec == Spec /\ Fairness
-----------------------------------------------------------------------------
TypeOK ==
  /\ sent \in [Side -> Seq(Token)] /\ taken \in [Side -> 0..MaxTokens]
  /\ \A s \in Side : taken[s] <= Len(sent[s])
  /\ prev_part \in [Side -> Seq(Token \ {Wide})]
  /\ written \in [Side -> Seq((Token \union {Tony}) \ {Wide})]
  /\ writing \in Seq((Token \union {Tony}) \ {Wide}) /\ target \in Side
  /\ name_established \in BOOLEAN /\ broken \in BOOLEAN
  /\ ended \subseteq Side /\ closed \subseteq Side
  /\ relay \in {"selecting", "writing", "ended"}

(* What a token of a side is for the other side: an address that is a      *)
(* whole word is Tony's, except in the first line of the client, its name. *)
InName(s, i) == s = "client" /\ \A j \in 1..(i - 1) : sent[s][j] # NewLine
WholeWord(s, i) ==
  /\ i = 1 \/ sent[s][i - 1] \in {Space, NewLine}
  /\ i < Len(sent[s]) /\ sent[s][i + 1] \in {Space, NewLine}
Rewritten(s, i) ==
  IF sent[s][i] = Address /\ WholeWord(s, i) /\ ~InName(s, i) THEN Tony ELSE sent[s][i]

(* A side receives what the other one sent, in order, without loss,        *)
(* repetition or mixture however the waits for lines were cancelled, with  *)
(* every address rewritten and nothing else; and when the relay ends       *)
(* because both sides have ended, it has received every whole line sent    *)
(* before a wide character, and only an unfinished last line is dropped.   *)
RelayedExactly ==
  \A s \in Side :
    LET got == written[Other(s)] IN
    /\ Len(got) <= Len(sent[s])
    /\ \A i \in 1..Len(got) : got[i] = Rewritten(s, i)
    /\ relay = "ended" /\ ~broken =>
         \A i \in 1..Len(sent[s]) :
           sent[s][i] = NewLine /\ (\A j \in 1..i : sent[s][j] # Wide) => i <= Len(got)

(* Whole lines are relayed, also when the other side has ended and is      *)
(* polled all the time: none stays behind, unless the task ends.           *)
Outstanding(s) ==
  \E i \in (Len(written[Other(s)]) + 1)..Len(sent[s]) : sent[s][i] = NewLine
LinesRelayed ==
  \A s \in Side : Outstanding(s) ~> ~Outstanding(s) \/ relay = "ended"
=============================================================================
