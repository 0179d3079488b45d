------------------------- MODULE LineReversalProofs -------------------------
(***************************************************************************)
(* Proofs about LineReversal, for any text, any cutting of it into packets,*)
(* any capacity of the channel and any loss, repetition and reordering.    *)
(***************************************************************************)
EXTENDS LineReversal, SequenceTheorems, FiniteSetTheorems, WellFoundedInduction, TLAPS

-----------------------------------------------------------------------------
(* Numbers, and functions that are defined by recursion over them. *)

(* A set of numbers that has an element has a least one: what the lemmas   *)
(* below use where an induction would be used otherwise.                   *)
LEMMA LeastNumber ==
  ASSUME NEW S \in SUBSET Nat, S # {}
  PROVE  \E n \in S : \A m \in S : n <= m
<1> DEFINE R == OpToRel(<, Nat)
<1>1. \A m, n \in Nat : m < n => <<m, n>> \in R
  BY DEF OpToRel
<1>2. IsWellFoundedOn(R, Nat)
  BY NatLessThanWellFounded
<1> HIDE DEF R
<1>3. \E n \in S : \A m \in S : <<m, n>> \notin R
  BY <1>2, WFMin
<1>4. PICK n \in S : \A m \in S : <<m, n>> \notin R
  BY <1>3
<1>5. ASSUME NEW m \in S
      PROVE  n <= m
  <2>1. m \in Nat /\ n \in Nat /\ ~(m < n)
    BY <1>1, <1>4
  <2>. QED  BY <2>1
<1>. QED  BY <1>5

(* If the numbers up to N with a property contain 0 and, with every number *)
(* below N, the next one, they are all.                                    *)
LEMMA UpTo ==
  ASSUME NEW N \in Nat, NEW S, 0 \in S, \A n \in 0..(N - 1) : n \in S => n + 1 \in S
  PROVE  \A n \in 0..N : n \in S
<1> DEFINE out == {n \in 0..N : n \notin S}
<1>1. SUFFICES ASSUME out # {}
               PROVE  FALSE
  OBVIOUS
<1>2. out \in SUBSET Nat
  OBVIOUS
<1> HIDE DEF out
<1>3. PICK n \in out : \A m \in out : n <= m
  BY <1>1, <1>2, LeastNumber
<1>4. n \in 0..N /\ n \notin S
  BY <1>3 DEF out
<1>5. n # 0 /\ n - 1 \in 0..(N - 1) /\ (n - 1) + 1 = n
  BY <1>4
<1>6. n - 1 \notin S
  BY <1>4, <1>5
<1>7. n - 1 \in out
  BY <1>4, <1>5, <1>6 DEF out
<1>8. n <= n - 1
  BY <1>3, <1>7
<1>. QED  BY <1>4, <1>8

(* A recursion whose steps keep to a set defines a function. *)
LEMMA Recursion ==
  ASSUME NEW S, NEW base \in S, NEW N \in Nat, NEW step \in [1..N -> [S -> S]]
  PROVE  \E f \in [0..N -> S] : f[0] = base /\ \A n \in 1..N : f[n] = step[n][f[n - 1]]
<1> DEFINE Steps(f, m) == f[0] = base /\ \A n \in 1..m : f[n] = step[n][f[n - 1]]
           defined == {m \in Nat : \E f \in [0..m -> S] : Steps(f, m)}
<1>1. 0 \in defined
  <2>1. [n \in 0..0 |-> base] \in [0..0 -> S] /\ Steps([n \in 0..0 |-> base], 0)
    OBVIOUS
  <2>. QED  BY <2>1
<1>2. ASSUME NEW m \in 0..(N - 1), m \in defined
      PROVE  m + 1 \in defined
  <2>1. PICK g \in [0..m -> S] : Steps(g, m)
    BY <1>2
  <2>2. m + 1 \in 1..N /\ m \in 0..m /\ m + 1 \notin 0..m /\ 0 \in 0..m /\ m + 1 \in Nat
    OBVIOUS
  <2> DEFINE f == [n \in 0..(m + 1) |-> IF n = m + 1 THEN step[m + 1][g[m]] ELSE g[n]]
  <2>3. step[m + 1][g[m]] \in S
    BY <2>2
  <2>4. f \in [0..(m + 1) -> S]
    BY <2>3
  <2>5. f[0] = base
    BY <2>1, <2>2
  <2>6. ASSUME NEW n \in 1..(m + 1)
        PROVE  f[n] = step[n][f[n - 1]]
    <3>1. CASE n = m + 1
      <4>1. n - 1 = m /\ f[n] = step[m + 1][g[m]] /\ f[m] = g[m]
        BY <2>2, <3>1
      <4>. QED  BY <3>1, <4>1
    <3>2. CASE n # m + 1
      <4>1. n \in 1..m /\ n - 1 \in 0..m /\ n - 1 # m + 1
        BY <3>2
      <4>2. f[n] = g[n] /\ f[n - 1] = g[n - 1]
        BY <4>1, <3>2
      <4>. QED  BY <2>1, <4>1, <4>2
    <3>. QED  BY <3>1, <3>2
  <2> HIDE DEF f
  <2>7. Steps(f, m + 1)
    BY <2>5, <2>6
  <2>. QED  BY <2>2, <2>4, <2>7
<1>3. N \in defined
  <2> HIDE DEF defined
  <2>1. \A n \in 0..N : n \in defined
    BY <1>1, <1>2, UpTo
  <2>. QED  BY <2>1
<1>. QED  BY <1>3

-----------------------------------------------------------------------------
(* Packets that follow one another. *)

LEMMA PacketFacts ==
  ASSUME NEW p \in Packet
  PROVE  /\ p.pos \in Nat /\ p.data \in Seq(Char) /\ Len(p.data) \in Nat
         /\ ack_until(p) = p.pos + Len(p.data) /\ ack_until(p) \in Nat
         /\ p.data # << >> <=> p.pos < ack_until(p)
BY DEF Packet, ack_until

(* Where packets that start from position pos end. *)
End(cs, pos) == IF cs = << >> THEN pos ELSE ack_until(cs[Len(cs)])

(* Packets with data that follow one another from position pos on. *)
Chain(cs, pos) ==
  /\ cs \in Seq(Packet)
  /\ \A k \in 1..Len(cs) : /\ cs[k].data # << >>
                          /\ cs[k].pos = IF k = 1 THEN pos ELSE ack_until(cs[k - 1])

(* What packet p carries is in the text, which starts at position pos. *)
Part(p, pos, text) ==
  \A i \in 1..Len(p.data) : /\ p.pos - pos + i \in 1..Len(text)
                           /\ p.data[i] = text[p.pos - pos + i]

Parts(cs, pos, text) == \A k \in 1..Len(cs) : Part(cs[k], pos, text)

LEMMA AppendFacts ==
  ASSUME NEW S, NEW s \in Seq(S), NEW e \in S
  PROVE  /\ Append(s, e) \in Seq(S) /\ Append(s, e) # << >>
         /\ Len(s) \in Nat /\ Len(Append(s, e)) = Len(s) + 1
         /\ \A i \in 1..Len(s) : Append(s, e)[i] = s[i]
         /\ Append(s, e)[Len(s) + 1] = e
         /\ \A i \in 1..(Len(s) + 1) : i \in 1..Len(s) \/ i = Len(s) + 1
<1>1. Append(s, e) \in Seq(S) /\ Len(s) \in Nat /\ Len(Append(s, e)) = Len(s) + 1
  OBVIOUS
<1>2. Append(s, e) # << >>
  BY <1>1
<1>3. \A i \in 1..Len(s) : Append(s, e)[i] = s[i]
  OBVIOUS
<1>4. Append(s, e)[Len(s) + 1] = e
  OBVIOUS
<1>5. \A i \in 1..(Len(s) + 1) : i \in 1..Len(s) \/ i = Len(s) + 1
  BY <1>1
<1>. QED  BY <1>1, <1>2, <1>3, <1>4, <1>5

LEMMA ChainAppend ==
  ASSUME NEW pos \in Nat, NEW cs, Chain(cs, pos), NEW p \in Packet,
         p.pos = End(cs, pos), p.data # << >>
  PROVE  Chain(Append(cs, p), pos) /\ End(Append(cs, p), pos) = ack_until(p)
<1> DEFINE new == Append(cs, p)
<1>1. cs \in Seq(Packet) /\ Len(cs) \in Nat
  BY DEF Chain
<1>2. /\ new \in Seq(Packet) /\ new # << >> /\ Len(new) = Len(cs) + 1
      /\ \A i \in 1..Len(cs) : new[i] = cs[i]
      /\ new[Len(cs) + 1] = p
      /\ \A i \in 1..(Len(cs) + 1) : i \in 1..Len(cs) \/ i = Len(cs) + 1
  BY <1>1, AppendFacts
<1> HIDE DEF new
<1>3. ASSUME NEW k \in 1..Len(new)
      PROVE  /\ new[k].data # << >>
             /\ new[k].pos = IF k = 1 THEN pos ELSE ack_until(new[k - 1])
  <2>1. CASE k \in 1..Len(cs)
    <3>1. cs[k].data # << >> /\ cs[k].pos = IF k = 1 THEN pos ELSE ack_until(cs[k - 1])
      BY <2>1 DEF Chain
    <3>2. k # 1 => k - 1 \in 1..Len(cs)
      BY <1>1, <2>1
    <3>. QED  BY <1>2, <2>1, <3>1, <3>2
  <2>2. CASE k = Len(cs) + 1
    <3>1. CASE cs = << >>
      <4>1. Len(cs) = 0
        BY <3>1
      <4>. QED  BY <1>2, <2>2, <3>1, <4>1 DEF End
    <3>2. CASE cs # << >>
      <4>1. Len(cs) > 0
        BY <1>1, <3>2
      <4>2. k # 1 /\ k - 1 = Len(cs) /\ k - 1 \in 1..Len(cs)
        BY <1>1, <2>2, <4>1
      <4>. QED  BY <1>2, <2>2, <3>2, <4>2 DEF End
    <3>. QED  BY <3>1, <3>2
  <2>. QED  BY <1>2, <2>1, <2>2
<1>4. Chain(new, pos)
  BY <1>2, <1>3 DEF Chain
<1>5. End(new, pos) = ack_until(p)
  BY <1>2 DEF End
<1>. QED  BY <1>4, <1>5 DEF new

LEMMA PartsAppend ==
  ASSUME NEW pos, NEW text, NEW cs \in Seq(Packet), Parts(cs, pos, text),
         NEW p \in Packet, Part(p, pos, text)
  PROVE  Parts(Append(cs, p), pos, text)
<1>1. /\ Len(Append(cs, p)) = Len(cs) + 1
      /\ \A i \in 1..Len(cs) : Append(cs, p)[i] = cs[i]
      /\ Append(cs, p)[Len(cs) + 1] = p
      /\ \A i \in 1..(Len(cs) + 1) : i \in 1..Len(cs) \/ i = Len(cs) + 1
  BY AppendFacts
<1>. QED  BY <1>1 DEF Parts

(* Without the first packet, the others follow it. *)
LEMMA ChainTail ==
  ASSUME NEW pos \in Nat, NEW cs, Chain(cs, pos), cs # << >>
  PROVE  /\ Head(cs) = cs[1] /\ Head(cs) \in Packet /\ Head(cs).pos = pos /\ Head(cs).data # << >>
         /\ Chain(Tail(cs), ack_until(Head(cs)))
         /\ End(Tail(cs), ack_until(Head(cs))) = End(cs, pos)
         /\ Tail(cs) \in Seq(Packet) /\ Len(Tail(cs)) = Len(cs) - 1
         /\ \A k \in 1..Len(Tail(cs)) : k + 1 \in 1..Len(cs) /\ Tail(cs)[k] = cs[k + 1]
<1>1. cs \in Seq(Packet) /\ Len(cs) \in Nat /\ Len(cs) > 0
  BY DEF Chain
<1>2. /\ Head(cs) = cs[1] /\ Tail(cs) \in Seq(Packet) /\ Len(Tail(cs)) = Len(cs) - 1
      /\ \A k \in 1..Len(Tail(cs)) : k + 1 \in 1..Len(cs) /\ Tail(cs)[k] = cs[k + 1]
  BY <1>1
<1>3. cs[1] \in Packet /\ cs[1].pos = pos /\ cs[1].data # << >>
  BY <1>1 DEF Chain
<1>4. ASSUME NEW k \in 1..Len(Tail(cs))
      PROVE  /\ Tail(cs)[k].data # << >>
             /\ Tail(cs)[k].pos = IF k = 1 THEN ack_until(cs[1]) ELSE ack_until(Tail(cs)[k - 1])
  <2>1. k + 1 \in 1..Len(cs) /\ Tail(cs)[k] = cs[k + 1] /\ k \in Nat /\ k + 1 # 1 /\ (k + 1) - 1 = k
    BY <1>1, <1>2
  <2>2. cs[k + 1].data # << >> /\ cs[k + 1].pos = ack_until(cs[k])
    BY <2>1 DEF Chain
  <2>3. k # 1 => Tail(cs)[k - 1] = cs[k]
    <3>1. k # 1 => k - 1 \in 1..Len(Tail(cs)) /\ (k - 1) + 1 = k
      BY <2>1
    <3>. QED  BY <1>2, <3>1
  <2>. QED  BY <2>1, <2>2, <2>3
<1>5. Chain(Tail(cs), ack_until(Head(cs)))
  BY <1>2, <1>4 DEF Chain
<1>6. End(Tail(cs), ack_until(Head(cs))) = End(cs, pos)
  <2>1. CASE Len(cs) = 1
    BY <1>1, <1>2, <2>1 DEF End
  <2>2. CASE Len(cs) # 1
    <3>0. Len(Tail(cs)) \in Nat /\ Len(Tail(cs)) > 0 /\ Len(Tail(cs)) + 1 = Len(cs)
      BY <1>1, <1>2, <2>2
    <3>1. Tail(cs) # << >> /\ Len(Tail(cs)) \in 1..Len(Tail(cs)) /\ Len(Tail(cs)) + 1 = Len(cs)
      BY <3>0
    <3>. QED  BY <1>1, <1>2, <3>1 DEF End
  <2>. QED  BY <2>1, <2>2
<1>. QED  BY <1>1, <1>2, <1>3, <1>5, <1>6

-----------------------------------------------------------------------------
(* What split_data cuts. *)

Splitting == [cut : Seq(Packet), pos : Nat, cur : Seq(Char), size : Nat]

(* After the first n characters of data. *)
Split(s, pos, data, n) ==
  /\ s \in Splitting
  /\ Chain(s.cut, pos) /\ Parts(s.cut, pos, data) /\ s.pos = End(s.cut, pos)
  /\ s.pos >= pos /\ s.pos + Len(s.cur) = pos + n
  /\ \A i \in 1..Len(s.cur) : s.cur[i] = data[s.pos - pos + i]
  /\ IF n = 0 THEN s.size = 0 ELSE s.cur # << >>

LEMMA CharSize == \A c \in Char : char_size(c) \in 1..2
BY DEF char_size

LEMMA TakeCharType ==
  ASSUME NEW s \in Splitting, NEW c \in Char
  PROVE  TakeChar(s, c, char_size) \in Splitting
<1>1. /\ s.cut \in Seq(Packet) /\ s.pos \in Nat /\ s.cur \in Seq(Char) /\ s.size \in Nat
      /\ char_size(c) \in Nat
  BY CharSize DEF Splitting
<1>2. [pos |-> s.pos, data |-> s.cur] \in Packet
  BY <1>1 DEF Packet
<1>3. /\ Append(s.cut, [pos |-> s.pos, data |-> s.cur]) \in Seq(Packet)
      /\ s.pos + Len(s.cur) \in Nat /\ <<c>> \in Seq(Char)
      /\ Append(s.cur, c) \in Seq(Char) /\ s.size + char_size(c) \in Nat
  BY <1>1, <1>2
<1>. QED  BY <1>1, <1>3 DEF TakeChar, Splitting

LEMMA SplitStep ==
  ASSUME NEW pos \in Nat, NEW data \in Seq(Char), NEW n \in 0..(Len(data) - 1),
         NEW s, Split(s, pos, data, n)
  PROVE  Split(TakeChar(s, data[n + 1], char_size), pos, data, n + 1)
<1> DEFINE c == data[n + 1]
           t == TakeChar(s, c, char_size)
           done == [pos |-> s.pos, data |-> s.cur]
<1>1. c \in Char /\ n \in Nat /\ n + 1 \in 1..Len(data) /\ n + 1 # 0
  OBVIOUS
<1>2. /\ s \in Splitting /\ s.cut \in Seq(Packet) /\ s.pos \in Nat /\ s.cur \in Seq(Char) /\ s.size \in Nat
      /\ Len(s.cur) \in Nat /\ char_size(c) \in 1..2
  BY <1>1, CharSize DEF Split, Splitting
<1>3. /\ Chain(s.cut, pos) /\ Parts(s.cut, pos, data) /\ s.pos = End(s.cut, pos)
      /\ s.pos >= pos /\ s.pos + Len(s.cur) = pos + n
      /\ \A i \in 1..Len(s.cur) : s.cur[i] = data[s.pos - pos + i]
      /\ IF n = 0 THEN s.size = 0 ELSE s.cur # << >>
  BY DEF Split
<1> HIDE DEF c
<1>4. t \in Splitting
  BY <1>1, <1>2, TakeCharType
<1>5. CASE s.size + char_size(c) > MaxSize
  <2>1. t.cut = Append(s.cut, done) /\ t.pos = s.pos + Len(s.cur) /\ t.cur = <<c>>
    BY <1>5 DEF TakeChar
  <2>2. n # 0
    BY <1>2, <1>3, <1>5, SizeAssumption
  <2>3. done \in Packet /\ done.pos = s.pos /\ done.data = s.cur /\ ack_until(done) = s.pos + Len(s.cur)
    BY <1>2 DEF Packet, ack_until
  <2>4. done.data # << >> /\ done.pos = End(s.cut, pos)
    BY <1>3, <2>2, <2>3
  <2>5. Part(done, pos, data)
    <3>1. \A i \in 1..Len(s.cur) : s.pos - pos + i \in 1..Len(data)
      BY <1>1, <1>2, <1>3
    <3>. QED  BY <1>3, <2>3, <3>1 DEF Part
  <2> HIDE DEF t, done
  <2>6. Chain(t.cut, pos) /\ End(t.cut, pos) = t.pos
    BY <1>3, <2>1, <2>3, <2>4, ChainAppend
  <2>7. Parts(t.cut, pos, data)
    BY <1>2, <1>3, <2>1, <2>3, <2>5, PartsAppend
  <2>8. Len(t.cur) = 1 /\ t.cur[1] = c /\ t.cur # << >>
    BY <2>1
  <2>9. t.pos >= pos /\ t.pos + 1 = pos + (n + 1) /\ t.pos - pos + 1 = n + 1
    BY <1>1, <1>2, <1>3, <2>1
  <2>10. \A i \in 1..Len(t.cur) : t.cur[i] = data[t.pos - pos + i]
    <3>1. \A i \in 1..1 : i = 1
      OBVIOUS
    <3>. QED  BY <2>8, <2>9, <3>1 DEF c
  <2>11. Split(t, pos, data, n + 1)
    BY <1>1, <1>4, <2>6, <2>7, <2>8, <2>9, <2>10 DEF Split
  <2>. QED  BY <2>11 DEF t, c
<1>6. CASE ~(s.size + char_size(c) > MaxSize)
  <2>1. t.cut = s.cut /\ t.pos = s.pos /\ t.cur = Append(s.cur, c)
    BY <1>2, <1>6 DEF TakeChar, Splitting
  <2> HIDE DEF t
  <2>2. /\ Len(t.cur) = Len(s.cur) + 1 /\ t.cur # << >>
        /\ \A i \in 1..Len(s.cur) : t.cur[i] = s.cur[i]
        /\ t.cur[Len(s.cur) + 1] = c
        /\ \A i \in 1..(Len(s.cur) + 1) : i \in 1..Len(s.cur) \/ i = Len(s.cur) + 1
    <3>1. c \in Char /\ s.cur \in Seq(Char)
      BY <1>1, <1>2
    <3>. QED  BY <2>1, <3>1, AppendFacts
  <2>3. s.pos + (Len(s.cur) + 1) = pos + (n + 1) /\ s.pos - pos + (Len(s.cur) + 1) = n + 1
    <3> DEFINE a == s.pos
               l == Len(s.cur)
    <3>1. a \in Nat /\ l \in Nat /\ a + l = pos + n
      BY <1>2, <1>3
    <3> HIDE DEF a, l
    <3>2. a + (l + 1) = pos + (n + 1) /\ a - pos + (l + 1) = n + 1
      BY <1>1, <3>1
    <3>. QED  BY <3>2 DEF a, l
  <2>4. \A i \in 1..Len(t.cur) : t.cur[i] = data[t.pos - pos + i]
    BY <1>3, <2>1, <2>2, <2>3 DEF c
  <2>5. Split(t, pos, data, n + 1)
    BY <1>1, <1>3, <1>4, <2>1, <2>2, <2>3, <2>4 DEF Split
  <2>. QED  BY <2>5 DEF t, c
<1>. QED  BY <1>5, <1>6

LEMMA SplittingSteps ==
  ASSUME NEW base \in Splitting, NEW N \in Nat,
         NEW step \in [1..N -> [Splitting -> Splitting]]
  PROVE  \E f \in [0..N -> Splitting] : f[0] = base /\ \A n \in 1..N : f[n] = step[n][f[n - 1]]
BY Recursion

(* split_data cuts data that are not empty into packets that are not empty,*)
(* that follow one another and that carry all of the data.                 *)
LEMMA SplitData ==
  ASSUME NEW pos \in Nat, NEW data \in Seq(Char), data # << >>
  PROVE  /\ Chain(split_data(pos, data), pos) /\ split_data(pos, data) # << >>
         /\ End(split_data(pos, data), pos) = pos + Len(data)
         /\ Parts(split_data(pos, data), pos, data)
<1> DEFINE base == [cut |-> << >>, pos |-> pos, cur |-> << >>, size |-> 0]
           after == CHOOSE after : after = [n \in 0..Len(data) |->
                      IF n = 0 THEN base ELSE TakeChar(after[n - 1], data[n], char_size)]
           step == [n \in 1..Len(data) |-> [s \in Splitting |-> TakeChar(s, data[n], char_size)]]
<1>1. base \in Splitting /\ Len(data) \in Nat /\ Len(data) # 0
  BY DEF Splitting
<1>2. step \in [1..Len(data) -> [Splitting -> Splitting]]
  BY TakeCharType
<1>3. PICK f \in [0..Len(data) -> Splitting] :
        f[0] = base /\ \A n \in 1..Len(data) : f[n] = step[n][f[n - 1]]
  <2> HIDE DEF base, step
  <2>1. \E f \in [0..Len(data) -> Splitting] :
          f[0] = base /\ \A n \in 1..Len(data) : f[n] = step[n][f[n - 1]]
    BY <1>1, <1>2, SplittingSteps
  <2>. QED  BY <2>1
<1>4. f = [n \in 0..Len(data) |-> IF n = 0 THEN base ELSE TakeChar(f[n - 1], data[n], char_size)]
  <2>1. ASSUME NEW n \in 0..Len(data), n # 0
        PROVE  f[n] = TakeChar(f[n - 1], data[n], char_size)
    <3>1. n \in 1..Len(data) /\ n - 1 \in 0..Len(data)
      BY <1>1, <2>1
    <3>. QED  BY <1>3, <3>1
  <2> HIDE DEF base, step
  <2>2. f = [n \in 0..Len(data) |-> f[n]]
    OBVIOUS
  <2>. QED  BY <1>3, <2>1, <2>2
<1>5. after = [n \in 0..Len(data) |-> IF n = 0 THEN base ELSE TakeChar(after[n - 1], data[n], char_size)]
  <2> HIDE DEF base
  <2>. QED  BY <1>4
<1>6. split_data(pos, data)
        = Append(after[Len(data)].cut, [pos |-> after[Len(data)].pos, data |-> after[Len(data)].cur])
  BY DEF split_data, Chunks
<1> HIDE DEF after
<1> DEFINE good == {n \in 0..Len(data) : Split(after[n], pos, data, n)}
<1>7. 0 \in good
  <2>1. 0 \in 0..Len(data) /\ after[0] = base
    BY <1>1, <1>5
  <2>2. Chain(<< >>, pos) /\ Parts(<< >>, pos, data) /\ End(<< >>, pos) = pos
    BY DEF Chain, Parts, End
  <2>3. Split(base, pos, data, 0)
    BY <1>1, <2>2 DEF Split
  <2>. QED  BY <2>1, <2>3
<1> HIDE DEF base
<1>8. ASSUME NEW n \in 0..(Len(data) - 1), n \in good
      PROVE  n + 1 \in good
  <2>1. n + 1 \in 0..Len(data) /\ n + 1 # 0 /\ (n + 1) - 1 = n
    BY <1>1
  <2>2. after[n + 1] = TakeChar(after[n], data[n + 1], char_size)
    BY <1>5, <2>1
  <2>3. Split(after[n + 1], pos, data, n + 1)
    BY <1>8, <2>2, SplitStep
  <2>. QED  BY <2>1, <2>3
<1>9. Split(after[Len(data)], pos, data, Len(data))
  <2>1. Len(data) \in good
    <3> HIDE DEF good
    <3>1. \A n \in 0..Len(data) : n \in good
      BY <1>1, <1>7, <1>8, UpTo
    <3>. QED  BY <1>1, <3>1
  <2>. QED  BY <2>1
<1> DEFINE end == after[Len(data)]
           last == [pos |-> end.pos, data |-> end.cur]
<1> HIDE DEF end
<1>10. /\ end.cut \in Seq(Packet) /\ end.pos \in Nat /\ end.cur \in Seq(Char) /\ Len(end.cur) \in Nat
       /\ Chain(end.cut, pos) /\ Parts(end.cut, pos, data) /\ end.pos = End(end.cut, pos)
       /\ end.pos >= pos /\ end.pos + Len(end.cur) = pos + Len(data)
       /\ \A i \in 1..Len(end.cur) : end.cur[i] = data[end.pos - pos + i]
       /\ end.cur # << >>
  BY <1>1, <1>9 DEF Split, Splitting, end
<1>11. /\ last \in Packet /\ last.pos = end.pos /\ last.data = end.cur
       /\ ack_until(last) = pos + Len(data)
  BY <1>10 DEF Packet, ack_until
<1>12. Part(last, pos, data)
  <2>1. \A i \in 1..Len(end.cur) : end.pos - pos + i \in 1..Len(data)
    BY <1>1, <1>10
  <2>. QED  BY <1>10, <1>11, <2>1 DEF Part
<1>13. split_data(pos, data) = Append(end.cut, last)
  BY <1>6 DEF end
<1> HIDE DEF last
<1>14. Append(end.cut, last) # << >>
  <2>1. end.cut \in Seq(Packet) /\ last \in Packet
    BY <1>10, <1>11
  <2>. QED  BY <2>1, AppendFacts
<1>. QED  BY <1>10, <1>11, <1>12, <1>13, <1>14, ChainAppend, PartsAppend

-----------------------------------------------------------------------------
(* What process_buffers does to a connection. *)

Connection == [sent_ack_until : Nat, sent_until : Nat, consumed_until : Nat,
               buffered : Seq(Char), send_buffered : Seq(Packet)]

LEMMA ConnectionFacts ==
  ASSUME NEW c \in Connection
  PROVE  /\ c.sent_ack_until \in Nat /\ c.sent_until \in Nat /\ c.consumed_until \in Nat
         /\ c.buffered \in Seq(Char) /\ Len(c.buffered) \in Nat
         /\ c.send_buffered \in Seq(Packet)
         /\ recv_until(c) = Len(c.buffered) + c.consumed_until /\ recv_until(c) \in Nat
BY DEF Connection, recv_until

(* The end of the first line of a text. *)
LEMMA FirstLine ==
  ASSUME NEW text \in Seq(Char), Contains(text, Newline)
  PROVE  LET i == SelectInSeq(text, LAMBDA x : x = Newline)
         IN /\ i \in 1..Len(text) /\ text[i] = Newline
            /\ \A j \in 1..(i - 1) : text[j] # Newline
<1> DEFINE ends == {j \in 1..Len(text) : text[j] = Newline}
<1>1. ends # {} /\ ends \in SUBSET Nat
  BY DEF Contains
<1>2. PICK i \in ends : \A j \in ends : i <= j
  <2> HIDE DEF ends
  <2>1. \E i \in ends : \A j \in ends : i <= j
    BY <1>1, LeastNumber
  <2>. QED  BY <2>1
<1>3. Min(ends) = i
  <2>1. \A j \in ends : (\A k \in ends : j <= k) => j = i
    BY <1>2
  <2>2. Min(ends) = CHOOSE j \in ends : \A k \in ends : j <= k
    BY DEF Min
  <2> HIDE DEF ends
  <2>. QED  BY <1>2, <2>1, <2>2
<1>4. SelectInSeq(text, LAMBDA x : x = Newline) = i
  BY <1>1, <1>3 DEF SelectInSeq
<1>5. i \in 1..Len(text) /\ text[i] = Newline /\ \A j \in 1..(i - 1) : text[j] # Newline
  <2>1. Len(text) \in Nat /\ i \in 1..Len(text) /\ text[i] = Newline
    BY <1>2
  <2>2. ASSUME NEW j \in 1..(i - 1), text[j] = Newline
        PROVE  FALSE
    <3>1. j \in 1..Len(text) /\ ~(i <= j)
      BY <2>1
    <3>. QED  BY <1>2, <2>2, <3>1
  <2>. QED  BY <2>1, <2>2
<1>. QED  BY <1>4, <1>5

(* The first i characters of a text are a line, and Reversed turns it      *)
(* round up to its newline.                                                *)
LEMMA ReversedLine ==
  ASSUME NEW text \in Seq(Char), NEW i \in 1..Len(text)
  PROVE  LET answer == Reversed(SubSeq(text, 1, i))
         IN /\ answer \in Seq(Char) /\ Len(answer) = i /\ answer # << >>
            /\ \A j \in 1..(i - 1) : answer[j] = text[i - j]
            /\ answer[i] = Newline
<1> DEFINE line == SubSeq(text, 1, i)
           front == SubSeq(line, 1, i - 1)
           turned == [j \in 1..(i - 1) |-> front[(i - 1 - j) + 1]]
<1>1. Len(text) \in Nat /\ i \in Nat
  OBVIOUS
<1>2. line \in Seq(Char) /\ Len(line) = i /\ \A j \in 1..i : line[j] = text[j]
  BY <1>1
<1> HIDE DEF line
<1>3. front \in Seq(Char) /\ Len(front) = i - 1 /\ \A j \in 1..(i - 1) : front[j] = line[j]
  BY <1>1, <1>2
<1>4. Reversed(line) = Append(turned, Newline)
  BY <1>2, <1>3 DEF Reversed, Reverse, Front
<1> HIDE DEF front
<1>5. turned \in Seq(Char) /\ Len(turned) = i - 1
  <2>1. \A j \in 1..(i - 1) : (i - 1 - j) + 1 \in 1..(i - 1)
    BY <1>1
  <2>2. \A j \in 1..(i - 1) : front[(i - 1 - j) + 1] \in Char
    BY <1>3, <2>1, ElementOfSeq
  <2>3. turned \in [1..(i - 1) -> Char] /\ i - 1 \in Nat
    BY <1>1, <2>2
  <2>. QED  BY <2>3
<1>6. \A j \in 1..(i - 1) : turned[j] = text[i - j]
  <2>1. \A j \in 1..(i - 1) : (i - 1 - j) + 1 = i - j /\ i - j \in 1..(i - 1) /\ i - j \in 1..i
    BY <1>1
  <2>. QED  BY <1>2, <1>3, <2>1
<1> HIDE DEF turned
<1>7. Newline \in Char
  BY CharAssumption
<1>8. /\ Append(turned, Newline) \in Seq(Char) /\ Append(turned, Newline) # << >>
      /\ Len(Append(turned, Newline)) = i
      /\ \A j \in 1..(i - 1) : Append(turned, Newline)[j] = turned[j]
      /\ Append(turned, Newline)[i] = Newline
  <2>1. (i - 1) + 1 = i
    BY <1>1
  <2>. QED  BY <1>5, <1>7, <2>1, AppendFacts
<1>. QED  BY <1>4, <1>6, <1>8 DEF line

(* TakeLine leaves the connection as it is, or turns its first line into   *)
(* packets that continue what was sent.                                    *)
LEMMA TakeLineFacts ==
  ASSUME NEW c \in Connection, Chain(c.send_buffered, c.sent_until)
  PROVE  LET d == TakeLine(c)
         IN \/ d = c /\ (c.send_buffered # << >> \/ ~Contains(c.buffered, Newline))
            \/ /\ d \in Connection /\ c.send_buffered = << >>
               /\ d.sent_ack_until = c.sent_ack_until /\ d.sent_until = c.sent_until
               /\ Chain(d.send_buffered, d.sent_until) /\ d.send_buffered # << >>
               /\ \E i \in 1..Len(c.buffered) :
                    /\ c.buffered[i] = Newline
                    /\ \A j \in 1..(i - 1) : c.buffered[j] # Newline
                    /\ d.consumed_until = c.consumed_until + i
                    /\ d.buffered = SubSeq(c.buffered, i + 1, Len(c.buffered))
                    /\ End(d.send_buffered, d.sent_until) = c.sent_until + i
                    /\ Parts(d.send_buffered, c.sent_until, Reversed(SubSeq(c.buffered, 1, i)))
<1> DEFINE text == c.buffered
           i == SelectInSeq(text, LAMBDA x : x = Newline)
           answer == Reversed(SubSeq(text, 1, i))
           cs == split_data(c.sent_until, answer)
           d == TakeLine(c)
<1>1. CASE ~(c.send_buffered = << >> /\ Contains(c.buffered, Newline))
  BY <1>1 DEF TakeLine
<1>2. CASE c.send_buffered = << >> /\ Contains(c.buffered, Newline)
  <2>1. d = [c EXCEPT !.consumed_until = c.consumed_until + i,
                      !.buffered = SubSeq(text, i + 1, Len(text)),
                      !.send_buffered = cs]
    BY <1>2 DEF TakeLine
  <2>2. text \in Seq(Char) /\ c.consumed_until \in Nat /\ c.sent_until \in Nat /\ Len(text) \in Nat
    BY ConnectionFacts
  <2>3. /\ i \in 1..Len(text) /\ text[i] = Newline
        /\ \A j \in 1..(i - 1) : text[j] # Newline
    BY <1>2, <2>2, FirstLine
  <2> HIDE DEF i
  <2>4. answer \in Seq(Char) /\ Len(answer) = i /\ answer # << >>
    BY <2>2, <2>3, ReversedLine
  <2> HIDE DEF answer
  <2>5. /\ Chain(cs, c.sent_until) /\ cs # << >>
        /\ End(cs, c.sent_until) = c.sent_until + i
        /\ Parts(cs, c.sent_until, answer)
    BY <2>2, <2>4, SplitData
  <2> HIDE DEF cs
  <2>6. cs \in Seq(Packet) /\ SubSeq(text, i + 1, Len(text)) \in Seq(Char) /\ c.consumed_until + i \in Nat
    BY <2>2, <2>3, <2>5 DEF Chain
  <2>7. d \in Connection
    BY <2>1, <2>6 DEF Connection
  <2>8. /\ d.sent_ack_until = c.sent_ack_until /\ d.sent_until = c.sent_until
        /\ d.consumed_until = c.consumed_until + i
        /\ d.buffered = SubSeq(text, i + 1, Len(text)) /\ d.send_buffered = cs
    BY <2>1 DEF Connection
  <2> HIDE DEF d
  <2>9. \/ d = c /\ (c.send_buffered # << >> \/ ~Contains(c.buffered, Newline))
        \/ /\ d \in Connection /\ c.send_buffered = << >>
           /\ d.sent_ack_until = c.sent_ack_until /\ d.sent_until = c.sent_until
           /\ Chain(d.send_buffered, d.sent_until) /\ d.send_buffered # << >>
           /\ \E k \in 1..Len(c.buffered) :
                /\ c.buffered[k] = Newline
                /\ \A j \in 1..(k - 1) : c.buffered[j] # Newline
                /\ d.consumed_until = c.consumed_until + k
                /\ d.buffered = SubSeq(c.buffered, k + 1, Len(c.buffered))
                /\ End(d.send_buffered, d.sent_until) = c.sent_until + k
                /\ Parts(d.send_buffered, c.sent_until, Reversed(SubSeq(c.buffered, 1, k)))
    BY <1>2, <2>3, <2>5, <2>7, <2>8 DEF answer
  <2>. QED  BY <2>9 DEF d
<1>. QED  BY <1>1, <1>2

(* process_buffers sends the next packet, when there is one. *)
Sends(c, chunk) ==
  /\ chunk \in Packet /\ chunk.data # << >> /\ chunk.pos = c.sent_until
  /\ conn'.sent_until = ack_until(chunk)
  /\ pending' = [pos |-> chunk.pos, data |-> chunk.data, born |-> born, sends |-> FALSE]

LEMMA ProcessFacts ==
  ASSUME NEW c \in Connection, Chain(c.send_buffered, c.sent_until), process_buffers(c)
  PROVE  /\ conn' \in Connection
         /\ Chain(conn'.send_buffered, conn'.sent_until)
         /\ conn'.sent_ack_until = c.sent_ack_until
         /\ \/ /\ conn' = c /\ pending' = pending
               /\ c.send_buffered = << >> /\ ~Contains(c.buffered, Newline)
            \/ \E chunk : Sends(c, chunk)
<1> DEFINE d == TakeLine(c)
           chunk == Head(d.send_buffered)
<1>1. /\ d \in Connection /\ d.sent_until = c.sent_until /\ d.sent_ack_until = c.sent_ack_until
      /\ Chain(d.send_buffered, d.sent_until)
      /\ d.send_buffered = << >> => d = c /\ ~Contains(c.buffered, Newline)
  BY TakeLineFacts
<1>2. IF d.send_buffered = << >>
      THEN conn' = d /\ pending' = pending
      ELSE /\ conn' = [d EXCEPT !.send_buffered = Tail(d.send_buffered), !.sent_until = ack_until(chunk)]
           /\ pending' = [pos |-> chunk.pos, data |-> chunk.data, born |-> born, sends |-> FALSE]
  BY DEF process_buffers
<1> HIDE DEF d
<1>3. CASE d.send_buffered = << >>
  BY <1>1, <1>2, <1>3
<1>4. CASE d.send_buffered # << >>
  <2>1. d.sent_until \in Nat
    BY <1>1, ConnectionFacts
  <2>2. /\ chunk \in Packet /\ chunk.pos = d.sent_until /\ chunk.data # << >>
        /\ Chain(Tail(d.send_buffered), ack_until(chunk)) /\ Tail(d.send_buffered) \in Seq(Packet)
    BY <1>1, <1>4, <2>1, ChainTail
  <2> HIDE DEF chunk
  <2>3. ack_until(chunk) \in Nat
    BY <2>2, PacketFacts
  <2>4. /\ conn' \in Connection
        /\ conn'.send_buffered = Tail(d.send_buffered) /\ conn'.sent_until = ack_until(chunk)
        /\ conn'.sent_ack_until = d.sent_ack_until
    BY <1>1, <1>2, <1>4, <2>2, <2>3 DEF Connection
  <2>5. Sends(c, chunk)
    BY <1>1, <1>2, <1>4, <2>2, <2>4 DEF Sends
  <2>. QED  BY <1>1, <2>2, <2>4, <2>5
<1>. QED  BY <1>3, <1>4

-----------------------------------------------------------------------------
(* The types, and the counters of an active connection. *)

(* What was not acknowledged is behind sent_until, and the chunks that are *)
(* left to send follow it.                                                 *)
Linked ==
  state = "active" => /\ conn.sent_ack_until <= conn.sent_until
                      /\ Chain(conn.send_buffered, conn.sent_until)

LEMMA MessageFacts ==
  ASSUME NEW m \in Message
  PROVE  /\ m.kind \in {"connect", "close", "data", "ack", "internal"}
         /\ m.kind = "data" => m.pos \in Nat /\ m.data \in Seq(Char)
         /\ m.kind = "ack" => m.length \in Nat
         /\ m.kind = "internal" => m.msg \in Internal
BY DEF Message

LEMMA InternalFacts ==
  ASSUME NEW m \in Internal
  PROVE  /\ m.pos \in Nat /\ m.data \in Seq(Char) /\ m.born \in Nat /\ m.sends \in BOOLEAN
         /\ [pos |-> m.pos, data |-> m.data] \in Packet
         /\ ack_until(m) = m.pos + Len(m.data) /\ ack_until(m) \in Nat
         /\ [m EXCEPT !.sends = TRUE] \in Internal
         /\ m # Nothing
<1>1. /\ m.pos \in Nat /\ m.data \in Seq(Char) /\ m.born \in Nat /\ m.sends \in BOOLEAN
      /\ [m EXCEPT !.sends = TRUE] \in Internal
  BY DEF Internal
<1>2. [pos |-> m.pos, data |-> m.data] \in Packet
  BY <1>1 DEF Packet
<1>3. ack_until(m) = m.pos + Len(m.data) /\ ack_until(m) \in Nat
  BY <1>1 DEF ack_until
<1>4. m # Nothing
  <2>1. DOMAIN m = {"pos", "data", "born", "sends"} /\ DOMAIN Nothing = {"none"}
    BY DEF Internal, Nothing
  <2>. QED  BY <2>1
<1>. QED  BY <1>1, <1>2, <1>3, <1>4

LEMMA ArriveType ==
  ASSUME TypeOK, NEW m \in Message, Len(msg_recv) < Capacity
  PROVE  Append(msg_recv, m) \in Seq(Message) /\ Len(Append(msg_recv, m)) <= Capacity
<1>1. msg_recv \in Seq(Message) /\ Len(msg_recv) \in Nat
  BY DEF TypeOK
<1>2. Append(msg_recv, m) \in Seq(Message) /\ Len(Append(msg_recv, m)) = Len(msg_recv) + 1
  BY <1>1
<1>. QED  BY <1>1, <1>2, CapacityAssumption

LEMMA TakesType ==
  ASSUME TypeOK, NEW k, Takes(k)
  PROVE  /\ msg_recv' \in Seq(Message) /\ Len(msg_recv') <= Capacity
         /\ Head(msg_recv) \in Message /\ Head(msg_recv).kind = k
         /\ pending = Nothing /\ UNCHANGED peerVars
<1>1. msg_recv \in Seq(Message) /\ msg_recv # << >> /\ Len(msg_recv) <= Capacity
  BY DEF TypeOK, Takes
<1>2. /\ Tail(msg_recv) \in Seq(Message) /\ Head(msg_recv) \in Message
      /\ Len(Tail(msg_recv)) <= Len(msg_recv) /\ Len(Tail(msg_recv)) \in Nat /\ Len(msg_recv) \in Nat
  BY <1>1
<1>3. Len(Tail(msg_recv)) <= Capacity
  BY <1>1, <1>2, CapacityAssumption
<1>. QED  BY <1>2, <1>3 DEF Takes

(* What process_buffers leaves. *)
LEMMA ProcessType ==
  ASSUME TypeOK, NEW c \in Connection, Chain(c.send_buffered, c.sent_until),
         pending = Nothing, process_buffers(c)
  PROVE  conn' \in Connection /\ pending' \in Internal \union {Nothing}
<1>1. CASE pending' = pending
  BY <1>1, ProcessFacts DEF TypeOK
<1>2. ASSUME NEW chunk, Sends(c, chunk)
      PROVE  pending' \in Internal
  <2>1. chunk.pos \in Nat /\ chunk.data \in Seq(Char) /\ born \in Nat
    BY <1>2, PacketFacts DEF Sends, TypeOK
  <2>. QED  BY <1>2, <2>1 DEF Sends, Internal
<1>. QED  BY <1>1, <1>2, ProcessFacts

LEMMA AbsorbFacts ==
  ASSUME NEW c \in Connection, NEW m \in Message, m.kind = "data"
  PROVE  /\ Absorb(c, m) \in Connection
         /\ Absorb(c, m).send_buffered = c.send_buffered
         /\ Absorb(c, m).sent_until = c.sent_until
         /\ Absorb(c, m).sent_ack_until = c.sent_ack_until
         /\ Absorb(c, m).consumed_until = c.consumed_until
<1> DEFINE n == recv_until(c)
           text == c.buffered \o SubSeq(m.data, n - m.pos + 1, Len(m.data))
<1>1. CASE ~(m.pos <= n /\ m.pos + Len(m.data) > n)
  BY <1>1 DEF Absorb
<1>2. CASE m.pos <= n /\ m.pos + Len(m.data) > n
  <2>1. /\ n \in Nat /\ m.pos \in Nat /\ m.data \in Seq(Char) /\ Len(m.data) \in Nat
        /\ c.buffered \in Seq(Char)
    BY MessageFacts, ConnectionFacts
  <2>2. Absorb(c, m) = [c EXCEPT !.buffered = text]
    BY <1>2 DEF Absorb
  <2> HIDE DEF n
  <2>3. SubSeq(m.data, n - m.pos + 1, Len(m.data)) \in Seq(Char)
    BY <1>2, <2>1
  <2>4. text \in Seq(Char)
    BY <2>1, <2>3
  <2> HIDE DEF text
  <2>. QED  BY <2>2, <2>4 DEF Connection
<1>. QED  BY <1>1, <1>2

LEMMA AckedFacts ==
  ASSUME NEW c \in Connection, NEW length \in Nat
  PROVE  LET d == [c EXCEPT !.sent_ack_until = IF length > c.sent_ack_until THEN length ELSE c.sent_ack_until]
         IN /\ d \in Connection
            /\ d.send_buffered = c.send_buffered /\ d.sent_until = c.sent_until
            /\ d.buffered = c.buffered /\ d.consumed_until = c.consumed_until
            /\ d.sent_ack_until = IF length > c.sent_ack_until THEN length ELSE c.sent_ack_until
            /\ length <= c.sent_until /\ c.sent_ack_until <= c.sent_until => d.sent_ack_until <= c.sent_until
            /\ d.sent_ack_until >= c.sent_ack_until
BY DEF Connection

(* What the peer sends: nothing internal, and the data are its text. *)
Sent(x) ==
  /\ x \in Message /\ x.kind # "internal" /\ epoch \in Epoch
  /\ x.kind = "ack" => x.length <= Len(got)
  /\ x.kind = "data" => /\ x.pos + Len(x.data) <= Len(Input[epoch])
                        /\ \A i \in 1..Len(x.data) : x.data[i] = Input[epoch][x.pos + i]

Arrives ==
  \/ ArriveConnect \/ ArriveClose
  \/ \E i, j \in Cuts : ArriveData(i, j)
  \/ \E n \in 0..Len(got) : ArriveAck(n)

(* Connect packets are counted as they arrive. *)
Counted(x) == connects' = connects + (IF x.kind = "connect" THEN 1 ELSE 0)

LEMMA Arrivals ==
  ASSUME TypeOK, Arrives
  PROVE  connects' \in 0..MaxConnects /\ \E x : Arrive(x) /\ Sent(x) /\ Counted(x)
<1>1. CASE ArriveConnect
  <2>1. Arrive([kind |-> "connect"]) /\ connects' \in 0..MaxConnects
        /\ Counted([kind |-> "connect"])
    BY <1>1, BoundsAssumption DEF ArriveConnect, Counted, TypeOK
  <2>2. Sent([kind |-> "connect"])
    BY <2>1, EpochAssumption DEF Sent, Message, Arrive, TypeOK
  <2>. QED  BY <2>1, <2>2
<1>2. CASE ArriveClose
  <2>1. Arrive([kind |-> "close"]) /\ connects' \in 0..MaxConnects
        /\ Counted([kind |-> "close"])
    BY <1>2 DEF ArriveClose, Counted, TypeOK
  <2>2. Sent([kind |-> "close"])
    BY <2>1, EpochAssumption DEF Sent, Message, Arrive, TypeOK
  <2>. QED  BY <2>1, <2>2
<1>3. ASSUME NEW i \in Cuts, NEW j \in Cuts, ArriveData(i, j)
      PROVE  connects' \in 0..MaxConnects /\ \E x : Arrive(x) /\ Sent(x) /\ Counted(x)
  <2> DEFINE text == Input[epoch]
             data == SubSeq(text, i + 1, j)
             x == [kind |-> "data", pos |-> i, data |-> data]
  <2>1. /\ epoch \in Epoch /\ i \in Nat /\ j \in Nat /\ j <= Len(text) /\ i <= j
        /\ Arrive(x) /\ connects' \in 0..MaxConnects
        /\ Counted(x)
    BY <1>3, BoundsAssumption, EpochAssumption DEF ArriveData, Counted, TypeOK
  <2>2. text \in Seq(Char)
    BY <2>1, InputAssumption
  <2> HIDE DEF text
  <2>3. data \in Seq(Char) /\ Len(data) = j - i /\ \A k \in 1..Len(data) : data[k] = text[i + k]
    BY <2>1, <2>2, SubSeqProperties
  <2> HIDE DEF data
  <2>4. x \in Message
    BY <2>1, <2>3 DEF Message
  <2>5. i + Len(data) <= Len(text)
    BY <2>1, <2>2, <2>3
  <2>6. Sent(x)
    BY <2>1, <2>3, <2>4, <2>5 DEF Sent, text
  <2>. QED  BY <2>1, <2>6
<1>4. ASSUME NEW n \in 0..Len(got), ArriveAck(n)
      PROVE  connects' \in 0..MaxConnects /\ \E x : Arrive(x) /\ Sent(x) /\ Counted(x)
  <2>1. /\ n \in Nat /\ n <= Len(got) /\ connects' \in 0..MaxConnects
        /\ Arrive([kind |-> "ack", length |-> n]) /\ Counted([kind |-> "ack", length |-> n])
    BY <1>4 DEF ArriveAck, Counted, TypeOK
  <2>2. Sent([kind |-> "ack", length |-> n])
    BY <2>1, EpochAssumption DEF Sent, Message, Arrive, TypeOK
  <2>. QED  BY <2>1, <2>2
<1>. QED  BY <1>1, <1>2, <1>3, <1>4 DEF Arrives

(* Every step keeps the types. *)
LEMMA TypeStep ==
  ASSUME TypeOK, Linked, [Next]_vars
  PROVE  TypeOK'
<1>c. conn \in Connection
  BY DEF TypeOK, Connection
<1>f. Fresh \in Connection
  BY DEF Fresh, Connection
<1>1. CASE UNCHANGED vars
  BY <1>1 DEF vars, serverVars, peerVars, TypeOK
<1>2. CASE Open
  <2>1. epoch' \in Epoch /\ got' = << >> /\ written' = {} /\ told' = FALSE
        /\ UNCHANGED <<state, conn, born, pending, timers, msg_recv, connects>>
    BY <1>2 DEF Open
  <2>2. got' \in Seq(Char) /\ written' \subseteq Packet /\ epoch' \in Epoch \union {0}
    BY <2>1
  <2>. QED  BY <2>1, <2>2 DEF TypeOK
<1>3. CASE Arrives
  <2>1. connects' \in 0..MaxConnects /\ \E x \in Message : Arrive(x)
    BY <1>3, Arrivals DEF Sent
  <2>2. PICK x \in Message : Arrive(x)
    BY <2>1
  <2>3. msg_recv' \in Seq(Message) /\ Len(msg_recv') <= Capacity
    BY <2>2, ArriveType DEF Arrive
  <2>. QED  BY <2>1, <2>2, <2>3 DEF Arrive, serverVars, TypeOK
<1>8. ASSUME NEW p \in written, Receive(p)
      PROVE  TypeOK'
  <2>1. p.pos \in Nat /\ p.data \in Seq(Char) /\ Len(p.data) \in Nat /\ got \in Seq(Char) /\ Len(got) \in Nat
    BY PacketFacts DEF TypeOK
  <2>2. SubSeq(p.data, Len(got) - p.pos + 1, Len(p.data)) \in Seq(Char)
    BY <1>8, <2>1 DEF Receive
  <2>3. got' \in Seq(Char)
    BY <1>8, <2>1, <2>2 DEF Receive
  <2>. QED  BY <1>8, <2>3 DEF Receive, serverVars, TypeOK
<1>9. ASSUME NEW p \in written, Lose(p)
      PROVE  TypeOK'
  BY <1>9 DEF Lose, peerVars, TypeOK
<1>10. CASE SelfSend
  <2>1. pending \in Internal
    BY <1>10 DEF SelfSend, TypeOK
  <2>2. [kind |-> "internal", msg |-> pending] \in Message
    BY <2>1 DEF Message
  <2>3. msg_recv' \in Seq(Message) /\ Len(msg_recv') <= Capacity
    BY <1>10, <2>2, ArriveType DEF SelfSend
  <2>. QED  BY <1>10, <2>3 DEF SelfSend, peerVars, TypeOK
<1>11. CASE HandleConnect
  <2>1. msg_recv' \in Seq(Message) /\ Len(msg_recv') <= Capacity /\ UNCHANGED peerVars
    BY <1>11, TakesType DEF HandleConnect
  <2>2. conn' \in Connection /\ born' \in Nat /\ state' \in {"closed", "active"}
    BY <1>11, <1>c, <1>f DEF HandleConnect, TypeOK
  <2>. QED  BY <1>11, <2>1, <2>2 DEF HandleConnect, peerVars, TypeOK, Connection
<1>12. CASE HandleClosed
  <2>1. msg_recv' \in Seq(Message) /\ Len(msg_recv') <= Capacity /\ UNCHANGED peerVars
    BY <1>12, TakesType DEF HandleClosed
  <2>. QED  BY <1>12, <2>1 DEF HandleClosed, peerVars, TypeOK
<1>13. CASE HandleData
  <2>1. /\ msg_recv' \in Seq(Message) /\ Len(msg_recv') <= Capacity /\ UNCHANGED peerVars
        /\ Head(msg_recv) \in Message /\ Head(msg_recv).kind = "data" /\ pending = Nothing
    BY <1>13, TakesType DEF HandleData
  <2>2. /\ Absorb(conn, Head(msg_recv)) \in Connection
        /\ Chain(Absorb(conn, Head(msg_recv)).send_buffered, Absorb(conn, Head(msg_recv)).sent_until)
    BY <1>13, <1>c, <2>1, AbsorbFacts DEF HandleData, Linked
  <2>3. conn' \in Connection /\ pending' \in Internal \union {Nothing}
    BY <1>13, <2>1, <2>2, ProcessType DEF HandleData
  <2>. QED  BY <1>13, <2>1, <2>3 DEF HandleData, peerVars, TypeOK, Connection
<1>14. CASE HandleAck
  <2> DEFINE length == Head(msg_recv).length
             d == [conn EXCEPT !.sent_ack_until = IF length > conn.sent_ack_until THEN length
                                                  ELSE conn.sent_ack_until]
  <2>1. /\ msg_recv' \in Seq(Message) /\ Len(msg_recv') <= Capacity /\ UNCHANGED peerVars
        /\ Head(msg_recv) \in Message /\ Head(msg_recv).kind = "ack" /\ pending = Nothing
    BY <1>14, TakesType DEF HandleAck
  <2>2. length \in Nat
    BY <2>1, MessageFacts
  <2>3. CASE length > conn.sent_until
    <3>1. UNCHANGED <<conn, born, pending, timers, written>> /\ told' = TRUE /\ state' = "closed"
      BY <1>14, <2>3 DEF HandleAck, Close
    <3>. QED  BY <2>1, <3>1 DEF peerVars, TypeOK
  <2>4. CASE ~(length > conn.sent_until)
    <3>1. process_buffers(d) /\ UNCHANGED <<state, born, timers, written, told>>
      BY <1>14, <2>4 DEF HandleAck
    <3> HIDE DEF length
    <3>2. d \in Connection /\ Chain(d.send_buffered, d.sent_until)
      BY <1>14, <1>c, <2>2, AckedFacts DEF HandleAck, Linked
    <3> HIDE DEF d
    <3>3. conn' \in Connection /\ pending' \in Internal \union {Nothing}
      BY <2>1, <3>1, <3>2, ProcessType
    <3>. QED  BY <2>1, <3>1, <3>3 DEF peerVars, TypeOK, Connection
  <2>. QED  BY <2>3, <2>4
<1>15. CASE HandleClose
  <2>1. msg_recv' \in Seq(Message) /\ Len(msg_recv') <= Capacity /\ UNCHANGED peerVars
    BY <1>15, TakesType DEF HandleClose
  <2>. QED  BY <1>15, <2>1 DEF HandleClose, Close, peerVars, TypeOK
<1>16. CASE HandleInternal
  <2> DEFINE m == Head(msg_recv).msg
  <2>1. /\ msg_recv' \in Seq(Message) /\ Len(msg_recv') <= Capacity /\ UNCHANGED peerVars
        /\ Head(msg_recv) \in Message /\ Head(msg_recv).kind = "internal"
    BY <1>16, TakesType DEF HandleInternal
  <2>2. [pos |-> m.pos, data |-> m.data] \in Packet /\ [m EXCEPT !.sends = TRUE] \in Internal
    BY <2>1, MessageFacts, InternalFacts
  <2>3. \/ UNCHANGED serverVars
        \/ Expire
        \/ /\ written' = written \union {[pos |-> m.pos, data |-> m.data]}
           /\ timers' = timers \union {[m EXCEPT !.sends = TRUE]}
           /\ UNCHANGED <<state, conn, born, pending, told>>
    BY <1>16 DEF HandleInternal
  <2> HIDE DEF m
  <2>. QED  BY <2>1, <2>2, <2>3 DEF Expire, serverVars, peerVars, TypeOK
<1>17. ASSUME NEW m \in timers, WakeUp(m)
       PROVE  TypeOK'
  <2>1. m \in Internal
    BY DEF TypeOK
  <2>2. [kind |-> "internal", msg |-> m] \in Message
    BY <2>1 DEF Message
  <2>3. msg_recv' \in Seq(Message) /\ Len(msg_recv') <= Capacity
    BY <1>17, <2>2, ArriveType DEF WakeUp
  <2>. QED  BY <1>17, <2>3 DEF WakeUp, peerVars, TypeOK
<1>. QED
  BY <1>1, <1>2, <1>3, <1>8, <1>9, <1>10, <1>11, <1>12, <1>13, <1>14, <1>15, <1>16, <1>17
  DEF Next, Arrives

(* What a step does to the connection: nothing, it ends or begins, or      *)
(* process_buffers continues it.                                           *)
Continues(c) ==
  /\ state = "active" /\ state' = "active" /\ born' = born /\ pending = Nothing
  /\ c \in Connection /\ c.send_buffered = conn.send_buffered
  /\ c.sent_until = conn.sent_until /\ c.sent_ack_until >= conn.sent_ack_until
  /\ c.sent_ack_until <= c.sent_until
  /\ \/ c.buffered = conn.buffered /\ c.consumed_until = conn.consumed_until
     \/ Takes("data") /\ c = Absorb(conn, Head(msg_recv))
  /\ process_buffers(c)

LEMMA ConnectionStep ==
  ASSUME TypeOK, Linked, [Next]_vars
  PROVE  \/ conn' = conn /\ born' = born /\ (state' = state \/ state' = "closed") /\ pending' \in {pending, Nothing}
         \/ HandleConnect /\ state = "closed"
         \/ (HandleData \/ HandleAck) /\ \E c : Continues(c)
<1>c. conn \in Connection
  BY DEF TypeOK, Connection
<1>1. UNCHANGED vars => UNCHANGED <<state, conn, born, pending>>
  BY DEF vars, serverVars
<1>2. Open => UNCHANGED <<state, conn, born, pending>>
  BY DEF Open
<1>3. ArriveConnect \/ ArriveClose => UNCHANGED <<state, conn, born, pending>>
  BY DEF ArriveConnect, ArriveClose, Arrive, serverVars
<1>4. \A i, j : ArriveData(i, j) => UNCHANGED <<state, conn, born, pending>>
  BY DEF ArriveData, Arrive, serverVars
<1>5. \A n : ArriveAck(n) => UNCHANGED <<state, conn, born, pending>>
  BY DEF ArriveAck, Arrive, serverVars
<1>6. \A p : Receive(p) \/ Lose(p) => UNCHANGED <<state, conn, born, pending>>
  BY DEF Receive, Lose, serverVars
<1>7. SelfSend => UNCHANGED <<state, conn, born>> /\ pending' = Nothing
  BY DEF SelfSend
<1>8. HandleConnect => state = "closed" \/ UNCHANGED <<state, conn, born, pending>>
  BY DEF HandleConnect
<1>9. HandleClosed => UNCHANGED <<state, conn, born, pending>>
  BY DEF HandleClosed
<1>10. HandleClose => UNCHANGED <<conn, born, pending>> /\ state' = "closed"
  BY DEF HandleClose, Close
<1>11. HandleInternal => UNCHANGED <<conn, born, pending>> /\ (state' = state \/ state' = "closed")
  BY DEF HandleInternal, Expire, serverVars
<1>12. \A m : WakeUp(m) => UNCHANGED <<state, conn, born, pending>>
  BY DEF WakeUp
<1>13. ASSUME HandleData
       PROVE  \E c : Continues(c)
  <2>1. /\ Head(msg_recv) \in Message /\ Head(msg_recv).kind = "data" /\ pending = Nothing
    BY <1>13, TakesType DEF HandleData
  <2>2. /\ Absorb(conn, Head(msg_recv)) \in Connection
        /\ Absorb(conn, Head(msg_recv)).send_buffered = conn.send_buffered
        /\ Absorb(conn, Head(msg_recv)).sent_until = conn.sent_until
        /\ Absorb(conn, Head(msg_recv)).sent_ack_until = conn.sent_ack_until
    BY <1>c, <2>1, AbsorbFacts
  <2>3. /\ state = "active" /\ state' = "active" /\ born' = born
        /\ process_buffers(Absorb(conn, Head(msg_recv)))
        /\ conn.sent_ack_until <= conn.sent_until /\ conn.sent_ack_until \in Nat
        /\ Takes("data")
    BY <1>13, <1>c, ConnectionFacts DEF HandleData, Linked
  <2>4. conn.sent_ack_until >= conn.sent_ack_until
    BY <2>3
  <2>. QED  BY <2>1, <2>2, <2>3, <2>4 DEF Continues
<1>14. ASSUME HandleAck
       PROVE  (conn' = conn /\ born' = born /\ state' = "closed" /\ pending' = pending) \/ \E c : Continues(c)
  <2> DEFINE length == Head(msg_recv).length
             d == [conn EXCEPT !.sent_ack_until = IF length > conn.sent_ack_until THEN length
                                                  ELSE conn.sent_ack_until]
  <2>1. /\ Head(msg_recv) \in Message /\ Head(msg_recv).kind = "ack" /\ pending = Nothing
    BY <1>14, TakesType DEF HandleAck
  <2>2. length \in Nat /\ conn.sent_until \in Nat
    BY <1>c, <2>1, MessageFacts, ConnectionFacts
  <2>3. CASE length > conn.sent_until
    BY <1>14, <2>3 DEF HandleAck, Close
  <2>4. CASE ~(length > conn.sent_until)
    <3>1. process_buffers(d) /\ UNCHANGED <<state, born>> /\ state = "active"
      BY <1>14, <2>4 DEF HandleAck
    <3>2. length <= conn.sent_until /\ conn.sent_ack_until <= conn.sent_until
      BY <2>2, <2>4, <3>1 DEF Linked
    <3> HIDE DEF length
    <3>3. /\ d \in Connection /\ d.send_buffered = conn.send_buffered /\ d.sent_until = conn.sent_until
          /\ d.sent_ack_until <= conn.sent_until /\ d.sent_ack_until >= conn.sent_ack_until
          /\ d.buffered = conn.buffered /\ d.consumed_until = conn.consumed_until
      BY <1>c, <2>2, <3>2, AckedFacts
    <3> HIDE DEF d
    <3>. QED  BY <2>1, <3>1, <3>3 DEF Continues
  <2>. QED  BY <2>3, <2>4
<1>. QED
  BY <1>1, <1>2, <1>3, <1>4, <1>5, <1>6, <1>7, <1>8, <1>9, <1>10, <1>11, <1>12, <1>13, <1>14 DEF Next

(* What process_buffers leaves of a connection that a step continues.      *)
LEMMA ContinuesFacts ==
  ASSUME TypeOK, Linked, NEW c, Continues(c)
  PROVE  /\ conn' \in Connection /\ Chain(conn'.send_buffered, conn'.sent_until)
         /\ conn'.sent_ack_until = c.sent_ack_until
         /\ conn.sent_ack_until <= conn'.sent_ack_until
         /\ conn'.sent_ack_until <= conn'.sent_until
         /\ conn.sent_until <= conn'.sent_until
         /\ \/ /\ conn' = c /\ pending' = pending /\ conn'.sent_until = conn.sent_until
               /\ conn'.send_buffered = << >> /\ ~Contains(conn'.buffered, Newline)
            \/ /\ conn'.sent_ack_until < conn'.sent_until /\ conn.sent_until < conn'.sent_until
               /\ pending' \in Internal /\ pending'.born = born /\ pending'.pos = conn.sent_until
               /\ ack_until(pending)' = conn'.sent_until
<1>1. /\ c \in Connection /\ Chain(c.send_buffered, c.sent_until) /\ c.sent_until = conn.sent_until
      /\ c.sent_ack_until >= conn.sent_ack_until /\ c.sent_ack_until <= c.sent_until
      /\ pending = Nothing /\ process_buffers(c)
  BY DEF Continues, Linked
<1>2. /\ conn' \in Connection /\ Chain(conn'.send_buffered, conn'.sent_until)
      /\ conn'.sent_ack_until = c.sent_ack_until
      /\ \/ /\ conn' = c /\ pending' = pending
            /\ c.send_buffered = << >> /\ ~Contains(c.buffered, Newline)
         \/ \E chunk : Sends(c, chunk)
  BY <1>1, ProcessFacts
<1>3. /\ c.sent_ack_until \in Nat /\ c.sent_until \in Nat /\ conn.sent_ack_until \in Nat /\ conn.sent_until \in Nat
  BY <1>1, ConnectionFacts DEF TypeOK
<1>4. conn.sent_ack_until <= conn'.sent_ack_until
  BY <1>1, <1>2, <1>3
<1>5. CASE /\ conn' = c /\ pending' = pending
           /\ c.send_buffered = << >> /\ ~Contains(c.buffered, Newline)
  BY <1>1, <1>2, <1>3, <1>4, <1>5
<1>6. ASSUME NEW chunk, Sends(c, chunk)
      PROVE  /\ conn'.sent_ack_until < conn'.sent_until /\ conn.sent_until < conn'.sent_until
             /\ conn.sent_until <= conn'.sent_until
             /\ conn'.sent_ack_until <= conn'.sent_until
             /\ pending' \in Internal /\ pending'.born = born /\ pending'.pos = conn.sent_until
             /\ ack_until(pending)' = conn'.sent_until
  <2>1. /\ chunk \in Packet /\ chunk.data # << >> /\ chunk.pos = c.sent_until
        /\ conn'.sent_until = ack_until(chunk)
        /\ pending' = [pos |-> chunk.pos, data |-> chunk.data, born |-> born, sends |-> FALSE]
    BY <1>6 DEF Sends
  <2>2. /\ chunk.pos < ack_until(chunk) /\ ack_until(chunk) \in Nat /\ chunk.pos \in Nat
        /\ chunk.data \in Seq(Char) /\ ack_until(chunk) = chunk.pos + Len(chunk.data)
    BY <2>1, PacketFacts
  <2>3. /\ conn'.sent_ack_until < conn'.sent_until /\ conn.sent_until < conn'.sent_until
        /\ conn.sent_until <= conn'.sent_until
        /\ conn'.sent_ack_until <= conn'.sent_until
    BY <1>1, <1>2, <1>3, <2>1, <2>2
  <2>4. pending' \in Internal /\ pending'.born = born /\ pending'.pos = conn.sent_until
    BY <1>1, <2>1, <2>2 DEF Internal, TypeOK
  <2>5. ack_until(pending)' = conn'.sent_until
    BY <2>1, <2>2 DEF ack_until
  <2>. QED  BY <2>3, <2>4, <2>5
<1>. QED  BY <1>2, <1>4, <1>5, <1>6

LEMMA FreshFacts ==
  /\ Fresh.sent_ack_until = 0 /\ Fresh.sent_until = 0 /\ Fresh.consumed_until = 0
  /\ Fresh.buffered = << >> /\ Fresh.send_buffered = << >>
  /\ Chain(Fresh.send_buffered, Fresh.sent_until)
  /\ Fresh \in Connection
<1>1. << >> \in Seq(Packet) /\ \A k \in 1..Len(<< >>) : FALSE
  OBVIOUS
<1>. QED  BY <1>1 DEF Fresh, Chain, Connection

LEMMA LinkedStep ==
  ASSUME TypeOK, Linked, [Next]_vars
  PROVE  Linked'
<1>1. CASE conn' = conn /\ (state' = state \/ state' = "closed")
  BY <1>1 DEF Linked
<1>2. CASE HandleConnect /\ state = "closed"
  <2>1. conn' = Fresh
    BY <1>2 DEF HandleConnect
  <2>. QED  BY <2>1, FreshFacts DEF Linked
<1>3. ASSUME NEW c, Continues(c)
      PROVE  Linked'
  BY <1>3, ContinuesFacts DEF Linked
<1>. QED  BY <1>1, <1>2, <1>3, ConnectionStep

LEMMA StallStep ==
  ASSUME TypeOK, Linked, NoStall, [Next]_vars
  PROVE  NoStall'
<1>1. CASE conn' = conn /\ (state' = state \/ state' = "closed")
  BY <1>1 DEF NoStall
<1>2. CASE HandleConnect /\ state = "closed"
  <2>1. conn' = Fresh
    BY <1>2 DEF HandleConnect
  <2>2. ~Contains(<< >>, Newline)
    BY DEF Contains
  <2>. QED  BY <2>1, <2>2, FreshFacts DEF NoStall
<1>3. ASSUME NEW c, Continues(c)
      PROVE  NoStall'
  BY <1>3, ContinuesFacts DEF NoStall
<1>. QED  BY <1>1, <1>2, <1>3, ConnectionStep

-----------------------------------------------------------------------------
(* The messages in the channel, and the internal messages in flight. *)

InChannel(x) == \E i \in 1..Len(msg_recv) : msg_recv[i] = x

LEMMA TailFacts ==
  ASSUME NEW S, NEW s \in Seq(S), s # << >>
  PROVE  /\ Len(s) \in Nat /\ 1 \in 1..Len(s) /\ Head(s) = s[1]
         /\ Len(Tail(s)) = Len(s) - 1
         /\ \A i \in 1..Len(Tail(s)) : i + 1 \in 1..Len(s) /\ Tail(s)[i] = s[i + 1]
         /\ \A i \in 1..Len(s) : i = 1 \/ (i - 1 \in 1..Len(Tail(s)) /\ Tail(s)[i - 1] = s[i])
<1>1. Len(s) \in Nat /\ 1 \in 1..Len(s) /\ Head(s) = s[1] /\ Len(Tail(s)) = Len(s) - 1
  OBVIOUS
<1>2. \A i \in 1..Len(Tail(s)) : i + 1 \in 1..Len(s) /\ Tail(s)[i] = s[i + 1]
  OBVIOUS
<1>3. \A i \in 1..Len(s) : i = 1 \/ (i - 1 \in 1..Len(Tail(s)) /\ (i - 1) + 1 = i)
  BY <1>1
<1>. QED  BY <1>1, <1>2, <1>3

LEMMA ChannelAppended ==
  ASSUME TypeOK, NEW x \in Message, msg_recv' = Append(msg_recv, x)
  PROVE  \A y : InChannel(y)' <=> InChannel(y) \/ y = x
<1>1. /\ msg_recv \in Seq(Message) /\ Len(msg_recv) \in Nat
      /\ Len(msg_recv') = Len(msg_recv) + 1
      /\ \A i \in 1..Len(msg_recv) : msg_recv'[i] = msg_recv[i]
      /\ msg_recv'[Len(msg_recv) + 1] = x
      /\ \A i \in 1..(Len(msg_recv) + 1) : i \in 1..Len(msg_recv) \/ i = Len(msg_recv) + 1
  BY AppendFacts DEF TypeOK
<1>2. \A i \in 1..Len(msg_recv) : i \in 1..(Len(msg_recv) + 1)
  BY <1>1
<1>3. Len(msg_recv) + 1 \in 1..(Len(msg_recv) + 1)
  BY <1>1
<1>. QED  BY <1>1, <1>2, <1>3 DEF InChannel

LEMMA ChannelTaken ==
  ASSUME TypeOK, NEW k, Takes(k)
  PROVE  /\ InChannel(Head(msg_recv))
         /\ \A y : InChannel(y) <=> InChannel(y)' \/ y = Head(msg_recv)
<1>1. msg_recv \in Seq(Message) /\ msg_recv # << >> /\ msg_recv' = Tail(msg_recv)
  BY DEF TypeOK, Takes
<1>2. /\ Len(msg_recv) \in Nat /\ 1 \in 1..Len(msg_recv) /\ Head(msg_recv) = msg_recv[1]
      /\ \A i \in 1..Len(msg_recv') : i + 1 \in 1..Len(msg_recv) /\ msg_recv'[i] = msg_recv[i + 1]
      /\ \A i \in 1..Len(msg_recv) :
           i = 1 \/ (i - 1 \in 1..Len(msg_recv') /\ msg_recv'[i - 1] = msg_recv[i])
  BY <1>1, TailFacts
<1>. QED  BY <1>2 DEF InChannel

(* What is in the channel is a message. *)
LEMMA ChannelType ==
  ASSUME TypeOK, NEW y, InChannel(y)
  PROVE  y \in Message
<1>1. msg_recv \in Seq(Message)
  BY DEF TypeOK
<1>. QED  BY <1>1, ElementOfSeq DEF InChannel

InternalMessage(m) == [kind |-> "internal", msg |-> m]

LEMMA InternalsOf ==
  ASSUME NEW s \in Seq(Message)
  PROVE  \A m : (\E i \in {j \in DOMAIN s : s[j].kind = "internal"} : m = s[i].msg)
                <=> \E i \in 1..Len(s) : s[i] = InternalMessage(m)
<1>1. DOMAIN s = 1..Len(s)
  OBVIOUS
<1>2. \A x \in Message : x.kind = "internal" => x = InternalMessage(x.msg)
  BY DEF Message, InternalMessage
<1>3. \A m : InternalMessage(m).kind = "internal" /\ InternalMessage(m).msg = m
  BY DEF InternalMessage
<1>4. \A i \in 1..Len(s) : s[i] \in Message
  BY ElementOfSeq
<1>. QED  BY <1>1, <1>2, <1>3, <1>4

LEMMA InFlightWhere ==
  ASSUME TypeOK
  PROVE  \A m : m \in InFlight <=> \/ m \in timers
                                   \/ m = pending /\ m # Nothing
                                   \/ InChannel(InternalMessage(m))
<1>1. msg_recv \in Seq(Message)
  BY DEF TypeOK
<1>2. \A m : (\E i \in {j \in DOMAIN msg_recv : msg_recv[j].kind = "internal"} : m = msg_recv[i].msg)
             <=> InChannel(InternalMessage(m))
  BY <1>1, InternalsOf DEF InChannel
<1>. QED  BY <1>2 DEF InFlight

LEMMA InFlightWhereNext ==
  ASSUME TypeOK'
  PROVE  \A m : m \in InFlight' <=> \/ m \in timers'
                                    \/ m = pending' /\ m # Nothing
                                    \/ InChannel(InternalMessage(m))'
<1>1. msg_recv' \in Seq(Message)
  BY DEF TypeOK
<1>2. \A m : (\E i \in {j \in DOMAIN msg_recv' : msg_recv'[j].kind = "internal"} : m = msg_recv'[i].msg)
             <=> \E i \in 1..Len(msg_recv') : msg_recv'[i] = InternalMessage(m)
  BY <1>1, InternalsOf
<1>3. \A m : InChannel(InternalMessage(m))' <=> \E i \in 1..Len(msg_recv') : msg_recv'[i] = InternalMessage(m)
  BY DEF InChannel, InternalMessage
<1>. QED  BY <1>2, <1>3 DEF InFlight

LEMMA InFlightType ==
  ASSUME TypeOK
  PROVE  InFlight \subseteq Internal
<1>1. \A m : InChannel(InternalMessage(m)) => m \in Internal
  <2>1. \A m : InternalMessage(m).kind = "internal" /\ InternalMessage(m).msg = m
    BY DEF InternalMessage
  <2>. QED  BY <2>1, ChannelType, MessageFacts
<1>. QED  BY <1>1, InFlightWhere DEF TypeOK

LEMMA InFlightTypeNext ==
  ASSUME TypeOK'
  PROVE  InFlight' \subseteq Internal
<1>1. timers' \subseteq Internal /\ pending' \in Internal \union {Nothing} /\ msg_recv' \in Seq(Message)
  BY DEF TypeOK
<1>2. \A m : InternalMessage(m).kind = "internal" /\ InternalMessage(m).msg = m
  BY DEF InternalMessage
<1>3. \A m : InChannel(InternalMessage(m))' => InternalMessage(m) \in Message
  BY <1>1, ElementOfSeq DEF InChannel, InternalMessage
<1>4. \A m : InChannel(InternalMessage(m))' => m \in Internal
  BY <1>2, <1>3, MessageFacts
<1>. QED  BY <1>1, <1>4, InFlightWhereNext

(* An internal message stays in flight, as it is or marked as written, or  *)
(* the session has closed, or what it carries was acknowledged.            *)
Remains(m) ==
  \/ m \in InFlight'
  \/ [m EXCEPT !.sends = TRUE] \in InFlight'
  \/ state' = "closed"
  \/ state = "active" /\ conn' = conn /\ ack_until(m) <= conn.sent_ack_until

(* One in flight was so before, or process_buffers has just made it. *)
Comes(m) ==
  \/ m \in InFlight
  \/ \E k \in InFlight : m = [k EXCEPT !.sends = TRUE]
  \/ m = pending' /\ pending' # pending

FlightKept == (\A m \in InFlight : Remains(m)) /\ (\A m \in InFlight' : Comes(m))

LEMMA SameFlight ==
  ASSUME TypeOK, TypeOK', timers' = timers, pending' = pending \/ pending = Nothing,
         \A m : InChannel(InternalMessage(m))' <=> InChannel(InternalMessage(m))
  PROVE  FlightKept
<1>1. \A m : m \in InFlight <=> \/ m \in timers
                                \/ m = pending /\ m # Nothing
                                \/ InChannel(InternalMessage(m))
  BY InFlightWhere
<1>2. \A m : m \in InFlight' <=> \/ m \in timers'
                                 \/ m = pending' /\ m # Nothing
                                 \/ InChannel(InternalMessage(m))'
  BY InFlightWhereNext
<1>. QED  BY <1>1, <1>2 DEF FlightKept, Remains, Comes

LEMMA FlightArrive ==
  ASSUME TypeOK, TypeOK', NEW x \in Message, x.kind # "internal", Arrive(x)
  PROVE  FlightKept
<1>1. \A m : InternalMessage(m) # x
  BY DEF InternalMessage
<1>2. \A y : InChannel(y)' <=> InChannel(y) \/ y = x
  BY ChannelAppended DEF Arrive
<1>3. \A m : InChannel(InternalMessage(m))' <=> InChannel(InternalMessage(m))
  BY <1>1, <1>2 DEF InternalMessage, InChannel
<1>. QED  BY <1>3, SameFlight DEF Arrive, serverVars

(* The session's task takes a message that is not internal. *)
LEMMA FlightTaken ==
  ASSUME TypeOK, TypeOK', NEW k, Takes(k), k # "internal", timers' = timers
  PROVE  FlightKept
<1>1. Head(msg_recv).kind = k /\ pending = Nothing
  BY DEF Takes
<1>2. \A m : InternalMessage(m) # Head(msg_recv)
  BY <1>1 DEF InternalMessage
<1>3. \A y : InChannel(y) <=> InChannel(y)' \/ y = Head(msg_recv)
  BY ChannelTaken
<1>4. \A m : InChannel(InternalMessage(m))' <=> InChannel(InternalMessage(m))
  BY <1>2, <1>3 DEF InternalMessage, InChannel
<1>. QED  BY <1>1, <1>4, SameFlight

(* A message in flight is sent into the channel. *)
LEMMA FlightSent ==
  ASSUME TypeOK, TypeOK', NEW m \in Internal, msg_recv' = Append(msg_recv, InternalMessage(m)),
         \/ m = pending /\ pending' = Nothing /\ timers' = timers
         \/ m \in timers /\ timers' = timers \ {m} /\ pending' = pending
  PROVE  FlightKept
<1>1. InternalMessage(m) \in Message
  BY DEF InternalMessage, Message
<1>2. \A y : InChannel(y)' <=> InChannel(y) \/ y = InternalMessage(m)
  BY <1>1, ChannelAppended
<1>3. \A k : InternalMessage(k) = InternalMessage(m) <=> k = m
  <2>1. \A k : InternalMessage(k).msg = k
    BY DEF InternalMessage
  <2>. QED  BY <2>1
<1>4. \A k : InChannel(InternalMessage(k))' <=> InChannel(InternalMessage(k)) \/ k = m
  BY <1>2, <1>3 DEF InternalMessage, InChannel
<1>5. \A k : k \in InFlight <=> \/ k \in timers
                                \/ k = pending /\ k # Nothing
                                \/ InChannel(InternalMessage(k))
  BY InFlightWhere
<1>6. \A k : k \in InFlight' <=> \/ k \in timers'
                                 \/ k = pending' /\ k # Nothing
                                 \/ InChannel(InternalMessage(k))'
  BY InFlightWhereNext
<1>7. m # Nothing
  BY InternalFacts
<1>. QED  BY <1>4, <1>5, <1>6, <1>7 DEF FlightKept, Remains, Comes

LEMMA FlightInternal ==
  ASSUME TypeOK, TypeOK', HandleInternal
  PROVE  FlightKept
<1> DEFINE n == Head(msg_recv).msg
<1>1. Takes("internal") /\ state = "active"
  BY DEF HandleInternal
<1>2. Head(msg_recv) \in Message /\ Head(msg_recv).kind = "internal" /\ pending = Nothing
  BY <1>1, TakesType
<1>3. Head(msg_recv) = InternalMessage(n)
  BY <1>2 DEF Message, InternalMessage
<1>4. \/ /\ ack_until(n) <= conn.sent_ack_until
         /\ UNCHANGED serverVars
      \/ Expire
      \/ timers' = timers \union {[n EXCEPT !.sends = TRUE]} /\ pending' = pending
  BY DEF HandleInternal
<1>5. \A y : InChannel(y) <=> InChannel(y)' \/ y = Head(msg_recv)
  BY <1>1, ChannelTaken
<1>6. \A k : InternalMessage(k).msg = k
  BY DEF InternalMessage
<1> HIDE DEF n
<1>7. \A k : InChannel(InternalMessage(k)) <=> InChannel(InternalMessage(k))' \/ k = n
  BY <1>3, <1>5, <1>6 DEF InternalMessage, InChannel
<1>8. \A k : k \in InFlight <=> \/ k \in timers
                                \/ k = pending /\ k # Nothing
                                \/ InChannel(InternalMessage(k))
  BY InFlightWhere
<1>9. \A k : k \in InFlight' <=> \/ k \in timers'
                                 \/ k = pending' /\ k # Nothing
                                 \/ InChannel(InternalMessage(k))'
  BY InFlightWhereNext
<1>10. CASE ack_until(n) <= conn.sent_ack_until /\ UNCHANGED serverVars
  <2>1. timers' = timers /\ pending' = pending /\ conn' = conn
    BY <1>10 DEF serverVars
  <2>. QED  BY <1>1, <1>7, <1>8, <1>9, <1>10, <2>1 DEF FlightKept, Remains, Comes
<1>11. CASE Expire
  <2>1. timers' = timers /\ pending' = pending /\ state' = "closed"
    BY <1>11 DEF Expire
  <2>. QED  BY <1>7, <1>8, <1>9, <2>1 DEF FlightKept, Remains, Comes
<1>12. CASE timers' = timers \union {[n EXCEPT !.sends = TRUE]} /\ pending' = pending
  <2>1. n \in InFlight
    BY <1>7, <1>8
  <2>. QED  BY <1>7, <1>8, <1>9, <1>12, <2>1 DEF FlightKept, Remains, Comes
<1>. QED  BY <1>4, <1>10, <1>11, <1>12

LEMMA FlightClosed ==
  ASSUME TypeOK, TypeOK', HandleClosed
  PROVE  FlightKept
<1>1. PICK k \in {"data", "ack", "close", "internal"} : Takes(k)
  BY DEF HandleClosed
<1>2. timers' = timers /\ pending' = pending /\ state' = "closed"
  BY DEF HandleClosed
<1>3. \A y : InChannel(y) <=> InChannel(y)' \/ y = Head(msg_recv)
  BY <1>1, ChannelTaken
<1>4. \A m : InChannel(InternalMessage(m))' => InChannel(InternalMessage(m))
  BY <1>3 DEF InternalMessage, InChannel
<1>5. \A m : m \in InFlight <=> \/ m \in timers
                                \/ m = pending /\ m # Nothing
                                \/ InChannel(InternalMessage(m))
  BY InFlightWhere
<1>6. \A m : m \in InFlight' <=> \/ m \in timers'
                                 \/ m = pending' /\ m # Nothing
                                 \/ InChannel(InternalMessage(m))'
  BY InFlightWhereNext
<1>. QED  BY <1>2, <1>4, <1>5, <1>6 DEF FlightKept, Remains, Comes

LEMMA FlightStep ==
  ASSUME TypeOK, TypeOK', [Next]_vars
  PROVE  FlightKept
<1>1. ASSUME UNCHANGED <<timers, pending, msg_recv>>
      PROVE  FlightKept
  <2>1. \A m : InChannel(InternalMessage(m))' <=> InChannel(InternalMessage(m))
    BY <1>1 DEF InChannel, InternalMessage
  <2>. QED  BY <1>1, <2>1, SameFlight
<1>2. CASE UNCHANGED vars
  BY <1>1, <1>2 DEF vars, serverVars
<1>3. CASE Open
  BY <1>1, <1>3 DEF Open
<1>4. CASE Arrives
  <2>1. \E x : Arrive(x) /\ Sent(x)
    BY <1>4, Arrivals
  <2>. QED  BY <2>1, FlightArrive DEF Sent
<1>5. ASSUME NEW p \in written, Receive(p) \/ Lose(p)
      PROVE  FlightKept
  BY <1>1, <1>5 DEF Receive, Lose, serverVars
<1>6. CASE SelfSend
  <2>1. pending \in Internal
    BY <1>6 DEF SelfSend, TypeOK
  <2>. QED  BY <1>6, <2>1, FlightSent DEF SelfSend, InternalMessage
<1>7. CASE HandleConnect
  BY <1>7, FlightTaken DEF HandleConnect
<1>8. CASE HandleClosed
  BY <1>8, FlightClosed
<1>9. CASE HandleData
  BY <1>9, FlightTaken DEF HandleData
<1>10. CASE HandleAck
  <2>1. timers' = timers
    BY <1>10 DEF HandleAck, Close
  <2>. QED  BY <1>10, <2>1, FlightTaken DEF HandleAck
<1>11. CASE HandleClose
  BY <1>11, FlightTaken DEF HandleClose, Close
<1>12. CASE HandleInternal
  BY <1>12, FlightInternal
<1>13. ASSUME NEW m \in timers, WakeUp(m)
       PROVE  FlightKept
  <2>1. m \in Internal
    BY DEF TypeOK
  <2>. QED  BY <1>13, <2>1, FlightSent DEF WakeUp, InternalMessage
<1>. QED
  BY <1>2, <1>3, <1>4, <1>5, <1>6, <1>7, <1>8, <1>9, <1>10, <1>11, <1>12, <1>13 DEF Next, Arrives

-----------------------------------------------------------------------------
(* What was sent and not acknowledged will be written again.               *)

(* Every byte that was sent and not acknowledged, and not the first only:  *)
(* an acknowledgement makes another one the first.                         *)
CarriesByte(m, x) == m.born = born /\ m.pos <= x /\ x < ack_until(m)

Covered ==
  state = "active" =>
    \A x \in Nat : conn.sent_ack_until <= x /\ x < conn.sent_until =>
      \E m \in InFlight : CarriesByte(m, x)

LEMMA CoveredStep ==
  ASSUME TypeOK, TypeOK', Linked, Covered, [Next]_vars
  PROVE  Covered'
<1> SUFFICES ASSUME state' = "active", NEW x \in Nat,
                    conn'.sent_ack_until <= x, x < conn'.sent_until
             PROVE  \E m \in InFlight' : CarriesByte(m, x)'
  BY DEF Covered
<1>1. ASSUME state = "active", born' = born, NEW m \in InFlight, CarriesByte(m, x),
             conn.sent_ack_until <= x
      PROVE  \E k \in InFlight' : CarriesByte(k, x)'
  <2>1. m \in Internal /\ conn.sent_ack_until \in Nat /\ ack_until(m) \in Nat
    BY InFlightType, InternalFacts DEF TypeOK
  <2>2. [m EXCEPT !.sends = TRUE].born = m.born /\ [m EXCEPT !.sends = TRUE].pos = m.pos
        /\ ack_until([m EXCEPT !.sends = TRUE]) = ack_until(m)
    BY <2>1 DEF Internal, ack_until
  <2>3. ~(ack_until(m) <= conn.sent_ack_until)
    <3>1. x < ack_until(m)
      BY <1>1 DEF CarriesByte
    <3>. QED  BY <1>1, <2>1, <3>1
  <2>4. m \in InFlight' \/ [m EXCEPT !.sends = TRUE] \in InFlight'
    BY <2>3, FlightStep DEF FlightKept, Remains
  <2>5. \A k : k.born = m.born /\ k.pos = m.pos /\ ack_until(k) = ack_until(m) => CarriesByte(k, x)'
    BY <1>1 DEF CarriesByte, ack_until
  <2>. QED  BY <2>2, <2>4, <2>5
<1>2. CASE conn' = conn /\ born' = born /\ state' = state
  <2>1. \E m \in InFlight : CarriesByte(m, x)
    BY <1>2 DEF Covered
  <2>. QED  BY <1>1, <1>2, <2>1
<1>3. CASE HandleConnect /\ state = "closed"
  <2>1. conn' = Fresh
    BY <1>3 DEF HandleConnect
  <2>. QED  BY <2>1, FreshFacts
<1>4. ASSUME NEW c, Continues(c)
      PROVE  \E m \in InFlight' : CarriesByte(m, x)'
  <2>1. /\ conn.sent_ack_until <= conn'.sent_ack_until /\ conn.sent_ack_until \in Nat
        /\ conn'.sent_ack_until \in Nat /\ conn.sent_until \in Nat /\ conn'.sent_until \in Nat
        /\ state = "active" /\ born' = born
    BY <1>4, ContinuesFacts, ConnectionFacts DEF Continues, TypeOK, Connection
  <2>2. CASE x < conn.sent_until
    <3>1. conn.sent_ack_until <= x
      BY <2>1
    <3>2. \E m \in InFlight : CarriesByte(m, x)
      BY <2>1, <2>2, <3>1 DEF Covered
    <3>. QED  BY <1>1, <2>1, <3>1, <3>2
  <2>3. CASE ~(x < conn.sent_until)
    <3>1. /\ pending' \in Internal /\ pending'.born = born /\ pending'.pos = conn.sent_until
          /\ ack_until(pending)' = conn'.sent_until
      BY <1>4, <2>1, <2>3, ContinuesFacts
    <3>2. CarriesByte(pending, x)'
      BY <2>1, <2>3, <3>1 DEF CarriesByte
    <3>3. pending' \in InFlight'
      BY <3>1, InFlightWhereNext, InternalFacts
    <3>. QED  BY <3>2, <3>3
  <2>. QED  BY <2>2, <2>3
<1>5. state' # "closed"
  OBVIOUS
<1>. QED  BY <1>2, <1>3, <1>4, <1>5, ConnectionStep

-----------------------------------------------------------------------------
(* What a step adds to the channel, to the packets written to the peer and *)
(* to the peer's text.                                                     *)

LEMMA ChannelStep ==
  ASSUME TypeOK, [Next]_vars
  PROVE  \A x : InChannel(x)' => InChannel(x) \/ Sent(x) \/ x.kind = "internal"
<1>1. ASSUME msg_recv' = msg_recv
      PROVE  \A x : InChannel(x)' => InChannel(x)
  BY <1>1 DEF InChannel
<1>2. ASSUME NEW k, Takes(k)
      PROVE  \A x : InChannel(x)' => InChannel(x)
  BY <1>2, ChannelTaken
<1>3. ASSUME NEW m \in Internal, msg_recv' = Append(msg_recv, InternalMessage(m))
      PROVE  \A x : InChannel(x)' => InChannel(x) \/ x.kind = "internal"
  <2>1. InternalMessage(m) \in Message /\ InternalMessage(m).kind = "internal"
    BY DEF InternalMessage, Message
  <2>. QED  BY <1>3, <2>1, ChannelAppended
<1>4. UNCHANGED vars \/ Open => msg_recv' = msg_recv
  BY DEF vars, Open
<1>5. \A p : Receive(p) \/ Lose(p) => msg_recv' = msg_recv
  BY DEF Receive, Lose
<1>6. CASE Arrives
  <2>1. PICK y : Arrive(y) /\ Sent(y)
    BY <1>6, Arrivals
  <2>2. \A x : InChannel(x)' <=> InChannel(x) \/ x = y
    BY <2>1, ChannelAppended DEF Arrive, Sent
  <2>. QED  BY <2>1, <2>2
<1>7. SelfSend => pending \in Internal /\ msg_recv' = Append(msg_recv, InternalMessage(pending))
  BY DEF SelfSend, InternalMessage, TypeOK
<1>8. \A m \in timers : WakeUp(m) => m \in Internal /\ msg_recv' = Append(msg_recv, InternalMessage(m))
  BY DEF WakeUp, InternalMessage, TypeOK
<1>9. Handle => \E k : Takes(k)
  BY DEF Handle, HandleConnect, HandleClosed, HandleData, HandleAck, HandleClose, HandleInternal
<1>. QED
  BY <1>1, <1>2, <1>3, <1>4, <1>5, <1>6, <1>7, <1>8, <1>9 DEF Next, Arrives, Handle

LEMMA WrittenStep ==
  ASSUME TypeOK, [Next]_vars
  PROVE  \A p \in written' : \/ p \in written
                             \/ \E m \in InFlight : p = [pos |-> m.pos, data |-> m.data]
<1>1. UNCHANGED vars => written' = written
  BY DEF vars, serverVars
<1>2. Open => written' = {}
  BY DEF Open
<1>3. Arrives => written' = written
  BY DEF Arrives, ArriveConnect, ArriveClose, ArriveData, ArriveAck, Arrive, serverVars
<1>4. \A p \in written : Receive(p) \/ Lose(p) => written' \subseteq written
  BY DEF Receive, Lose, serverVars
<1>5. SelfSend \/ HandleConnect \/ HandleClosed \/ HandleData \/ HandleClose => written' = written
  BY DEF SelfSend, HandleConnect, HandleClosed, HandleData, HandleClose, Close
<1>6. HandleAck => written' = written
  BY DEF HandleAck, Close
<1>7. \A m \in timers : WakeUp(m) => written' = written
  BY DEF WakeUp
<1>8. CASE HandleInternal
  <2> DEFINE m == Head(msg_recv).msg
  <2>1. Takes("internal")
    BY <1>8 DEF HandleInternal
  <2>2. Head(msg_recv) \in Message /\ Head(msg_recv).kind = "internal" /\ InChannel(Head(msg_recv))
    BY <2>1, TakesType, ChannelTaken
  <2>3. Head(msg_recv) = InternalMessage(m)
    BY <2>2 DEF Message, InternalMessage
  <2>4. written' = written \/ written' = written \union {[pos |-> m.pos, data |-> m.data]}
    BY <1>8 DEF HandleInternal, Expire, serverVars
  <2> HIDE DEF m
  <2>5. m \in InFlight
    BY <2>2, <2>3, InFlightWhere
  <2>. QED  BY <2>4, <2>5
<1>. QED  BY <1>1, <1>2, <1>3, <1>4, <1>5, <1>6, <1>7, <1>8 DEF Next, Arrives

LEMMA GotStep ==
  ASSUME TypeOK, [Next]_vars
  PROVE  (epoch' = epoch /\ (got' = got \/ \E p \in written : Receive(p))) \/ Open
<1>1. UNCHANGED vars => epoch' = epoch /\ got' = got
  BY DEF vars, peerVars
<1>2. Arrives => epoch' = epoch /\ got' = got
  BY DEF Arrives, ArriveConnect, ArriveClose, ArriveData, ArriveAck, Arrive
<1>3. \A p : Receive(p) => epoch' = epoch
  BY DEF Receive
<1>4. \A p : Lose(p) => epoch' = epoch /\ got' = got
  BY DEF Lose, peerVars
<1>5. SelfSend \/ (\E m \in timers : WakeUp(m)) => epoch' = epoch /\ got' = got
  BY DEF SelfSend, WakeUp, peerVars
<1>6. Handle => \E k : Takes(k)
  BY DEF Handle, HandleConnect, HandleClosed, HandleData, HandleAck, HandleClose, HandleInternal
<1>7. \A k : Takes(k) => epoch' = epoch /\ got' = got
  BY DEF Takes, peerVars
<1>. QED  BY <1>1, <1>2, <1>3, <1>4, <1>5, <1>6, <1>7 DEF Next, Arrives, Handle

(* A text, and the end of another after it: what the peer and the server  *)
(* make of a packet that overlaps what they have.                          *)
LEMMA Extended ==
  ASSUME NEW s \in Seq(Char), NEW t \in Seq(Char), NEW n \in Nat, n <= Len(t)
  PROVE  LET u == s \o SubSeq(t, n + 1, Len(t))
         IN /\ u \in Seq(Char) /\ Len(u) = Len(s) + (Len(t) - n)
            /\ \A i \in 1..Len(s) : u[i] = s[i]
            /\ \A i \in (Len(s) + 1)..(Len(s) + (Len(t) - n)) : u[i] = t[i - Len(s) + n]
<1> DEFINE more == SubSeq(t, n + 1, Len(t))
           u == s \o more
<1>1. Len(s) \in Nat /\ Len(t) \in Nat /\ n + 1 \in Int
  OBVIOUS
<1>2. more \in Seq(Char) /\ Len(more) = Len(t) - n
  BY <1>1
<1>3. \A i \in 1..(Len(t) - n) : more[i] = t[n + i]
  BY <1>1, <1>2
<1> HIDE DEF more
<1>4. u \in Seq(Char) /\ Len(u) = Len(s) + Len(more)
  BY <1>2
<1>5. \A i \in 1..Len(s) : u[i] = s[i]
  BY <1>2
<1>6. \A i \in (Len(s) + 1)..(Len(s) + Len(more)) : u[i] = more[i - Len(s)]
  BY <1>1, <1>2
<1> HIDE DEF u
<1>7. ASSUME NEW i \in (Len(s) + 1)..(Len(s) + (Len(t) - n))
      PROVE  u[i] = t[i - Len(s) + n]
  <2>1. i - Len(s) \in 1..(Len(t) - n) /\ n + (i - Len(s)) = i - Len(s) + n
    BY <1>1
  <2>2. u[i] = more[i - Len(s)] /\ more[i - Len(s)] = t[n + (i - Len(s))]
    BY <1>2, <1>3, <1>6, <2>1
  <2>. QED  BY <2>1, <2>2
<1>. QED  BY <1>2, <1>4, <1>5, <1>7 DEF u, more

(* What the peer receives is the packet from its text's end on. *)
LEMMA Received ==
  ASSUME TypeOK, NEW p \in written, Receive(p)
  PROVE  /\ p \in Packet /\ got \in Seq(Char) /\ got' \in Seq(Char)
         /\ Len(got') = ack_until(p)
         /\ \A i \in 1..Len(got) : got'[i] = got[i]
         /\ \A i \in (Len(got) + 1)..ack_until(p) : got'[i] = p.data[i - p.pos]
<1> DEFINE n == Len(got) - p.pos
<1>1. p \in Packet /\ got \in Seq(Char) /\ Len(got) \in Nat
  BY DEF TypeOK
<1>2. p.pos \in Nat /\ p.data \in Seq(Char) /\ Len(p.data) \in Nat /\ ack_until(p) = p.pos + Len(p.data)
  BY <1>1, PacketFacts
<1>3. p.pos <= Len(got) /\ p.pos + Len(p.data) > Len(got)
      /\ got' = got \o SubSeq(p.data, n + 1, Len(p.data))
  BY DEF Receive
<1>4. n \in Nat /\ n <= Len(p.data)
  BY <1>1, <1>2, <1>3
<1>5. Len(got) + (Len(p.data) - n) = ack_until(p) /\ \A i \in Int : i - Len(got) + n = i - p.pos
  BY <1>1, <1>2, <1>4
<1> HIDE DEF n
<1>6. /\ got' \in Seq(Char) /\ Len(got') = Len(got) + (Len(p.data) - n)
      /\ \A i \in 1..Len(got) : got'[i] = got[i]
      /\ \A i \in (Len(got) + 1)..(Len(got) + (Len(p.data) - n)) : got'[i] = p.data[i - Len(got) + n]
  BY <1>1, <1>2, <1>3, <1>4, Extended
<1>7. \A i \in (Len(got) + 1)..ack_until(p) : i \in Int
  BY <1>1, <1>2
<1>. QED  BY <1>1, <1>5, <1>6, <1>7

-----------------------------------------------------------------------------
(* What the server sent and the peer acknowledges is behind sent_until.    *)

(* As long as the session was opened once: whatever is on its way to the   *)
(* peer, what the peer has and what it acknowledges ends at sent_until.    *)
SentBehind ==
  born <= 1 =>
    /\ born = 0 => state = "closed" /\ conn.sent_until = 0
    /\ \A m \in InFlight : ack_until(m) <= conn.sent_until
    /\ \A p \in written : ack_until(p) <= conn.sent_until
    /\ Len(got) <= conn.sent_until
    /\ \A x : InChannel(x) /\ x.kind = "ack" => x.length <= conn.sent_until

LEMMA SentBehindStep ==
  ASSUME TypeOK, TypeOK', Linked, SentBehind, [Next]_vars
  PROVE  SentBehind'
<1> SUFFICES ASSUME born' <= 1
             PROVE  SentBehind'
  BY DEF SentBehind
<1>t. /\ born \in Nat /\ conn.sent_until \in Nat /\ conn'.sent_until \in Nat
      /\ Len(got) \in Nat /\ got' \in Seq(Char)
  BY DEF TypeOK
<1>1. /\ born <= 1 /\ conn.sent_until <= conn'.sent_until
      /\ born' = 0 => state' = "closed" /\ conn'.sent_until = 0
  <2>1. CASE conn' = conn /\ born' = born /\ (state' = state \/ state' = "closed")
    BY <1>t, <2>1 DEF SentBehind
  <2>2. CASE HandleConnect /\ state = "closed"
    <3>1. conn' = Fresh /\ born' = born + 1
      BY <2>2 DEF HandleConnect
    <3>2. born = 0
      BY <1>t, <3>1
    <3>. QED  BY <1>t, <3>1, <3>2, FreshFacts DEF SentBehind
  <2>3. ASSUME NEW c, Continues(c)
        PROVE  /\ born <= 1 /\ conn.sent_until <= conn'.sent_until
               /\ born' = 0 => state' = "closed" /\ conn'.sent_until = 0
    <3>1. born' = born /\ state = "active" /\ conn.sent_until <= conn'.sent_until
      BY <2>3, ContinuesFacts DEF Continues
    <3>. QED  BY <3>1 DEF SentBehind
  <2>. QED  BY <2>1, <2>2, <2>3, ConnectionStep
<1>2. /\ \A m \in InFlight : ack_until(m) <= conn.sent_until
      /\ \A p \in written : ack_until(p) <= conn.sent_until
      /\ Len(got) <= conn.sent_until
      /\ \A x : InChannel(x) /\ x.kind = "ack" => x.length <= conn.sent_until
  BY <1>1 DEF SentBehind
<1>3. ASSUME NEW n \in Nat, n <= conn.sent_until
      PROVE  n <= conn'.sent_until
  BY <1>t, <1>1, <1>3
<1>4. ASSUME NEW m \in InFlight'
      PROVE  ack_until(m) <= conn'.sent_until
  <2>1. m \in Internal
    BY InFlightTypeNext
  <2>2. Comes(m)
    BY FlightStep DEF FlightKept
  <2>3. CASE m \in InFlight
    BY <1>2, <1>3, <2>1, <2>3, InternalFacts
  <2>4. ASSUME NEW k \in InFlight, m = [k EXCEPT !.sends = TRUE]
        PROVE  ack_until(m) <= conn'.sent_until
    <3>1. k \in Internal
      BY InFlightType
    <3>2. ack_until(m) = ack_until(k)
      BY <2>4, <3>1 DEF Internal, ack_until
    <3>. QED  BY <1>2, <1>3, <3>1, <3>2, InternalFacts
  <2>5. CASE m = pending' /\ pending' # pending
    <3>1. m # Nothing
      BY <2>1, InternalFacts
    <3>2. ~ HandleConnect
      BY <2>5 DEF HandleConnect
    <3>3. PICK c : Continues(c)
      BY <2>5, <3>1, <3>2, ConnectionStep
    <3>4. ack_until(pending)' = conn'.sent_until
      BY <2>5, <3>3, ContinuesFacts
    <3>5. ack_until(m) = conn'.sent_until
      BY <2>5, <3>4 DEF ack_until
    <3>. QED  BY <1>t, <3>5
  <2>. QED  BY <2>2, <2>3, <2>4, <2>5 DEF Comes
<1>5. ASSUME NEW p \in written'
      PROVE  ack_until(p) <= conn'.sent_until
  <2>1. CASE p \in written
    <3>1. ack_until(p) \in Nat
      BY <2>1, PacketFacts DEF TypeOK
    <3>. QED  BY <1>2, <1>3, <2>1, <3>1
  <2>2. ASSUME NEW m \in InFlight, p = [pos |-> m.pos, data |-> m.data]
        PROVE  ack_until(p) <= conn'.sent_until
    <3>1. m \in Internal
      BY InFlightType
    <3>2. ack_until(p) = ack_until(m)
      BY <2>2 DEF ack_until
    <3>. QED  BY <1>2, <1>3, <3>1, <3>2, InternalFacts
  <2>. QED  BY <2>1, <2>2, WrittenStep
<1>6. Len(got') <= conn'.sent_until
  <2>1. CASE got' = got
    BY <1>2, <1>3, <1>t, <2>1
  <2>2. ASSUME NEW p \in written, Receive(p)
        PROVE  Len(got') <= conn'.sent_until
    <3>1. Len(got') = ack_until(p) /\ ack_until(p) \in Nat
      BY <2>2, Received, PacketFacts
    <3>. QED  BY <1>2, <1>3, <3>1
  <2>3. CASE Open
    <3>1. got' = << >>
      BY <2>3 DEF Open
    <3>. QED  BY <1>t, <3>1
  <2>. QED  BY <2>1, <2>2, <2>3, GotStep
<1>7. ASSUME NEW x, InChannel(x)', x.kind = "ack"
      PROVE  x.length <= conn'.sent_until
  <2>1. CASE InChannel(x)
    <3>1. x.length \in Nat
      BY <1>7, <2>1, ChannelType, MessageFacts
    <3>. QED  BY <1>2, <1>3, <1>7, <2>1, <3>1
  <2>2. CASE Sent(x)
    <3>1. x.length \in Nat /\ x.length <= Len(got)
      BY <1>7, <2>2, MessageFacts DEF Sent
    <3>2. x.length <= conn.sent_until
      BY <1>2, <1>t, <3>1
    <3>. QED  BY <1>3, <3>1, <3>2
  <2>. QED  BY <1>7, <2>1, <2>2, ChannelStep
<1>8. \A x : InChannel(x)' /\ x.kind = "ack" => x.length <= conn'.sent_until
  BY <1>7
<1>. QED  BY <1>1, <1>4, <1>5, <1>6, <1>8 DEF SentBehind, ack_until, InChannel

-----------------------------------------------------------------------------
(* The answers to a text. *)

LEMMA GreatestNumber ==
  ASSUME NEW N \in Nat, NEW S \in SUBSET (0..N), S # {}
  PROVE  \E n \in S : \A m \in S : m <= n
<1> DEFINE gaps == {g \in 0..N : N - g \in S}
<1>1. gaps \in SUBSET Nat
  OBVIOUS
<1>2. \A m \in S : N - m \in gaps /\ m \in 0..N
  <2>1. \A m \in S : m \in 0..N /\ N - m \in 0..N /\ N - (N - m) = m
    OBVIOUS
  <2>. QED  BY <2>1
<1>3. gaps # {} /\ \A g \in gaps : N - g \in S /\ g \in 0..N
  BY <1>2
<1> HIDE DEF gaps
<1>4. PICK g \in gaps : \A h \in gaps : g <= h
  BY <1>1, <1>3, LeastNumber
<1>5. ASSUME NEW m \in S
      PROVE  m <= N - g
  <2>1. g <= N - m /\ m \in 0..N /\ g \in 0..N
    BY <1>2, <1>3, <1>4
  <2>. QED  BY <2>1
<1>. QED  BY <1>3, <1>5

LEMMA LineEndsFacts ==
  ASSUME NEW text \in Seq(Char)
  PROVE  /\ Len(text) \in Nat /\ DOMAIN text = 1..Len(text)
         /\ LineEnds(text) \subseteq 1..Len(text)
         /\ \A i \in 1..Len(text) : i \in LineEnds(text) <=> text[i] = Newline
BY DEF LineEnds

(* A line begins at most one character after the end of another. *)
LEMMA FirstOfFacts ==
  ASSUME NEW text \in Seq(Char), NEW i \in 1..Len(text)
  PROVE  /\ FirstOf(text, i) \in 1..i
         /\ FirstOf(text, i) = 1 \/ FirstOf(text, i) - 1 \in LineEnds(text)
         /\ \A l \in FirstOf(text, i)..(i - 1) : l \notin LineEnds(text)
<1> DEFINE ends == LineEnds(text)
           before == {l \in ends : l < i}
           First(k) == (k = 1 \/ k - 1 \in ends) /\ \A l \in k..(i - 1) : l \notin ends
<1>1. Len(text) \in Nat /\ i \in Nat /\ i >= 1 /\ ends \subseteq 1..Len(text)
  BY LineEndsFacts
<1> HIDE DEF ends
<1>2. \E k \in 1..i : First(k)
  <2>1. CASE before = {}
    <3>1. 1 \in 1..i /\ \A l \in 1..(i - 1) : l \in Nat /\ l < i
      BY <1>1
    <3>. QED  BY <2>1, <3>1
  <2>2. CASE before # {}
    <3>1. before \in SUBSET (0..i)
      <4>1. \A l \in ends : l < i => l \in 0..i
        BY <1>1
      <4>. QED  BY <4>1
    <3>2. \A l \in before : l \in ends /\ l \in Nat /\ l < i
      BY <1>1
    <3>3. \A l \in ends : l < i => l \in before
      OBVIOUS
    <3> HIDE DEF before
    <3>4. PICK n \in before : \A m \in before : m <= n
      BY <1>1, <2>2, <3>1, GreatestNumber
    <3>5. n + 1 \in 1..i /\ (n + 1) - 1 = n /\ n \in ends
      BY <1>1, <3>2
    <3>6. ASSUME NEW l \in (n + 1)..(i - 1), l \in ends
          PROVE  FALSE
      <4>1. n \in Nat /\ l \in Nat /\ l < i /\ ~(l <= n)
        BY <1>1, <3>2
      <4>. QED  BY <3>3, <3>4, <3>6, <4>1
    <3>7. First(n + 1)
      BY <3>5, <3>6
    <3>. QED  BY <3>5, <3>7
  <2>. QED  BY <2>1, <2>2
<1>3. FirstOf(text, i) = CHOOSE k \in 1..i : First(k)
  BY DEF FirstOf, ends
<1> HIDE DEF First
<1>4. FirstOf(text, i) \in 1..i /\ First(FirstOf(text, i))
  BY <1>2, <1>3
<1>. QED  BY <1>4 DEF First, ends

(* A line ends at the next newline. *)
LEMMA LastOfFacts ==
  ASSUME NEW text \in Seq(Char), NEW i \in 1..Len(text), NEW b \in LineEnds(text), b >= i
  PROVE  /\ LastOf(text, i) \in LineEnds(text) /\ LastOf(text, i) >= i
         /\ \A l \in LineEnds(text) : l >= i => l >= LastOf(text, i)
<1> DEFINE ends == LineEnds(text)
           after == {l \in ends : l >= i}
           Nearest(k) == k >= i /\ \A l \in ends : l >= i => l >= k
<1>1. Len(text) \in Nat /\ i \in Nat /\ ends \subseteq 1..Len(text) /\ b \in ends
  BY LineEndsFacts
<1>2. LastOf(text, i) = CHOOSE k \in ends : Nearest(k)
  BY DEF LastOf
<1> HIDE DEF ends
<1>3. after # {} /\ after \in SUBSET Nat /\ \A l : l \in after <=> l \in ends /\ l >= i
  <2>1. b \in after
    BY <1>1
  <2>2. \A l \in ends : l \in Nat
    BY <1>1
  <2>. QED  BY <2>1, <2>2
<1> HIDE DEF after
<1>4. PICK n \in after : \A m \in after : n <= m
  BY <1>3, LeastNumber
<1>5. n \in ends /\ Nearest(n)
  <2>1. n \in ends /\ n >= i /\ \A l \in ends : l \in Nat
    BY <1>1, <1>3
  <2>2. ASSUME NEW l \in ends, l >= i
        PROVE  l >= n
    <3>1. n <= l /\ l \in Nat /\ n \in Nat
      BY <1>3, <1>4, <2>1, <2>2
    <3>. QED  BY <3>1
  <2>. QED  BY <2>1, <2>2
<1> HIDE DEF Nearest
<1>6. LastOf(text, i) \in ends /\ Nearest(LastOf(text, i))
  BY <1>2, <1>5
<1>. QED  BY <1>6 DEF Nearest, ends

(* The answers are a text that ends where the last complete line does. *)
LEMMA AnswersFacts ==
  ASSUME NEW text \in Seq(Char)
  PROVE  /\ Answers(text) \in Seq(Char) /\ Len(Answers(text)) \in Nat
         /\ Len(Answers(text)) <= Len(text)
         /\ \A k \in LineEnds(text) : k <= Len(Answers(text))
         /\ \A i \in 1..Len(Answers(text)) :
              Answers(text)[i] = IF text[i] = Newline THEN Newline
                                 ELSE text[FirstOf(text, i) + LastOf(text, i) - 1 - i]
<1> DEFINE ends == LineEnds(text)
           complete == {i \in DOMAIN text : \E k \in ends : k >= i}
           Value(i) == IF text[i] = Newline THEN Newline
                       ELSE text[FirstOf(text, i) + LastOf(text, i) - 1 - i]
<1>1. Len(text) \in Nat /\ DOMAIN text = 1..Len(text) /\ ends \subseteq 1..Len(text)
  BY LineEndsFacts
<1>2. Answers(text) = [i \in complete |-> Value(i)]
  BY DEF Answers
<1>3. \A i \in complete : Value(i) \in Char
  <2> SUFFICES ASSUME NEW i \in complete
               PROVE  Value(i) \in Char
    OBVIOUS
  <2>1. i \in 1..Len(text) /\ \E k \in ends : k >= i
    BY <1>1
  <2>2. PICK k \in ends : k >= i
    BY <2>1
  <2>3. FirstOf(text, i) \in 1..i
    BY <2>1, FirstOfFacts
  <2>4. LastOf(text, i) \in 1..Len(text) /\ LastOf(text, i) >= i
    BY <1>1, <2>1, <2>2, LastOfFacts
  <2>5. FirstOf(text, i) + LastOf(text, i) - 1 - i \in 1..Len(text) \/ LastOf(text, i) = i
    BY <1>1, <2>1, <2>3, <2>4
  <2>6. LastOf(text, i) = i => text[i] = Newline
    <3>1. LastOf(text, i) \in ends
      BY <2>1, <2>2, LastOfFacts
    <3>. QED  BY <2>1, <3>1, LineEndsFacts
  <2>7. Newline \in Char
    BY CharAssumption
  <2>8. \A j \in 1..Len(text) : text[j] \in Char
    BY ElementOfSeq
  <2>. QED  BY <2>5, <2>6, <2>7, <2>8
<1> HIDE DEF Value
<1>4. \E n \in Nat : n <= Len(text) /\ complete = 1..n /\ \A k \in ends : k <= n
  <2>1. CASE ends = {}
    <3>1. complete = 1..0 /\ 0 \in Nat /\ 0 <= Len(text)
      BY <1>1, <2>1
    <3>. QED  BY <2>1, <3>1
  <2>2. CASE ends # {}
    <3>1. ends \in SUBSET (0..Len(text))
      BY <1>1
    <3> HIDE DEF ends
    <3>2. PICK n \in ends : \A m \in ends : m <= n
      BY <1>1, <2>2, <3>1, GreatestNumber
    <3>3. n \in Nat /\ n <= Len(text) /\ \A k \in ends : k \in Nat
      BY <1>1
    <3>4. \A i \in 1..n : i \in complete
      <4>1. \A i \in 1..n : i \in 1..Len(text) /\ n >= i
        BY <1>1, <3>3
      <4>. QED  BY <1>1, <4>1
    <3>5. \A i \in complete : i \in 1..n
      <4>1. \A i \in complete : i \in 1..Len(text) /\ \E k \in ends : k >= i
        BY <1>1
      <4>2. \A i \in Nat, k \in Nat : k >= i /\ k <= n => i <= n
        BY <3>3
      <4>3. \A i \in complete : i \in Nat /\ i >= 1 /\ i <= n
        BY <1>1, <3>2, <3>3, <4>1, <4>2
      <4>. QED  BY <3>3, <4>3
    <3>6. complete = 1..n
      BY <3>4, <3>5
    <3>. QED  BY <3>2, <3>3, <3>6
  <2>. QED  BY <2>1, <2>2
<1>5. PICK n \in Nat : n <= Len(text) /\ complete = 1..n /\ \A k \in ends : k <= n
  BY <1>4
<1> HIDE DEF complete
<1>6. /\ Answers(text) \in [1..n -> Char]
      /\ \A i \in 1..n : Answers(text)[i] = Value(i)
  BY <1>2, <1>3, <1>5
<1>7. Answers(text) \in Seq(Char) /\ Len(Answers(text)) = n
  BY <1>6
<1>. QED  BY <1>5, <1>6, <1>7 DEF Value, ends

(* Every complete line is answered in its place. *)
LEMMA AnsweredLine ==
  ASSUME NEW text \in Seq(Char), NEW a \in Nat, a = 0 \/ a \in LineEnds(text),
         NEW b \in LineEnds(text), a < b, \A l \in (a + 1)..(b - 1) : l \notin LineEnds(text)
  PROVE  /\ b <= Len(Answers(text)) /\ Answers(text)[b] = Newline
         /\ \A i \in (a + 1)..(b - 1) : Answers(text)[i] = text[a + b - i]
<1> DEFINE ends == LineEnds(text)
<1>1. Len(text) \in Nat /\ ends \subseteq 1..Len(text) /\ b \in ends /\ b \in 1..Len(text)
  BY LineEndsFacts
<1>2. b <= Len(Answers(text)) /\ b \in 1..Len(Answers(text))
  BY <1>1, AnswersFacts
<1>3. Answers(text)[b] = Newline
  BY <1>1, <1>2, AnswersFacts, LineEndsFacts
<1>4. ASSUME NEW i \in (a + 1)..(b - 1)
      PROVE  Answers(text)[i] = text[a + b - i]
  <2>1. i \in 1..Len(text) /\ i \in 1..Len(Answers(text)) /\ b >= i /\ i \in Nat /\ i \notin ends
    BY <1>1, <1>2, AnswersFacts
  <2>2. text[i] # Newline
    BY <2>1, LineEndsFacts
  <2>3. FirstOf(text, i) = a + 1
    <3> DEFINE f == FirstOf(text, i)
    <3>1. f \in 1..i /\ (f = 1 \/ f - 1 \in ends) /\ \A l \in f..(i - 1) : l \notin ends
      BY <2>1, FirstOfFacts
    <3> HIDE DEF f
    <3>2. ~(f < a + 1)
      <4>1. f < a + 1 => a \in f..(i - 1) /\ a # 0
        BY <2>1, <3>1
      <4>. QED  BY <3>1, <4>1
    <3>3. ~(f > a + 1)
      <4>1. f > a + 1 => f # 1 /\ f - 1 \in (a + 1)..(b - 1)
        <5>1. i \in (a + 1)..(b - 1) /\ a \in Nat /\ b \in Nat /\ f \in 1..i
          BY <1>1, <3>1
        <5>. QED  BY <5>1
      <4>. QED  BY <3>1, <4>1
    <3>4. f = a + 1
      BY <3>1, <3>2, <3>3
    <3>. QED  BY <3>4 DEF f
  <2>4. LastOf(text, i) = b
    <3> DEFINE z == LastOf(text, i)
    <3>1. z \in ends /\ z >= i /\ \A l \in ends : l >= i => l >= z
      BY <1>1, <2>1, LastOfFacts
    <3> HIDE DEF z
    <3>2. b >= z /\ z \in Nat
      BY <1>1, <2>1, <3>1
    <3>3. ~(z < b)
      <4>1. z < b => z \in (a + 1)..(b - 1)
        BY <1>1, <2>1, <3>1, <3>2
      <4>. QED  BY <3>1, <4>1
    <3>4. z = b
      BY <1>1, <3>2, <3>3
    <3>. QED  BY <3>4 DEF z
  <2>5. Answers(text)[i] = text[(a + 1) + b - 1 - i]
    BY <2>1, <2>2, <2>3, <2>4, AnswersFacts
  <2>6. (a + 1) + b - 1 - i = a + b - i
    BY <1>1, <2>1
  <2>. QED  BY <2>5, <2>6
<1>. QED  BY <1>2, <1>3, <1>4

-----------------------------------------------------------------------------
(* The server's text is the peer's, and what it sends is of the answers.   *)

Theirs == Input[1]
Ours == Answers(Theirs)

LEMMA TheirsOurs ==
  /\ Theirs \in Seq(Char) /\ Len(Theirs) \in Nat
  /\ Ours \in Seq(Char) /\ Len(Ours) \in Nat
BY InputAssumption, EpochAssumption, AnswersFacts DEF Theirs, Ours

(* What p carries is in the answers, at its position. *)
Intact(p) == ack_until(p) <= Len(Ours) /\ \A i \in 1..Len(p.data) : p.data[i] = Ours[p.pos + i]

(* A connection has received the peer's text up to some position, consumed *)
(* it up to the end of a line, and sent or is about to send the answers up *)
(* to there.                                                               *)
Follows(c) ==
  /\ recv_until(c) <= Len(Theirs)
  /\ \A i \in 1..Len(c.buffered) : c.buffered[i] = Theirs[c.consumed_until + i]
  /\ c.consumed_until = 0 \/ c.consumed_until \in LineEnds(Theirs)
  /\ End(c.send_buffered, c.sent_until) = c.consumed_until
  /\ \A k \in 1..Len(c.send_buffered) : Intact(c.send_buffered[k])

(* The data of a message are the peer's text, at their position. *)
OfTheirs(m) ==
  m.pos + Len(m.data) <= Len(Theirs) /\ \A i \in 1..Len(m.data) : m.data[i] = Theirs[m.pos + i]

(* The arithmetic of an overlap of k characters, between a text of b       *)
(* characters from position c on and one of d characters from p on.        *)
Overlaps(b, c, d, k, p, t) ==
  /\ b + (d - k) + c <= t
  /\ \A i \in 1..(b + (d - k)) : i \notin 1..b =>
       i \in (b + 1)..(b + (d - k)) /\ i - b + k \in 1..d /\ p + (i - b + k) = c + i

LEMMA Overlap ==
  \A b, c, d, k, p, t \in Nat : k <= d /\ k + p = b + c /\ p + d <= t => Overlaps(b, c, d, k, p, t)
BY DEF Overlaps

LEMMA AbsorbFollows ==
  ASSUME NEW c \in Connection, Follows(c), NEW m \in Message, m.kind = "data", OfTheirs(m)
  PROVE  Follows(Absorb(c, m))
<1> DEFINE n == recv_until(c)
           k == n - m.pos
           text == c.buffered \o SubSeq(m.data, k + 1, Len(m.data))
           d == Absorb(c, m)
<1>1. /\ d \in Connection /\ d.send_buffered = c.send_buffered /\ d.sent_until = c.sent_until
      /\ d.consumed_until = c.consumed_until
  BY AbsorbFacts
<1>2. CASE ~(m.pos <= n /\ m.pos + Len(m.data) > n)
  BY <1>2 DEF Absorb
<1>3. CASE m.pos <= n /\ m.pos + Len(m.data) > n
  <2>1. /\ n \in Nat /\ m.pos \in Nat /\ m.data \in Seq(Char) /\ Len(m.data) \in Nat
        /\ c.buffered \in Seq(Char) /\ Len(c.buffered) \in Nat /\ c.consumed_until \in Nat
        /\ n = Len(c.buffered) + c.consumed_until /\ Len(Theirs) \in Nat
    BY MessageFacts, ConnectionFacts, TheirsOurs
  <2>2. d.buffered = text
    BY <1>3 DEF Absorb, Connection
  <2> HIDE DEF d, n
  <2>3. k \in Nat /\ k <= Len(m.data) /\ k = n - m.pos
    BY <1>3, <2>1
  <2> HIDE DEF k
  <2>4. /\ text \in Seq(Char) /\ Len(text) = Len(c.buffered) + (Len(m.data) - k)
        /\ \A i \in 1..Len(c.buffered) : text[i] = c.buffered[i]
        /\ \A i \in (Len(c.buffered) + 1)..(Len(c.buffered) + (Len(m.data) - k)) :
             text[i] = m.data[i - Len(c.buffered) + k]
    BY <2>1, <2>3, Extended
  <2> HIDE DEF text
  <2> DEFINE length == Len(c.buffered) + (Len(m.data) - k)
  <2>o. /\ length + c.consumed_until <= Len(Theirs)
        /\ \A i \in 1..length : i \notin 1..Len(c.buffered) =>
             /\ i \in (Len(c.buffered) + 1)..length
             /\ i - Len(c.buffered) + k \in 1..Len(m.data)
             /\ m.pos + (i - Len(c.buffered) + k) = c.consumed_until + i
    <3>1. /\ m.pos \in Nat /\ Len(m.data) \in Nat /\ Len(c.buffered) \in Nat
          /\ c.consumed_until \in Nat /\ Len(Theirs) \in Nat
          /\ k \in Nat /\ k <= Len(m.data) /\ k + m.pos = Len(c.buffered) + c.consumed_until
          /\ m.pos + Len(m.data) <= Len(Theirs)
      BY <2>1, <2>3 DEF OfTheirs
    <3>2. Overlaps(Len(c.buffered), c.consumed_until, Len(m.data), k, m.pos, Len(Theirs))
      BY <3>1, Overlap
    <3>. QED  BY <3>2 DEF Overlaps
  <2>l. Len(text) = length
    BY <2>4
  <2>5. recv_until(d) <= Len(Theirs)
    <3>1. recv_until(d) = Len(text) + c.consumed_until
      BY <1>1, <2>2 DEF recv_until
    <3>. QED  BY <2>o, <2>l, <3>1
  <2>6. ASSUME NEW i \in 1..Len(text)
        PROVE  text[i] = Theirs[c.consumed_until + i]
    <3>1. CASE i \in 1..Len(c.buffered)
      BY <2>4, <3>1 DEF Follows
    <3>2. CASE i \notin 1..Len(c.buffered)
      <4>1. /\ i \in (Len(c.buffered) + 1)..length
            /\ i - Len(c.buffered) + k \in 1..Len(m.data)
            /\ m.pos + (i - Len(c.buffered) + k) = c.consumed_until + i
        BY <2>o, <2>l, <3>2
      <4>2. m.data[i - Len(c.buffered) + k] = Theirs[m.pos + (i - Len(c.buffered) + k)]
        BY <4>1 DEF OfTheirs
      <4>3. text[i] = m.data[i - Len(c.buffered) + k]
        BY <2>4, <4>1
      <4>. QED  BY <4>1, <4>2, <4>3
    <3>. QED  BY <3>1, <3>2
  <2>7. Follows(d)
    BY <1>1, <2>2, <2>5, <2>6 DEF Follows
  <2>. QED  BY <2>7 DEF d
<1>. QED  BY <1>2, <1>3

LEMMA TakeLineFollows ==
  ASSUME NEW c \in Connection, Chain(c.send_buffered, c.sent_until), Follows(c)
  PROVE  Follows(TakeLine(c))
<1> DEFINE d == TakeLine(c)
           a == c.consumed_until
           text == c.buffered
<1>1. CASE d = c
  BY <1>1
<1>2. ASSUME /\ d \in Connection /\ c.send_buffered = << >>
             /\ d.sent_until = c.sent_until
             /\ Chain(d.send_buffered, d.sent_until) /\ d.send_buffered # << >>,
             NEW i \in 1..Len(text),
             text[i] = Newline,
             \A j \in 1..(i - 1) : text[j] # Newline,
             d.consumed_until = a + i,
             d.buffered = SubSeq(text, i + 1, Len(text)),
             End(d.send_buffered, d.sent_until) = c.sent_until + i,
             Parts(d.send_buffered, c.sent_until, Reversed(SubSeq(text, 1, i)))
      PROVE  Follows(d)
  <2> HIDE DEF d
  <2>1. /\ text \in Seq(Char) /\ Len(text) \in Nat /\ a \in Nat /\ Len(Theirs) \in Nat
        /\ Len(text) + a <= Len(Theirs) /\ i \in Nat /\ i >= 1 /\ i <= Len(text)
        /\ Theirs \in Seq(Char)
    BY ConnectionFacts, TheirsOurs DEF Follows
  <2>2. c.sent_until = a
    BY <1>2 DEF Follows, End
  <2>3. a = 0 \/ a \in LineEnds(Theirs)
    BY DEF Follows
  <2>4. \A j \in 1..Len(text) : text[j] = Theirs[a + j]
    BY DEF Follows
  <2> DEFINE b == a + i
             answer == Reversed(SubSeq(text, 1, i))
  <2>5. b \in LineEnds(Theirs) /\ a < b /\ \A l \in (a + 1)..(b - 1) : l \notin LineEnds(Theirs)
    <3>1. b \in 1..Len(Theirs) /\ a < b
      BY <2>1
    <3>2. Theirs[b] = Newline
      BY <1>2, <2>4
    <3>3. ASSUME NEW l \in (a + 1)..(b - 1)
          PROVE  l \notin LineEnds(Theirs)
      <4>1. l - a \in 1..(i - 1) /\ l - a \in 1..Len(text) /\ a + (l - a) = l /\ l \in 1..Len(Theirs)
        BY <2>1
      <4>2. Theirs[l] # Newline
        BY <1>2, <2>4, <4>1
      <4>. QED  BY <2>1, <4>1, <4>2, LineEndsFacts
    <3>. QED  BY <2>1, <3>1, <3>2, <3>3, LineEndsFacts
  <2>6. /\ b <= Len(Ours) /\ Ours[b] = Newline
        /\ \A l \in (a + 1)..(b - 1) : Ours[l] = Theirs[a + b - l]
    BY <2>1, <2>3, <2>5, AnsweredLine DEF Ours
  <2>7. /\ answer \in Seq(Char) /\ Len(answer) = i
        /\ \A j \in 1..(i - 1) : answer[j] = text[i - j]
        /\ answer[i] = Newline
    BY <2>1, ReversedLine
  <2> HIDE DEF answer
  <2>8. ASSUME NEW j \in 1..i
        PROVE  answer[j] = Ours[a + j]
    <3>1. CASE j = i
      BY <2>6, <2>7, <3>1
    <3>2. CASE j # i
      <4>1. /\ j \in 1..(i - 1) /\ a + j \in (a + 1)..(b - 1) /\ i - j \in 1..Len(text)
            /\ a + b - (a + j) = a + (i - j)
        BY <2>1, <3>2
      <4>2. Ours[a + j] = Theirs[a + (i - j)]
        BY <2>6, <4>1
      <4>. QED  BY <2>4, <2>7, <4>1, <4>2
    <3>. QED  BY <3>1, <3>2
  <2>9. ASSUME NEW k \in 1..Len(d.send_buffered)
        PROVE  Intact(d.send_buffered[k])
    <3> DEFINE p == d.send_buffered[k]
    <3>1. p \in Packet /\ p.data # << >>
      BY <1>2, ElementOfSeq DEF Chain
    <3>2. \A n \in 1..Len(p.data) : p.pos - a + n \in 1..i /\ p.data[n] = answer[p.pos - a + n]
      BY <1>2, <2>2, <2>7 DEF Parts, Part, answer
    <3> HIDE DEF p
    <3>3. p.pos \in Nat /\ Len(p.data) \in Nat /\ Len(p.data) >= 1 /\ ack_until(p) = p.pos + Len(p.data)
      BY <3>1, PacketFacts
    <3>4. ack_until(p) <= Len(Ours)
      <4>1. p.pos - a + Len(p.data) \in 1..i
        BY <3>2, <3>3
      <4>2. ack_until(p) <= b
        BY <2>1, <3>3, <4>1
      <4>. QED  BY <2>1, <2>6, <3>3, <4>2, TheirsOurs
    <3>5. ASSUME NEW n \in 1..Len(p.data)
          PROVE  p.data[n] = Ours[p.pos + n]
      <4>1. a + (p.pos - a + n) = p.pos + n
        BY <2>1, <3>3
      <4>. QED  BY <2>8, <3>2, <4>1
    <3>. QED  BY <3>4, <3>5 DEF Intact, p
  <2>10. /\ recv_until(d) <= Len(Theirs)
         /\ \A j \in 1..Len(d.buffered) : d.buffered[j] = Theirs[d.consumed_until + j]
    <3> DEFINE rest == SubSeq(text, i + 1, Len(text))
    <3>1. Len(rest) = Len(text) - i /\ \A j \in 1..(Len(text) - i) : rest[j] = text[i + j]
      BY <2>1
    <3>2. \A j \in 1..(Len(text) - i) : i + j \in 1..Len(text) /\ a + (i + j) = (a + i) + j
      BY <2>1
    <3>3. d.buffered = rest
      BY <1>2
    <3> HIDE DEF rest
    <3>4. recv_until(d) <= Len(Theirs)
      BY <1>2, <2>1, <3>1, <3>3 DEF recv_until
    <3>5. \A j \in 1..Len(rest) : rest[j] = Theirs[(a + i) + j]
      BY <2>4, <3>1, <3>2
    <3>. QED  BY <1>2, <3>3, <3>4, <3>5
  <2>. QED  BY <1>2, <2>2, <2>5, <2>9, <2>10 DEF Follows
<1>3. \/ d = c
      \/ /\ d \in Connection /\ c.send_buffered = << >>
         /\ d.sent_until = c.sent_until
         /\ Chain(d.send_buffered, d.sent_until) /\ d.send_buffered # << >>
         /\ \E i \in 1..Len(text) :
              /\ text[i] = Newline
              /\ \A j \in 1..(i - 1) : text[j] # Newline
              /\ d.consumed_until = a + i
              /\ d.buffered = SubSeq(text, i + 1, Len(text))
              /\ End(d.send_buffered, d.sent_until) = c.sent_until + i
              /\ Parts(d.send_buffered, c.sent_until, Reversed(SubSeq(text, 1, i)))
  BY TakeLineFacts
<1> HIDE DEF d
<1>4. Follows(d)
  BY <1>1, <1>2, <1>3
<1>. QED  BY <1>4 DEF d

(* What process_buffers sends is of the answers, and the rest follows. *)
LEMMA ProcessFollows ==
  ASSUME NEW c \in Connection, Chain(c.send_buffered, c.sent_until), Follows(c),
         process_buffers(c)
  PROVE  /\ Follows(conn')
         /\ pending' = pending \/ Intact(pending')
<1> DEFINE d == TakeLine(c)
           chunk == Head(d.send_buffered)
<1>1. /\ d \in Connection /\ Chain(d.send_buffered, d.sent_until) /\ Follows(d)
  BY TakeLineFacts, TakeLineFollows
<1>2. IF d.send_buffered = << >>
      THEN conn' = d /\ pending' = pending
      ELSE /\ conn' = [d EXCEPT !.send_buffered = Tail(d.send_buffered), !.sent_until = ack_until(chunk)]
           /\ pending' = [pos |-> chunk.pos, data |-> chunk.data, born |-> born, sends |-> FALSE]
  BY DEF process_buffers
<1> HIDE DEF d
<1>3. CASE d.send_buffered = << >>
  BY <1>1, <1>2, <1>3
<1>4. CASE d.send_buffered # << >>
  <2>1. d.sent_until \in Nat
    BY <1>1, ConnectionFacts
  <2>2. /\ chunk = d.send_buffered[1] /\ chunk \in Packet
        /\ End(Tail(d.send_buffered), ack_until(chunk)) = End(d.send_buffered, d.sent_until)
        /\ \A k \in 1..Len(Tail(d.send_buffered)) :
             /\ k + 1 \in 1..Len(d.send_buffered)
             /\ Tail(d.send_buffered)[k] = d.send_buffered[k + 1]
    BY <1>1, <1>4, <2>1, ChainTail
  <2>3. 1 \in 1..Len(d.send_buffered)
    BY <1>1, <1>4 DEF Chain
  <2> HIDE DEF chunk
  <2>4. /\ conn'.send_buffered = Tail(d.send_buffered) /\ conn'.sent_until = ack_until(chunk)
        /\ conn'.buffered = d.buffered /\ conn'.consumed_until = d.consumed_until
    BY <1>1, <1>2, <1>4 DEF Connection
  <2>5. pending'.pos = chunk.pos /\ pending'.data = chunk.data
    BY <1>2, <1>4
  <2>6. Intact(chunk) /\ \A k \in 1..Len(Tail(d.send_buffered)) : Intact(Tail(d.send_buffered)[k])
    BY <1>1, <2>2, <2>3 DEF Follows
  <2>7. Intact(pending')
    BY <2>5, <2>6 DEF Intact, ack_until
  <2>8. recv_until(conn') = recv_until(d)
    BY <2>4 DEF recv_until
  <2>9. Follows(conn')
    BY <1>1, <2>2, <2>4, <2>6, <2>8 DEF Follows
  <2>. QED  BY <2>7, <2>9
<1>. QED  BY <1>3, <1>4

(* For a peer that opens the session once: what arrives is its text, what  *)
(* the server keeps follows it, and what is sent and received is of the    *)
(* answers.  A session that expired may be opened again by a late connect  *)
(* packet: it starts over, with the same text and the same answers.        *)
AnswersFollow ==
  /\ \A x : InChannel(x) /\ x.kind = "data" => OfTheirs(x)
  /\ state = "active" => Follows(conn)
  /\ \A m \in InFlight : Intact(m)
  /\ \A p \in written : Intact(p)
  /\ Len(got) <= Len(Ours)
  /\ \A i \in 1..Len(got) : got[i] = Ours[i]

LEMMA AnswersFollowStep ==
  ASSUME Epoch = {1}, TypeOK, TypeOK', Linked, AnswersFollow, [Next]_vars
  PROVE  AnswersFollow'
<1>1. ASSUME NEW x, InChannel(x)', x.kind = "data"
      PROVE  OfTheirs(x)
  <2>1. CASE InChannel(x)
    BY <1>1, <2>1 DEF AnswersFollow
  <2>2. CASE Sent(x)
    <3>1. epoch = 1
      BY <2>2 DEF Sent
    <3>. QED  BY <1>1, <2>2, <3>1 DEF Sent, OfTheirs, Theirs
  <2>. QED  BY <1>1, <2>1, <2>2, ChannelStep
<1>2. ASSUME NEW c, Continues(c)
      PROVE  Follows(conn') /\ (pending' = pending \/ Intact(pending'))
  <2>1. /\ state = "active" /\ c \in Connection /\ c.send_buffered = conn.send_buffered
        /\ c.sent_until = conn.sent_until /\ process_buffers(c)
    BY <1>2 DEF Continues
  <2>2. Chain(c.send_buffered, c.sent_until) /\ Follows(conn) /\ conn \in Connection
    BY <2>1 DEF Linked, AnswersFollow, TypeOK, Connection
  <2>3. CASE c.buffered = conn.buffered /\ c.consumed_until = conn.consumed_until
    <3>1. Follows(c)
      BY <2>1, <2>2, <2>3 DEF Follows, recv_until
    <3>. QED  BY <2>1, <2>2, <3>1, ProcessFollows
  <2>4. CASE Takes("data") /\ c = Absorb(conn, Head(msg_recv))
    <3>1. Head(msg_recv) \in Message /\ Head(msg_recv).kind = "data" /\ InChannel(Head(msg_recv))
      BY <2>4, TakesType, ChannelTaken
    <3>2. OfTheirs(Head(msg_recv))
      BY <3>1 DEF AnswersFollow
    <3>3. Follows(c)
      BY <2>2, <2>4, <3>1, <3>2, AbsorbFollows
    <3>. QED  BY <2>1, <2>2, <3>3, ProcessFollows
  <2>. QED  BY <1>2, <2>3, <2>4 DEF Continues
<1>3. state' = "active" => Follows(conn')
  <2>1. CASE conn' = conn /\ (state' = state \/ state' = "closed")
    BY <2>1 DEF AnswersFollow
  <2>2. CASE HandleConnect /\ state = "closed"
    <3>1. conn' = Fresh
      BY <2>2 DEF HandleConnect
    <3>2. recv_until(Fresh) = 0
      BY FreshFacts DEF recv_until
    <3>. QED  BY <3>1, <3>2, FreshFacts, TheirsOurs DEF Follows, End
  <2>. QED  BY <1>2, <2>1, <2>2, ConnectionStep
<1>4. ASSUME NEW m \in InFlight'
      PROVE  Intact(m)
  <2>1. m \in Internal /\ Comes(m)
    BY InFlightTypeNext, FlightStep DEF FlightKept
  <2>2. CASE m \in InFlight
    BY <2>2 DEF AnswersFollow
  <2>3. ASSUME NEW k \in InFlight, m = [k EXCEPT !.sends = TRUE]
        PROVE  Intact(m)
    <3>1. k \in Internal /\ Intact(k)
      BY InFlightType DEF AnswersFollow
    <3>2. m.pos = k.pos /\ m.data = k.data
      BY <2>3, <3>1 DEF Internal
    <3>. QED  BY <3>1, <3>2 DEF Intact, ack_until
  <2>4. CASE m = pending' /\ pending' # pending
    <3>1. m # Nothing
      BY <2>1, InternalFacts
    <3>2. ~ HandleConnect
      BY <2>4 DEF HandleConnect
    <3>3. \E c : Continues(c)
      BY <2>4, <3>1, <3>2, ConnectionStep
    <3>. QED  BY <1>2, <2>4, <3>3
  <2>. QED  BY <2>1, <2>2, <2>3, <2>4 DEF Comes
<1>5. ASSUME NEW p \in written'
      PROVE  Intact(p)
  <2>1. CASE p \in written
    BY <2>1 DEF AnswersFollow
  <2>2. ASSUME NEW m \in InFlight, p = [pos |-> m.pos, data |-> m.data]
        PROVE  Intact(p)
    <3>1. Intact(m) /\ p.pos = m.pos /\ p.data = m.data
      BY <2>2 DEF AnswersFollow
    <3>. QED  BY <3>1 DEF Intact, ack_until
  <2>. QED  BY <2>1, <2>2, WrittenStep
<1>6. Len(got') <= Len(Ours) /\ \A i \in 1..Len(got') : got'[i] = Ours[i]
  <2>1. CASE got' = got
    BY <2>1 DEF AnswersFollow
  <2>2. ASSUME NEW p \in written, Receive(p)
        PROVE  Len(got') <= Len(Ours) /\ \A i \in 1..Len(got') : got'[i] = Ours[i]
    <3>1. /\ p \in Packet /\ got \in Seq(Char) /\ Len(got') = ack_until(p)
          /\ \A i \in 1..Len(got) : got'[i] = got[i]
          /\ \A i \in (Len(got) + 1)..ack_until(p) : got'[i] = p.data[i - p.pos]
      BY <2>2, Received
    <3>2. /\ p.pos \in Nat /\ Len(p.data) \in Nat /\ ack_until(p) = p.pos + Len(p.data)
          /\ Len(got) \in Nat /\ p.pos <= Len(got)
      BY <2>2, <3>1, PacketFacts DEF Receive
    <3>3. Intact(p)
      BY DEF AnswersFollow
    <3>4. ASSUME NEW i \in 1..Len(got')
          PROVE  got'[i] = Ours[i]
      <4>1. CASE i \in 1..Len(got)
        BY <3>1, <4>1 DEF AnswersFollow
      <4>2. CASE i \notin 1..Len(got)
        <5>1. i \in 1..ack_until(p)
          BY <3>1
        <5>2. /\ i \in (Len(got) + 1)..ack_until(p)
              /\ i - p.pos \in 1..Len(p.data) /\ p.pos + (i - p.pos) = i
          BY <3>2, <4>2, <5>1
        <5>3. p.data[i - p.pos] = Ours[p.pos + (i - p.pos)]
          BY <3>3, <5>2 DEF Intact
        <5>. QED  BY <3>1, <5>2, <5>3
      <4>. QED  BY <4>1, <4>2
    <3>. QED  BY <3>1, <3>3, <3>4 DEF Intact
  <2>3. CASE Open
    <3>1. got' = << >>
      BY <2>3 DEF Open
    <3>. QED  BY <3>1, TheirsOurs
  <2>. QED  BY <2>1, <2>2, <2>3, GotStep
<1>7. \A x : InChannel(x)' /\ x.kind = "data" => OfTheirs(x)
  BY <1>1
<1>. QED
  BY <1>3, <1>4, <1>5, <1>6, <1>7
  DEF AnswersFollow, Intact, ack_until, Follows, recv_until, OfTheirs, InChannel, Ours, Theirs

(* Pieces of texts that agree character by character. *)
LEMMA PartOfText ==
  ASSUME NEW text \in Seq(Char), NEW data \in Seq(Char), NEW pos \in Nat,
         pos + Len(data) <= Len(text), \A i \in 1..Len(data) : data[i] = text[pos + i]
  PROVE  data = SubSeq(text, pos + 1, pos + Len(data))
<1> DEFINE part == SubSeq(text, pos + 1, pos + Len(data))
<1>1. Len(data) \in Nat /\ Len(text) \in Nat
  OBVIOUS
<1>2. part \in Seq(Char) /\ Len(part) = Len(data)
  BY <1>1
<1>3. \A i \in 1..Len(data) : part[i] = text[pos + i]
  BY <1>1
<1> HIDE DEF part
<1>4. \A i \in 1..Len(data) : part[i] = data[i]
  BY <1>3
<1>5. part = data
  BY <1>2, <1>4, SeqEqual
<1>. QED  BY <1>5 DEF part

LEMMA SameParts ==
  ASSUME NEW s \in Seq(Char), NEW t \in Seq(Char), Len(s) <= Len(t),
         \A i \in 1..Len(s) : s[i] = t[i]
  PROVE  SubSeq(s, 1, Len(s)) = SubSeq(t, 1, Len(s))
<1>1. Len(s) \in Nat /\ Len(t) \in Nat /\ 0 \in Nat /\ 0 + Len(s) = Len(s) /\ 0 + 1 = 1
      /\ \A i \in 1..Len(s) : 0 + i = i
  OBVIOUS
<1>2. s = SubSeq(t, 0 + 1, 0 + Len(s)) /\ s = SubSeq(s, 0 + 1, 0 + Len(s))
  BY <1>1, PartOfText
<1>. QED  BY <1>1, <1>2

-----------------------------------------------------------------------------
(* How far a session gets in the longest text the peer sends.              *)

Longest == Max({Len(Input[e]) : e \in Epoch})

(* Finitely many numbers have a bound. *)
LEMMA BoundOfFinite ==
  ASSUME NEW S, IsFiniteSet(S), NEW f \in [S -> Nat]
  PROVE  \E b \in Nat : \A x \in S : f[x] <= b
<1> DEFINE n == Cardinality(S)
<1>1. n \in Nat /\ ExistsBijection(1..n, S)
  BY FS_CardinalityType
<1> HIDE DEF n
<1>2. PICK g \in [1..n -> S] : \A x \in S : \E i \in 1..n : g[i] = x
  BY <1>1 DEF ExistsBijection, Bijection, Surjection
<1> DEFINE bounded == {k \in 0..n : \E b \in Nat : \A i \in 1..k : f[g[i]] <= b}
<1>3. 0 \in bounded
  BY <1>1
<1>4. ASSUME NEW k \in 0..(n - 1), k \in bounded
      PROVE  k + 1 \in bounded
  <2>1. PICK b \in Nat : \A i \in 1..k : f[g[i]] <= b
    BY <1>4
  <2>2. k \in Nat /\ k + 1 \in 0..n /\ k + 1 \in 1..n
    BY <1>1
  <2> DEFINE last == f[g[k + 1]]
             c == IF last > b THEN last ELSE b
  <2>3. last \in Nat
    BY <1>2, <2>2
  <2>4. c \in Nat /\ last <= c /\ \A x \in Nat : x <= b => x <= c
    BY <2>3
  <2> HIDE DEF c
  <2>5. ASSUME NEW i \in 1..(k + 1)
        PROVE  f[g[i]] <= c
    <3>1. CASE i = k + 1
      BY <2>4, <3>1
    <3>2. CASE i # k + 1
      <4>1. i \in 1..k /\ i \in 1..n
        BY <1>1, <2>2, <3>2
      <4>2. f[g[i]] \in Nat /\ f[g[i]] <= b
        BY <1>2, <2>1, <4>1
      <4>. QED  BY <2>4, <4>2
    <3>. QED  BY <3>1, <3>2
  <2>. QED  BY <2>2, <2>4, <2>5
<1> HIDE DEF bounded
<1>5. n \in bounded
  <2>2. \A k \in 0..n : k \in bounded
    BY <1>1, <1>3, <1>4, UpTo
  <2>3. n \in 0..n
    BY <1>1
  <2>. QED  BY <2>2, <2>3
<1>6. PICK b \in Nat : \A i \in 1..n : f[g[i]] <= b
  BY <1>5 DEF bounded
<1>. QED  BY <1>2, <1>6

LEMMA LongestFacts ==
  Longest \in Nat /\ \A e \in Epoch : Len(Input[e]) \in Nat /\ Len(Input[e]) <= Longest
<1> DEFINE f == [e \in Epoch |-> Len(Input[e])]
           S == {Len(Input[e]) : e \in Epoch}
<1>1. \A e \in Epoch : Len(Input[e]) \in Nat
  BY InputAssumption
<1>2. IsFiniteSet(Epoch) /\ f \in [Epoch -> Nat]
  BY <1>1, EpochAssumption
<1>3. PICK b \in Nat : \A e \in Epoch : f[e] <= b
  BY <1>2, BoundOfFinite
<1>4. S \in SUBSET (0..b) /\ S # {}
  <2>1. \A e \in Epoch : Len(Input[e]) <= b
    BY <1>3
  <2>2. \A e \in Epoch : Len(Input[e]) \in 0..b
    BY <1>1, <2>1
  <2>. QED  BY <2>2, EpochAssumption
<1>5. \E n \in S : \A m \in S : m <= n
  BY <1>4, GreatestNumber
<1>6. \A m, n \in S : m <= n <=> n >= m
  BY <1>4
<1>7. Max(S) \in S /\ \A m \in S : Max(S) >= m
  BY <1>5, <1>6 DEF Max
<1>. QED  BY <1>1, <1>4, <1>7 DEF Longest

(* A connection has received, consumed and sent no more than there is. *)
Within(c) ==
  /\ recv_until(c) <= Longest
  /\ c.sent_until <= c.consumed_until
  /\ End(c.send_buffered, c.sent_until) = c.consumed_until
  /\ \A k \in 1..Len(c.send_buffered) : ack_until(c.send_buffered[k]) <= c.consumed_until

LEMMA AbsorbWithin ==
  ASSUME NEW c \in Connection, Within(c), NEW m \in Message, m.kind = "data",
         m.pos + Len(m.data) <= Longest
  PROVE  Within(Absorb(c, m))
<1> DEFINE n == recv_until(c)
           k == n - m.pos
           text == c.buffered \o SubSeq(m.data, k + 1, Len(m.data))
           d == Absorb(c, m)
<1>1. /\ d \in Connection /\ d.send_buffered = c.send_buffered /\ d.sent_until = c.sent_until
      /\ d.consumed_until = c.consumed_until
  BY AbsorbFacts
<1>2. CASE ~(m.pos <= n /\ m.pos + Len(m.data) > n)
  BY <1>2 DEF Absorb
<1>3. CASE m.pos <= n /\ m.pos + Len(m.data) > n
  <2>1. /\ n \in Nat /\ m.pos \in Nat /\ m.data \in Seq(Char) /\ Len(m.data) \in Nat
        /\ c.buffered \in Seq(Char) /\ Len(c.buffered) \in Nat /\ c.consumed_until \in Nat
        /\ n = Len(c.buffered) + c.consumed_until
    BY MessageFacts, ConnectionFacts
  <2>2. d.buffered = text
    BY <1>3 DEF Absorb, Connection
  <2> HIDE DEF d, n
  <2>3. k \in Nat /\ k <= Len(m.data) /\ k = n - m.pos
    BY <1>3, <2>1
  <2> HIDE DEF k
  <2>4. Len(text) = Len(c.buffered) + (Len(m.data) - k)
    BY <2>1, <2>3, Extended
  <2> HIDE DEF text
  <2>5. recv_until(d) <= Longest
    <3>1. recv_until(d) = Len(text) + c.consumed_until
      BY <1>1, <2>2 DEF recv_until
    <3>2. /\ m.pos \in Nat /\ Len(m.data) \in Nat /\ Len(c.buffered) \in Nat
          /\ c.consumed_until \in Nat /\ Longest \in Nat
          /\ k \in Nat /\ k <= Len(m.data) /\ k + m.pos = Len(c.buffered) + c.consumed_until
          /\ m.pos + Len(m.data) <= Longest
      BY <2>1, <2>3, LongestFacts
    <3>3. Overlaps(Len(c.buffered), c.consumed_until, Len(m.data), k, m.pos, Longest)
      BY <3>2, Overlap
    <3>. QED  BY <2>4, <3>1, <3>3 DEF Overlaps
  <2>6. Within(d)
    BY <1>1, <2>5 DEF Within
  <2>. QED  BY <2>6 DEF d
<1>. QED  BY <1>2, <1>3

LEMMA TakeLineWithin ==
  ASSUME NEW c \in Connection, Chain(c.send_buffered, c.sent_until), Within(c)
  PROVE  Within(TakeLine(c))
<1> DEFINE d == TakeLine(c)
           a == c.consumed_until
           text == c.buffered
<1>1. CASE d = c
  BY <1>1
<1>2. ASSUME /\ d \in Connection /\ c.send_buffered = << >>
             /\ d.sent_until = c.sent_until
             /\ Chain(d.send_buffered, d.sent_until),
             NEW i \in 1..Len(text),
             d.consumed_until = a + i,
             d.buffered = SubSeq(text, i + 1, Len(text)),
             End(d.send_buffered, d.sent_until) = c.sent_until + i,
             Parts(d.send_buffered, c.sent_until, Reversed(SubSeq(text, 1, i)))
      PROVE  Within(d)
  <2> HIDE DEF d
  <2>1. /\ text \in Seq(Char) /\ Len(text) \in Nat /\ a \in Nat /\ i \in Nat /\ i >= 1 /\ i <= Len(text)
    BY ConnectionFacts
  <2>2. c.sent_until = a
    BY <1>2 DEF Within, End
  <2> DEFINE answer == Reversed(SubSeq(text, 1, i))
  <2>3. Len(answer) = i
    BY <2>1, ReversedLine
  <2> HIDE DEF answer
  <2>4. ASSUME NEW k \in 1..Len(d.send_buffered)
        PROVE  ack_until(d.send_buffered[k]) <= a + i
    <3> DEFINE p == d.send_buffered[k]
    <3>1. p \in Packet /\ p.data # << >>
      BY <1>2, ElementOfSeq DEF Chain
    <3>2. \A n \in 1..Len(p.data) : p.pos - a + n \in 1..i
      BY <1>2, <2>2, <2>3 DEF Parts, Part, answer
    <3> HIDE DEF p
    <3>3. p.pos \in Nat /\ Len(p.data) \in Nat /\ Len(p.data) >= 1 /\ ack_until(p) = p.pos + Len(p.data)
      BY <3>1, PacketFacts
    <3>4. p.pos - a + Len(p.data) \in 1..i
      BY <3>2, <3>3
    <3>5. ack_until(p) <= a + i
      BY <2>1, <3>3, <3>4
    <3>. QED  BY <3>5 DEF p
  <2>5. recv_until(d) = recv_until(c)
    <3>1. Len(SubSeq(text, i + 1, Len(text))) = Len(text) - i
      BY <2>1
    <3>. QED  BY <1>2, <2>1, <3>1 DEF recv_until
  <2>6. d.sent_until <= d.consumed_until
    BY <1>2, <2>1, <2>2
  <2>. QED  BY <1>2, <2>2, <2>4, <2>5, <2>6 DEF Within
<1>3. \/ d = c
      \/ /\ d \in Connection /\ c.send_buffered = << >>
         /\ d.sent_until = c.sent_until
         /\ Chain(d.send_buffered, d.sent_until)
         /\ \E i \in 1..Len(text) :
              /\ d.consumed_until = a + i
              /\ d.buffered = SubSeq(text, i + 1, Len(text))
              /\ End(d.send_buffered, d.sent_until) = c.sent_until + i
              /\ Parts(d.send_buffered, c.sent_until, Reversed(SubSeq(text, 1, i)))
  BY TakeLineFacts
<1> HIDE DEF d
<1>4. Within(d)
  BY <1>1, <1>2, <1>3
<1>. QED  BY <1>4 DEF d

LEMMA ProcessWithin ==
  ASSUME NEW c \in Connection, Chain(c.send_buffered, c.sent_until), Within(c),
         process_buffers(c)
  PROVE  Within(conn')
<1> DEFINE d == TakeLine(c)
           chunk == Head(d.send_buffered)
<1>1. /\ d \in Connection /\ Chain(d.send_buffered, d.sent_until) /\ Within(d)
  BY TakeLineFacts, TakeLineWithin
<1>2. IF d.send_buffered = << >>
      THEN conn' = d /\ pending' = pending
      ELSE conn' = [d EXCEPT !.send_buffered = Tail(d.send_buffered), !.sent_until = ack_until(chunk)]
  BY DEF process_buffers
<1> HIDE DEF d
<1>3. CASE d.send_buffered = << >>
  BY <1>1, <1>2, <1>3
<1>4. CASE d.send_buffered # << >>
  <2>1. d.sent_until \in Nat
    BY <1>1, ConnectionFacts
  <2>2. /\ chunk = d.send_buffered[1]
        /\ End(Tail(d.send_buffered), ack_until(chunk)) = End(d.send_buffered, d.sent_until)
        /\ \A k \in 1..Len(Tail(d.send_buffered)) :
             /\ k + 1 \in 1..Len(d.send_buffered)
             /\ Tail(d.send_buffered)[k] = d.send_buffered[k + 1]
    BY <1>1, <1>4, <2>1, ChainTail
  <2>3. 1 \in 1..Len(d.send_buffered)
    BY <1>1, <1>4 DEF Chain
  <2> HIDE DEF chunk
  <2>4. /\ conn'.send_buffered = Tail(d.send_buffered) /\ conn'.sent_until = ack_until(chunk)
        /\ conn'.buffered = d.buffered /\ conn'.consumed_until = d.consumed_until
    BY <1>1, <1>2, <1>4 DEF Connection
  <2>5. recv_until(conn') = recv_until(d)
    BY <2>4 DEF recv_until
  <2>6. /\ ack_until(chunk) <= d.consumed_until
        /\ \A k \in 1..Len(Tail(d.send_buffered)) : ack_until(Tail(d.send_buffered)[k]) <= d.consumed_until
    BY <1>1, <2>2, <2>3 DEF Within
  <2>. QED  BY <1>1, <2>2, <2>4, <2>5, <2>6 DEF Within
<1>. QED  BY <1>3, <1>4

(* The data that arrive are within the texts, and so is the connection,    *)
(* also when it is closed.                                                 *)
Limited ==
  /\ \A x : InChannel(x) /\ x.kind = "data" => x.pos + Len(x.data) <= Longest
  /\ Within(conn)

LEMMA LimitedStep ==
  ASSUME TypeOK, Linked, Limited, [Next]_vars
  PROVE  Limited'
<1>1. ASSUME NEW x, InChannel(x)', x.kind = "data"
      PROVE  x.pos + Len(x.data) <= Longest
  <2>1. CASE InChannel(x)
    BY <1>1, <2>1 DEF Limited
  <2>2. CASE Sent(x)
    <3>1. /\ epoch \in Epoch /\ x.pos + Len(x.data) <= Len(Input[epoch])
          /\ x.pos \in Nat /\ Len(x.data) \in Nat
      BY <1>1, <2>2, MessageFacts DEF Sent
    <3>. QED  BY <3>1, LongestFacts
  <2>. QED  BY <1>1, <2>1, <2>2, ChannelStep
<1>2. Within(conn')
  <2>1. CASE conn' = conn
    BY <2>1 DEF Limited
  <2>2. CASE HandleConnect /\ state = "closed"
    <3>1. conn' = Fresh
      BY <2>2 DEF HandleConnect
    <3>2. recv_until(Fresh) = 0
      BY FreshFacts DEF recv_until
    <3>. QED  BY <3>1, <3>2, FreshFacts, LongestFacts DEF Within, End
  <2>3. ASSUME NEW c, Continues(c)
        PROVE  Within(conn')
    <3>1. /\ state = "active" /\ c \in Connection /\ c.send_buffered = conn.send_buffered
          /\ c.sent_until = conn.sent_until /\ process_buffers(c)
      BY <2>3 DEF Continues
    <3>2. Chain(c.send_buffered, c.sent_until) /\ Within(conn) /\ conn \in Connection
      BY <3>1 DEF Linked, Limited, TypeOK, Connection
    <3>3. CASE c.buffered = conn.buffered /\ c.consumed_until = conn.consumed_until
      <4>1. Within(c)
        BY <3>1, <3>2, <3>3 DEF Within, recv_until
      <4>. QED  BY <3>1, <3>2, <4>1, ProcessWithin
    <3>4. CASE Takes("data") /\ c = Absorb(conn, Head(msg_recv))
      <4>1. Head(msg_recv) \in Message /\ Head(msg_recv).kind = "data" /\ InChannel(Head(msg_recv))
        BY <3>4, TakesType, ChannelTaken
      <4>2. Head(msg_recv).pos + Len(Head(msg_recv).data) <= Longest
        BY <4>1 DEF Limited
      <4>3. Within(c)
        BY <3>2, <3>4, <4>1, <4>2, AbsorbWithin
      <4>. QED  BY <3>1, <3>2, <4>3, ProcessWithin
    <3>. QED  BY <2>3, <3>3, <3>4 DEF Continues
  <2>. QED  BY <2>1, <2>2, <2>3, ConnectionStep
<1>3. \A x : InChannel(x)' /\ x.kind = "data" => x.pos + Len(x.data) <= Longest
  BY <1>1
<1>. QED  BY <1>2, <1>3 DEF Limited, Within, recv_until, ack_until, End, Longest, InChannel

-----------------------------------------------------------------------------
(* The internal messages in flight are different ones. *)

(* A message in flight is of this session or an earlier one, and starts    *)
(* before what is sent next.                                               *)
Numbered == \A m \in InFlight : m.born <= born /\ (m.born = born => m.pos < conn.sent_until)

LEMMA NumberedStep ==
  ASSUME TypeOK, TypeOK', Linked, Numbered, [Next]_vars
  PROVE  Numbered'
<1>t. /\ born \in Nat /\ conn.sent_until \in Nat /\ conn'.sent_until \in Nat
  BY DEF TypeOK
<1>1. \/ born' = born /\ conn.sent_until <= conn'.sent_until
      \/ born' = born + 1
  <2>1. CASE conn' = conn /\ born' = born
    BY <1>t, <2>1
  <2>2. CASE HandleConnect /\ state = "closed"
    BY <2>2 DEF HandleConnect
  <2>3. ASSUME NEW c, Continues(c)
        PROVE  born' = born /\ conn.sent_until <= conn'.sent_until
    BY <2>3, ContinuesFacts DEF Continues
  <2>. QED  BY <2>1, <2>2, <2>3, ConnectionStep
<1>2. ASSUME NEW m \in InFlight'
      PROVE  m.born <= born' /\ (m.born = born' => m.pos < conn'.sent_until)
  <2>1. m \in Internal /\ Comes(m)
    BY InFlightTypeNext, FlightStep DEF FlightKept
  <2>2. ASSUME NEW k \in InFlight, m.born = k.born, m.pos = k.pos
        PROVE  m.born <= born' /\ (m.born = born' => m.pos < conn'.sent_until)
    <3>1. k \in Internal /\ k.born <= born /\ (k.born = born => k.pos < conn.sent_until)
      BY InFlightType DEF Numbered
    <3>2. k.born \in Nat /\ k.pos \in Nat
      BY <3>1, InternalFacts
    <3>. QED  BY <1>t, <1>1, <2>2, <3>1, <3>2
  <2>3. ASSUME NEW k \in InFlight, m = [k EXCEPT !.sends = TRUE]
        PROVE  m.born = k.born /\ m.pos = k.pos
    BY <2>3, InFlightType DEF Internal
  <2>4. CASE m = pending' /\ pending' # pending
    <3>1. m # Nothing
      BY <2>1, InternalFacts
    <3>2. ~ HandleConnect
      BY <2>4 DEF HandleConnect
    <3>3. PICK c : Continues(c)
      BY <2>4, <3>1, <3>2, ConnectionStep
    <3>4. /\ m.born = born /\ m.pos = conn.sent_until /\ conn.sent_until < conn'.sent_until
          /\ born' = born
      BY <2>4, <3>3, ContinuesFacts DEF Continues
    <3>. QED  BY <1>t, <3>4
  <2>. QED  BY <2>1, <2>2, <2>3, <2>4 DEF Comes
<1>. QED  BY <1>2 DEF Numbered

(* A chunk of a session is known by its position. *)
SameChunk(m, k) == m.born = k.born /\ m.pos = k.pos

(* No two messages in flight, of sleeping tasks T, in channel s and p,     *)
(* which waits to be sent, are of the same chunk.                          *)
AreApart(T, s, p) ==
  /\ \A m, k \in T : SameChunk(m, k) => m = k
  /\ \A i, j \in 1..Len(s) :
       s[i].kind = "internal" /\ s[j].kind = "internal" /\ SameChunk(s[i].msg, s[j].msg) => i = j
  /\ \A m \in T : \A i \in 1..Len(s) : s[i].kind = "internal" => ~SameChunk(m, s[i].msg)
  /\ p # Nothing => /\ \A m \in T : ~SameChunk(m, p)
                    /\ \A i \in 1..Len(s) : s[i].kind = "internal" => ~SameChunk(s[i].msg, p)

Apart == AreApart(timers, msg_recv, pending)

(* A message that comes from outside, or that one in flight, is appended.  *)
LEMMA ApartAppend ==
  ASSUME NEW T, NEW s \in Seq(Message), NEW p, AreApart(T, s, p), NEW x \in Message
  PROVE  /\ x.kind # "internal" => AreApart(T, Append(s, x), p)
         /\ x.kind = "internal" /\ x.msg = p /\ p # Nothing => AreApart(T, Append(s, x), Nothing)
         /\ x.kind = "internal" /\ x.msg \in T => AreApart(T \ {x.msg}, Append(s, x), p)
<1> DEFINE u == Append(s, x)
           n == Len(s)
<1>1. /\ n \in Nat /\ Len(u) = n + 1 /\ u[n + 1] = x /\ \A i \in 1..n : u[i] = s[i]
  OBVIOUS
<1>2. \A i \in 1..Len(u) : i \in 1..n \/ i = n + 1
  BY <1>1
<1> HIDE DEF u, n
<1>3. AreApart(T, s, p) <=>
        /\ \A m, k \in T : SameChunk(m, k) => m = k
        /\ \A i, j \in 1..n :
             s[i].kind = "internal" /\ s[j].kind = "internal" /\ SameChunk(s[i].msg, s[j].msg) => i = j
        /\ \A m \in T : \A i \in 1..n : s[i].kind = "internal" => ~SameChunk(m, s[i].msg)
        /\ p # Nothing => /\ \A m \in T : ~SameChunk(m, p)
                          /\ \A i \in 1..n : s[i].kind = "internal" => ~SameChunk(s[i].msg, p)
  BY DEF AreApart, n
<1>4. \A m, k : SameChunk(m, k) <=> SameChunk(k, m)
  BY DEF SameChunk
<1>5. x.kind # "internal" => AreApart(T, u, p)
  BY <1>1, <1>2, <1>3 DEF AreApart
<1>6. x.kind = "internal" /\ x.msg = p /\ p # Nothing => AreApart(T, u, Nothing)
  BY <1>1, <1>2, <1>3, <1>4 DEF AreApart
<1>7. x.kind = "internal" /\ x.msg \in T => AreApart(T \ {x.msg}, u, p)
  BY <1>1, <1>2, <1>3, <1>4 DEF AreApart
<1>. QED  BY <1>5, <1>6, <1>7 DEF u

(* The first message is taken, and one that is internal goes to sleep. *)
LEMMA ApartTail ==
  ASSUME NEW T, NEW s \in Seq(Message), s # << >>, AreApart(T, s, Nothing)
  PROVE  /\ AreApart(T, Tail(s), Nothing)
         /\ \A k : Head(s).kind = "internal" /\ SameChunk(k, Head(s).msg) =>
              k \notin T /\ AreApart(T \union {k}, Tail(s), Nothing)
<1> DEFINE u == Tail(s)
<1>1. /\ 1 \in 1..Len(s) /\ Head(s) = s[1] /\ Len(u) \in Nat
      /\ \A i \in 1..Len(u) : i + 1 \in 1..Len(s) /\ u[i] = s[i + 1] /\ i + 1 # 1
      /\ \A i, j \in 1..Len(u) : i + 1 = j + 1 => i = j
  <2>1. u \in Seq(Message)
    OBVIOUS
  <2>. QED  BY <2>1, TailFacts
<1> HIDE DEF u
<1>2. /\ \A i, j \in 1..Len(u) : u[i].kind = "internal" /\ u[j].kind = "internal"
                                 /\ SameChunk(u[i].msg, u[j].msg) => i = j
      /\ \A m \in T : \A i \in 1..Len(u) : u[i].kind = "internal" => ~SameChunk(m, u[i].msg)
      /\ \A m, k \in T : SameChunk(m, k) => m = k
  <2>1. ASSUME NEW i \in 1..Len(u), NEW j \in 1..Len(u), u[i].kind = "internal",
               u[j].kind = "internal", SameChunk(u[i].msg, u[j].msg)
        PROVE  i = j
    <3>1. /\ i + 1 \in 1..Len(s) /\ u[i] = s[i + 1] /\ j + 1 \in 1..Len(s) /\ u[j] = s[j + 1]
          /\ i + 1 = j + 1 => i = j
      BY <1>1
    <3>2. i + 1 = j + 1
      BY <2>1, <3>1 DEF AreApart
    <3>. QED  BY <3>1, <3>2
  <2>2. ASSUME NEW m \in T, NEW i \in 1..Len(u), u[i].kind = "internal"
        PROVE  ~SameChunk(m, u[i].msg)
    BY <1>1, <2>2 DEF AreApart
  <2>. QED  BY <2>1, <2>2 DEF AreApart
<1>3. AreApart(T, u, Nothing)
  BY <1>2 DEF AreApart
<1>4. ASSUME NEW k, Head(s).kind = "internal", SameChunk(k, Head(s).msg)
      PROVE  k \notin T /\ AreApart(T \union {k}, u, Nothing)
  <2>1. \A m \in T : ~SameChunk(m, k) /\ ~SameChunk(k, m)
    <3>1. \A m \in T : ~SameChunk(m, Head(s).msg)
      BY <1>1, <1>4 DEF AreApart
    <3>. QED  BY <1>4, <3>1 DEF SameChunk
  <2>2. \A i \in 1..Len(u) : u[i].kind = "internal" => ~SameChunk(k, u[i].msg)
    <3>1. \A i \in 1..Len(u) : u[i].kind = "internal" => ~SameChunk(Head(s).msg, u[i].msg)
      BY <1>1, <1>4 DEF AreApart
    <3>. QED  BY <1>4, <3>1 DEF SameChunk
  <2>3. SameChunk(k, k)
    BY DEF SameChunk
  <2>4. k \notin T
    BY <2>1, <2>3
  <2>5. AreApart(T \union {k}, u, Nothing)
    BY <1>2, <2>1, <2>2 DEF AreApart
  <2>. QED  BY <2>4, <2>5
<1>. QED  BY <1>3, <1>4 DEF u

(* The chunk that process_buffers sends is none of those in flight. *)
LEMMA ApartNew ==
  ASSUME TypeOK, Numbered, Apart, pending = Nothing, NEW k, Takes(k),
         NEW m, m.born = born, m.pos = conn.sent_until
  PROVE  AreApart(timers, msg_recv', m)
<1>1. AreApart(timers, msg_recv', Nothing)
  BY ApartTail DEF Apart, Takes, TypeOK
<1>2. ASSUME NEW n \in InFlight
      PROVE  ~SameChunk(n, m)
  <2>1. (n.born = born => n.pos < conn.sent_until) /\ n \in Internal /\ conn.sent_until \in Nat
    BY InFlightType DEF Numbered, TypeOK
  <2>2. n.pos \in Nat
    BY <2>1, InternalFacts
  <2>. QED  BY <2>1, <2>2 DEF SameChunk
<1>3. timers \subseteq InFlight
  BY InFlightWhere
<1>4. ASSUME NEW i \in 1..Len(msg_recv'), NEW x, x = msg_recv'[i], x.kind = "internal"
      PROVE  x.msg \in InFlight
  <2>1. x \in Message
    BY <1>4, TakesType, ElementOfSeq
  <2>2. x = InternalMessage(x.msg)
    BY <1>4, <2>1 DEF Message, InternalMessage
  <2>3. InChannel(x)'
    BY <1>4 DEF InChannel
  <2>4. InChannel(x)
    BY <2>3, ChannelTaken
  <2>. QED  BY <2>2, <2>4, InFlightWhere
<1>5. \A i \in 1..Len(msg_recv') : msg_recv'[i].kind = "internal" => ~SameChunk(msg_recv'[i].msg, m)
  BY <1>2, <1>4
<1>. QED  BY <1>1, <1>2, <1>3, <1>5 DEF AreApart

LEMMA ApartStep ==
  ASSUME TypeOK, Linked, Numbered, Apart, [Next]_vars
  PROVE  Apart'
<1>s. msg_recv \in Seq(Message)
  BY DEF TypeOK
<1>1. ASSUME UNCHANGED <<timers, pending, msg_recv>>
      PROVE  Apart'
  BY <1>1 DEF Apart
<1>2. CASE UNCHANGED vars
  BY <1>1, <1>2 DEF vars, serverVars
<1>3. CASE Open
  BY <1>1, <1>3 DEF Open
<1>4. CASE Arrives
  <2>1. PICK x : Arrive(x) /\ Sent(x)
    BY <1>4, Arrivals
  <2>. QED  BY <1>s, <2>1, ApartAppend DEF Apart, Arrive, Sent, serverVars
<1>5. ASSUME NEW p \in written, Receive(p) \/ Lose(p)
      PROVE  Apart'
  BY <1>1, <1>5 DEF Receive, Lose, serverVars
<1>6. CASE SelfSend
  <2> DEFINE x == InternalMessage(pending)
  <2>1. x \in Message /\ x.kind = "internal" /\ x.msg = pending /\ pending # Nothing
    BY <1>6 DEF SelfSend, TypeOK, InternalMessage, Message
  <2>2. msg_recv' = Append(msg_recv, x) /\ timers' = timers /\ pending' = Nothing
    BY <1>6 DEF SelfSend, InternalMessage
  <2> HIDE DEF x
  <2>. QED  BY <1>s, <2>1, <2>2, ApartAppend DEF Apart
<1>7. ASSUME NEW k, Takes(k), timers' = timers, pending' = pending
      PROVE  Apart'
  BY <1>s, <1>7, ApartTail DEF Apart, Takes
<1>8. HandleConnect => \E k : Takes(k) /\ timers' = timers /\ pending' = pending
  BY DEF HandleConnect
<1>9. HandleClosed => \E k : Takes(k) /\ timers' = timers /\ pending' = pending
  BY DEF HandleClosed
<1>10. HandleClose => \E k : Takes(k) /\ timers' = timers /\ pending' = pending
  BY DEF HandleClose, Close
<1>11. CASE HandleData \/ HandleAck
  <2>1. PICK k : Takes(k) /\ timers' = timers
    BY <1>11 DEF HandleData, HandleAck, Close
  <2>2. pending = Nothing
    BY <2>1 DEF Takes
  <2>3. CASE pending' # pending /\ pending' # Nothing
    <3>1. ~HandleConnect
      BY <2>3 DEF HandleConnect
    <3>2. PICK c : Continues(c)
      BY <2>3, <3>1, ConnectionStep
    <3>3. pending'.born = born /\ pending'.pos = conn.sent_until
      BY <2>3, <3>2, ContinuesFacts
    <3>. QED  BY <2>1, <2>2, <3>3, ApartNew DEF Apart
  <2>. QED  BY <1>7, <2>1, <2>2, <2>3
<1>12. CASE HandleInternal
  <2> DEFINE n == Head(msg_recv).msg
  <2>1. /\ Takes("internal") /\ pending' = pending
        /\ timers' = timers \/ timers' = timers \union {[n EXCEPT !.sends = TRUE]}
    BY <1>12 DEF HandleInternal, Expire, serverVars
  <2>2. /\ Head(msg_recv) \in Message /\ Head(msg_recv).kind = "internal" /\ pending = Nothing
        /\ msg_recv # << >> /\ msg_recv' = Tail(msg_recv)
    BY <2>1, TakesType DEF Takes
  <2>3. SameChunk([n EXCEPT !.sends = TRUE], n)
    BY <2>2, MessageFacts DEF SameChunk, Internal
  <2>4. AreApart(timers \union {[n EXCEPT !.sends = TRUE]}, Tail(msg_recv), Nothing)
    BY <1>s, <2>2, <2>3, ApartTail DEF Apart
  <2>. QED  BY <1>7, <2>1, <2>2, <2>4 DEF Apart
<1>13. ASSUME NEW m \in timers, WakeUp(m)
       PROVE  Apart'
  <2> DEFINE x == InternalMessage(m)
  <2>1. x \in Message /\ x.kind = "internal" /\ x.msg = m
    BY DEF TypeOK, InternalMessage, Message
  <2>2. msg_recv' = Append(msg_recv, x) /\ timers' = timers \ {m} /\ pending' = pending
    BY <1>13 DEF WakeUp, InternalMessage
  <2> HIDE DEF x
  <2>. QED  BY <1>s, <2>1, <2>2, ApartAppend DEF Apart
<1>. QED
  BY <1>2, <1>3, <1>4, <1>5, <1>6, <1>7, <1>8, <1>9, <1>10, <1>11, <1>12, <1>13 DEF Next, Arrives

-----------------------------------------------------------------------------
(* How many messages there are. *)

Count(s, kind) == Cardinality({i \in 1..Len(s) : s[i].kind = kind})

LEMMA CountAppend ==
  ASSUME NEW s \in Seq(Message), NEW x \in Message, NEW kind
  PROVE  /\ Count(s, kind) \in Nat
         /\ Count(Append(s, x), kind) = Count(s, kind) + (IF x.kind = kind THEN 1 ELSE 0)
<1> DEFINE u == Append(s, x)
           n == Len(s)
           P == {i \in 1..n : s[i].kind = kind}
           Q == {i \in 1..Len(u) : u[i].kind = kind}
<1>1. /\ n \in Nat /\ Len(u) = n + 1 /\ u[n + 1] = x /\ \A i \in 1..n : u[i] = s[i]
  OBVIOUS
<1> HIDE DEF u, n
<1>2. /\ n + 1 \in 1..(n + 1) /\ n + 1 \notin 1..n
      /\ \A i \in 1..(n + 1) : i \in 1..n \/ i = n + 1
      /\ \A i \in 1..n : i \in 1..(n + 1)
  BY <1>1
<1>3. Q = IF x.kind = kind THEN P \union {n + 1} ELSE P
  BY <1>1, <1>2
<1>4. IsFiniteSet(P) /\ n + 1 \notin P /\ Cardinality(P) \in Nat
  <2>1. IsFiniteSet(1..n) /\ P \in SUBSET (1..n)
    BY <1>1, FS_Interval
  <2>2. IsFiniteSet(P)
    BY <2>1, FS_Subset
  <2>. QED  BY <1>2, <2>2, FS_CardinalityType
<1> HIDE DEF P, Q
<1>5. Cardinality(Q) = Cardinality(P) + (IF x.kind = kind THEN 1 ELSE 0)
  <2>1. Cardinality(P \union {n + 1}) = Cardinality(P) + 1
    BY <1>4, FS_AddElement
  <2>. QED  BY <1>3, <1>4, <2>1
<1>. QED  BY <1>4, <1>5 DEF Count, P, Q, u, n

LEMMA CountTail ==
  ASSUME NEW s \in Seq(Message), s # << >>, NEW kind
  PROVE  /\ Count(s, kind) \in Nat /\ Count(Tail(s), kind) \in Nat
         /\ Count(s, kind) = Count(Tail(s), kind) + (IF Head(s).kind = kind THEN 1 ELSE 0)
<1> DEFINE u == Tail(s)
           P == {i \in 1..Len(s) : s[i].kind = kind}
           Q == {i \in 1..Len(u) : u[i].kind = kind}
           R == P \ {1}
           f == [i \in Q |-> i + 1]
<1>1. /\ Len(s) \in Nat /\ 1 \in 1..Len(s) /\ Head(s) = s[1] /\ Len(u) = Len(s) - 1
      /\ \A i \in 1..Len(u) : i + 1 \in 1..Len(s) /\ u[i] = s[i + 1]
      /\ \A i \in 1..Len(s) : i = 1 \/ (i - 1 \in 1..Len(u) /\ u[i - 1] = s[i])
  BY TailFacts
<1> HIDE DEF u
<1>2. /\ \A i \in Q : i + 1 \in R
      /\ \A i \in R : i - 1 \in Q /\ (i - 1) + 1 = i
      /\ \A i, j \in Q : i + 1 = j + 1 => i = j
  BY <1>1
<1>3. IsFiniteSet(P) /\ IsFiniteSet(Q)
  <2>1. Len(s) \in Int /\ Len(u) \in Int
    BY <1>1
  <2>2. IsFiniteSet(1..Len(s)) /\ IsFiniteSet(1..Len(u))
    BY <2>1, FS_Interval
  <2>3. P \in SUBSET (1..Len(s)) /\ Q \in SUBSET (1..Len(u))
    OBVIOUS
  <2> HIDE DEF P, Q
  <2>. QED  BY <2>2, <2>3, FS_Subset
<1>4. 1 \in P <=> Head(s).kind = kind
  BY <1>1
<1> HIDE DEF P, Q, R
<1>5. f \in Bijection(Q, R)
  <2>1. f \in [Q -> R]
    BY <1>2
  <2>2. \A i, j \in Q : f[i] = f[j] => i = j
    BY <1>2
  <2>3. \A r \in R : \E i \in Q : f[i] = r
    BY <1>2
  <2>. QED  BY <2>1, <2>2, <2>3 DEF Bijection, Injection, Surjection, IsInjective
<1>6. Cardinality(R) = Cardinality(Q)
  BY <1>3, <1>5, FS_Bijection DEF ExistsBijection
<1>7. Cardinality(R) = IF 1 \in P THEN Cardinality(P) - 1 ELSE Cardinality(P)
  BY <1>3, FS_RemoveElement DEF R
<1>8. Cardinality(P) \in Nat /\ Cardinality(Q) \in Nat
  BY <1>3, FS_CardinalityType
<1>9. Cardinality(P) = Cardinality(Q) + (IF Head(s).kind = kind THEN 1 ELSE 0)
  BY <1>4, <1>6, <1>7, <1>8
<1>. QED  BY <1>8, <1>9 DEF Count, P, Q, u

(* What a step does to the channel, and to the number of connect packets.  *)
LEMMA ChannelMoves ==
  ASSUME TypeOK, [Next]_vars
  PROVE  \/ msg_recv' = msg_recv /\ connects' = connects
         \/ \E x \in Message : msg_recv' = Append(msg_recv, x) /\ Counted(x)
         \/ \E k : Takes(k)
<1>c. connects \in Nat /\ \A m : InternalMessage(m).kind = "internal"
  BY BoundsAssumption DEF TypeOK, InternalMessage
<1>1. UNCHANGED vars \/ Open => msg_recv' = msg_recv /\ connects' = connects
  BY DEF vars, peerVars, Open
<1>2. \A p : Receive(p) \/ Lose(p) => msg_recv' = msg_recv /\ connects' = connects
  BY DEF Receive, Lose, peerVars
<1>3. CASE Arrives
  BY <1>3, Arrivals DEF Arrive, Sent
<1>4. ASSUME NEW m \in Internal, msg_recv' = Append(msg_recv, InternalMessage(m)), connects' = connects
      PROVE  \E x \in Message : msg_recv' = Append(msg_recv, x) /\ Counted(x)
  <2>1. InternalMessage(m) \in Message
    BY DEF InternalMessage, Message
  <2>. QED  BY <1>c, <1>4, <2>1 DEF Counted
<1>5. SelfSend => /\ pending \in Internal /\ connects' = connects
                  /\ msg_recv' = Append(msg_recv, InternalMessage(pending))
  BY DEF SelfSend, InternalMessage, TypeOK, peerVars
<1>6. \A m \in timers : WakeUp(m) => /\ m \in Internal /\ connects' = connects
                                     /\ msg_recv' = Append(msg_recv, InternalMessage(m))
  BY DEF WakeUp, InternalMessage, TypeOK, peerVars
<1>7. Handle => \E k : Takes(k)
  BY DEF Handle, HandleConnect, HandleClosed, HandleData, HandleAck, HandleClose, HandleInternal
<1>. QED
  BY <1>1, <1>2, <1>3, <1>4, <1>5, <1>6, <1>7 DEF Next, Arrives, Handle

(* A connection is opened by a connect packet. *)
Opened == born + Count(msg_recv, "connect") <= connects

LEMMA OpenedStep ==
  ASSUME TypeOK, Linked, Opened, [Next]_vars
  PROVE  Opened'
<1> DEFINE n == Count(msg_recv, "connect")
           n1 == Count(msg_recv', "connect")
<1>1. msg_recv \in Seq(Message) /\ born \in Nat /\ connects \in Nat /\ born + n <= connects
  BY BoundsAssumption DEF TypeOK, Opened
<1>2. CASE HandleConnect
  <2>1. /\ msg_recv # << >> /\ Head(msg_recv).kind = "connect" /\ msg_recv' = Tail(msg_recv)
        /\ connects' = connects /\ (born' = born \/ born' = born + 1)
    BY <1>2 DEF HandleConnect, Takes, peerVars
  <2>2. n \in Nat /\ n1 \in Nat /\ n = n1 + 1
    BY <1>1, <2>1, CountTail
  <2> HIDE DEF n, n1
  <2>3. born' + n1 <= connects'
    BY <1>1, <2>1, <2>2
  <2>. QED  BY <2>3 DEF Opened, n1
<1>3. CASE ~HandleConnect
  <2>1. born' = born
    BY <1>3, ConnectionStep DEF Continues
  <2>2. CASE msg_recv' = msg_recv /\ connects' = connects
    BY <2>1, <2>2 DEF Opened
  <2>3. ASSUME NEW x \in Message, msg_recv' = Append(msg_recv, x), Counted(x)
        PROVE  Opened'
    <3>1. n \in Nat /\ n1 = n + (IF x.kind = "connect" THEN 1 ELSE 0)
      BY <1>1, <2>3, CountAppend
    <3> HIDE DEF n, n1
    <3>2. born' + n1 <= connects'
      BY <1>1, <2>1, <2>3, <3>1 DEF Counted
    <3>. QED  BY <3>2 DEF Opened, n1
  <2>4. ASSUME NEW k, Takes(k)
        PROVE  Opened'
    <3>1. msg_recv # << >> /\ msg_recv' = Tail(msg_recv) /\ connects' = connects
      BY <2>4 DEF Takes, peerVars
    <3>2. n \in Nat /\ n1 \in Nat /\ n1 <= n
      BY <1>1, <3>1, CountTail
    <3> HIDE DEF n, n1
    <3>3. born' + n1 <= connects'
      BY <1>1, <2>1, <3>1, <3>2
    <3>. QED  BY <3>3 DEF Opened, n1
  <2>. QED  BY <2>2, <2>3, <2>4, ChannelMoves
<1>. QED  BY <1>2, <1>3

(* The internal messages in flight. *)
Waiting(p) == IF p = Nothing THEN 0 ELSE 1
Flying == Cardinality(timers) + Count(msg_recv, "internal") + Waiting(pending)

(* Only process_buffers adds one to them. *)
LEMMA FlyingStep ==
  ASSUME TypeOK, IsFiniteSet(timers), [Next]_vars
  PROVE  /\ IsFiniteSet(timers') /\ Flying \in Nat /\ Flying' \in Nat
         /\ Flying' <= Flying + 1
         /\ pending' = pending \/ pending' = Nothing => Flying' <= Flying
<1> DEFINE n == Count(msg_recv, "internal")
           n1 == Count(msg_recv', "internal")
           t == Cardinality(timers)
           t1 == Cardinality(timers')
<1>s. /\ msg_recv \in Seq(Message) /\ Waiting(pending) \in 0..1 /\ Waiting(pending') \in 0..1
      /\ t \in Nat /\ Waiting(Nothing) = 0
  BY FS_CardinalityType DEF TypeOK, Waiting
<1>f. Flying = t + n + Waiting(pending) /\ Flying' = t1 + n1 + Waiting(pending')
  BY DEF Flying
<1>n. n \in Nat
  <2>1. [kind |-> "connect"] \in Message
    BY DEF Message
  <2>. QED  BY <1>s, <2>1, CountAppend
<1> HIDE DEF n, n1, t, t1
<1>1. ASSUME IsFiniteSet(timers'), n1 \in Nat, t1 \in Nat,
             t1 + n1 + Waiting(pending') <= t + n + Waiting(pending) + 1,
             pending' = pending \/ pending' = Nothing =>
               t1 + n1 + Waiting(pending') <= t + n + Waiting(pending)
      PROVE  /\ IsFiniteSet(timers') /\ Flying \in Nat /\ Flying' \in Nat
             /\ Flying' <= Flying + 1
             /\ pending' = pending \/ pending' = Nothing => Flying' <= Flying
  BY <1>s, <1>f, <1>n, <1>1
<1>2. ASSUME timers' = timers, n1 \in Nat, n1 <= n, pending' = pending \/ pending = Nothing
      PROVE  /\ IsFiniteSet(timers') /\ n1 \in Nat /\ t1 \in Nat
             /\ t1 + n1 + Waiting(pending') <= t + n + Waiting(pending) + 1
             /\ pending' = pending \/ pending' = Nothing =>
                  t1 + n1 + Waiting(pending') <= t + n + Waiting(pending)
  <2>1. t1 = t
    BY <1>2 DEF t, t1
  <2>. QED  BY <1>s, <1>n, <1>2, <2>1
<1>3. UNCHANGED vars \/ Open => UNCHANGED <<timers, msg_recv, pending>>
  BY DEF vars, serverVars, Open
<1>4. \A p : Receive(p) \/ Lose(p) => UNCHANGED <<timers, msg_recv, pending>>
  BY DEF Receive, Lose, serverVars
<1>5. UNCHANGED <<timers, msg_recv, pending>> => n1 = n
  BY DEF n, n1
<1>6. Arrives => UNCHANGED <<timers, pending>> /\ n1 = n
  <2>1. SUFFICES ASSUME NEW x, Arrive(x), Sent(x)
                 PROVE  UNCHANGED <<timers, pending>> /\ n1 = n
    BY Arrivals
  <2>. QED  BY <1>s, <1>n, <2>1, CountAppend DEF Arrive, Sent, serverVars, n, n1
<1>7. ASSUME NEW m \in Internal, msg_recv' = Append(msg_recv, InternalMessage(m))
      PROVE  n1 = n + 1
  <2>1. InternalMessage(m) \in Message /\ InternalMessage(m).kind = "internal"
    BY DEF InternalMessage, Message
  <2>. QED  BY <1>s, <1>7, <2>1, CountAppend DEF n, n1
<1>8. CASE SelfSend
  <2>1. /\ pending \in Internal /\ msg_recv' = Append(msg_recv, InternalMessage(pending))
        /\ timers' = timers /\ pending' = Nothing /\ pending # Nothing
    BY <1>8 DEF SelfSend, InternalMessage, TypeOK
  <2>2. t1 = t /\ n1 = n + 1 /\ Waiting(pending) = 1 /\ Waiting(pending') = 0
    BY <1>7, <2>1 DEF t, t1, Waiting
  <2>. QED  BY <1>1, <1>s, <1>n, <2>1, <2>2
<1>9. ASSUME NEW m \in timers, WakeUp(m)
      PROVE  /\ IsFiniteSet(timers') /\ n1 \in Nat /\ t1 \in Nat
             /\ t1 + n1 + Waiting(pending') = t + n + Waiting(pending)
  <2>1. /\ m \in Internal /\ msg_recv' = Append(msg_recv, InternalMessage(m))
        /\ timers' = timers \ {m} /\ pending' = pending
    BY <1>9 DEF WakeUp, InternalMessage, TypeOK
  <2>2. n1 = n + 1
    BY <1>7, <2>1
  <2>3. IsFiniteSet(timers') /\ t1 = t - 1 /\ t1 \in Nat
    BY <2>1, FS_RemoveElement, FS_CardinalityType DEF t, t1
  <2>. QED  BY <1>s, <1>n, <2>1, <2>2, <2>3
<1>10. ASSUME NEW k, Takes(k)
       PROVE  n1 \in Nat /\ n = n1 + (IF k = "internal" THEN 1 ELSE 0) /\ pending = Nothing
  BY <1>s, <1>10, CountTail DEF Takes, n, n1
<1>11. CASE Handle /\ ~HandleInternal
  <2>1. PICK k : Takes(k) /\ timers' = timers
    BY <1>11 DEF Handle, HandleConnect, HandleClosed, HandleData, HandleAck, HandleClose, Close
  <2>2. n1 \in Nat /\ n1 <= n
    BY <1>10, <2>1
  <2>. QED  BY <1>1, <1>2, <1>10, <2>1, <2>2
<1>12. CASE HandleInternal
  <2> DEFINE m == [Head(msg_recv).msg EXCEPT !.sends = TRUE]
  <2>1. /\ Takes("internal") /\ pending' = pending
        /\ timers' = timers \/ timers' = timers \union {m}
    BY <1>12 DEF HandleInternal, Expire, serverVars
  <2> HIDE DEF m
  <2>2. n1 \in Nat /\ n = n1 + 1
    BY <1>10, <2>1
  <2>3. IsFiniteSet(timers') /\ t1 \in Nat /\ t1 <= t + 1
    <3>1. /\ IsFiniteSet(timers \union {m})
          /\ Cardinality(timers \union {m}) = t \/ Cardinality(timers \union {m}) = t + 1
      BY FS_AddElement DEF t
    <3>2. IsFiniteSet(timers') /\ (t1 = t \/ t1 = t + 1)
      BY <2>1, <3>1 DEF t, t1
    <3>. QED  BY <1>s, <3>2
  <2>. QED  BY <1>1, <1>s, <1>n, <2>1, <2>2, <2>3
<1>13. ASSUME UNCHANGED <<timers, pending>>, n1 = n
       PROVE  /\ IsFiniteSet(timers') /\ Flying \in Nat /\ Flying' \in Nat
              /\ Flying' <= Flying + 1
              /\ pending' = pending \/ pending' = Nothing => Flying' <= Flying
  BY <1>1, <1>2, <1>n, <1>13
<1>14. ASSUME NEW m \in timers, WakeUp(m)
       PROVE  /\ IsFiniteSet(timers') /\ Flying \in Nat /\ Flying' \in Nat
              /\ Flying' <= Flying + 1
              /\ pending' = pending \/ pending' = Nothing => Flying' <= Flying
  BY <1>1, <1>9, <1>14, <1>s, <1>n
<1>. QED
  BY <1>3, <1>4, <1>5, <1>6, <1>8, <1>11, <1>12, <1>13, <1>14 DEF Next, Arrives, Handle

(* Every session before this one has sent no more chunks than the longest  *)
(* text has characters, and this one as many as sent_until says at most.   *)
Budget == IF born = 0 THEN 0 ELSE (born - 1) * Longest + conn.sent_until

Afforded == IsFiniteSet(timers) /\ (born = 0 => state = "closed") /\ Flying <= Budget

LEMMA Products ==
  \A b, c, l \in Nat : /\ b * l \in Nat
                       /\ b # 0 => b - 1 \in Nat /\ (b - 1) * l \in Nat /\ b * l = (b - 1) * l + l
                       /\ b <= c => b * l <= c * l
OBVIOUS

LEMMA SentWithin ==
  ASSUME TypeOK, Limited
  PROVE  conn.sent_until \in Nat /\ conn.sent_until <= Longest
<1>1. /\ conn.sent_until \in Nat /\ conn.consumed_until \in Nat /\ Len(conn.buffered) \in Nat
      /\ recv_until(conn) = Len(conn.buffered) + conn.consumed_until
  BY ConnectionFacts DEF TypeOK, Connection
<1>2. recv_until(conn) <= Longest /\ conn.sent_until <= conn.consumed_until
  BY DEF Limited, Within
<1>. QED  BY <1>1, <1>2, LongestFacts

LEMMA AffordedStep ==
  ASSUME TypeOK, TypeOK', Linked, Limited, Afforded, [Next]_vars
  PROVE  Afforded'
<1>1. /\ IsFiniteSet(timers') /\ Flying \in Nat /\ Flying' \in Nat
      /\ Flying' <= Flying + 1
      /\ pending' = pending \/ pending' = Nothing => Flying' <= Flying
  BY FlyingStep DEF Afforded
<1>2. /\ born \in Nat /\ Longest \in Nat /\ conn.sent_until \in Nat /\ conn.sent_until <= Longest
      /\ conn'.sent_until \in Nat
  BY SentWithin, LongestFacts DEF TypeOK
<1>3. Flying <= Budget /\ (born = 0 => state = "closed")
  BY DEF Afforded
<1>4. CASE conn' = conn /\ born' = born /\ (state' = state \/ state' = "closed") /\ pending' \in {pending, Nothing}
  <2>1. Budget' = Budget /\ Budget \in Nat
    BY <1>2, <1>4, Products DEF Budget
  <2>2. Flying' <= Budget'
    BY <1>1, <1>3, <1>4, <2>1
  <2>. QED  BY <1>1, <1>3, <1>4, <2>2 DEF Afforded
<1>5. CASE HandleConnect /\ state = "closed"
  <2>1. conn' = Fresh /\ born' = born + 1 /\ pending' = pending
    BY <1>5 DEF HandleConnect
  <2>2. Budget' = born * Longest
    BY <1>2, <2>1, FreshFacts, Products DEF Budget
  <2>3. Budget \in Nat /\ Budget <= born * Longest /\ born * Longest \in Nat
    BY <1>2, Products DEF Budget
  <2>4. Flying' <= Budget' /\ born' # 0
    BY <1>1, <1>2, <1>3, <2>1, <2>2, <2>3
  <2>. QED  BY <1>1, <2>4 DEF Afforded
<1>6. ASSUME NEW c, Continues(c)
      PROVE  Afforded'
  <2>1. /\ born' = born /\ state = "active" /\ born # 0 /\ conn.sent_until <= conn'.sent_until
        /\ pending' = pending \/ conn.sent_until < conn'.sent_until
    BY <1>3, <1>6, ContinuesFacts DEF Continues
  <2>2. /\ (born - 1) * Longest \in Nat
        /\ Budget = (born - 1) * Longest + conn.sent_until
        /\ Budget' = (born - 1) * Longest + conn'.sent_until
    BY <1>2, <2>1, Products DEF Budget, Longest
  <2>3. Flying' <= Budget'
    BY <1>1, <1>2, <1>3, <2>1, <2>2
  <2>. QED  BY <1>1, <2>1, <2>3 DEF Afforded
<1>. QED  BY <1>4, <1>5, <1>6, ConnectionStep

-----------------------------------------------------------------------------
(* The theorems. *)

(* No chunk that was sent is empty, in flight or on its way to the peer.   *)
Filled == (\A m \in InFlight : m.data # << >>) /\ (\A p \in written : p.data # << >>)

LEMMA FilledStep ==
  ASSUME TypeOK, TypeOK', Linked, Filled, [Next]_vars
  PROVE  Filled'
<1>1. ASSUME NEW m \in InFlight'
      PROVE  m.data # << >>
  <2>1. m \in Internal /\ Comes(m)
    BY InFlightTypeNext, FlightStep DEF FlightKept
  <2>2. CASE m \in InFlight
    BY <2>2 DEF Filled
  <2>3. ASSUME NEW k \in InFlight, m = [k EXCEPT !.sends = TRUE]
        PROVE  m.data # << >>
    <3>1. k \in Internal /\ k.data # << >>
      BY InFlightType DEF Filled
    <3>2. m.data = k.data
      BY <2>3, <3>1 DEF Internal
    <3>. QED  BY <3>1, <3>2
  <2>4. CASE m = pending' /\ pending' # pending
    <3>1. m # Nothing
      BY <2>1, InternalFacts
    <3>2. ~ HandleConnect
      BY <2>4 DEF HandleConnect
    <3>3. PICK c : Continues(c)
      BY <2>4, <3>1, <3>2, ConnectionStep
    <3>4. c \in Connection /\ Chain(c.send_buffered, c.sent_until) /\ process_buffers(c)
      BY <3>3 DEF Continues, Linked
    <3>5. PICK chunk : Sends(c, chunk)
      BY <2>4, <3>4, ProcessFacts
    <3>. QED  BY <2>4, <3>5 DEF Sends
  <2>. QED  BY <2>1, <2>2, <2>3, <2>4 DEF Comes
<1>2. ASSUME NEW p \in written'
      PROVE  p.data # << >>
  <2>1. CASE p \in written
    BY <2>1 DEF Filled
  <2>2. ASSUME NEW m \in InFlight, p = [pos |-> m.pos, data |-> m.data]
        PROVE  p.data # << >>
    BY <2>2 DEF Filled
  <2>. QED  BY <2>1, <2>2, WrittenStep
<1>. QED  BY <1>1, <1>2 DEF Filled

Inv == TypeOK /\ Linked /\ NoStall /\ Covered /\ SentBehind

LEMMA InitType == Init => TypeOK
<1>1. ASSUME Init
      PROVE  TypeOK
  <2>1. Fresh \in [sent_ack_until : Nat, sent_until : Nat, consumed_until : Nat,
                    buffered : Seq(Char), send_buffered : Seq(Packet)]
    BY FreshFacts DEF Connection
  <2>2. << >> \in Seq(Message) /\ Len(<< >>) <= Capacity /\ << >> \in Seq(Char) /\ 0 \in 0..MaxConnects
    BY CapacityAssumption, BoundsAssumption
  <2>. QED  BY <1>1, <2>1, <2>2 DEF Init, TypeOK
<1>. QED  BY <1>1

LEMMA InitEmpty == Init => InFlight = {} /\ \A x : ~InChannel(x)
<1>1. ASSUME Init
      PROVE  InFlight = {} /\ \A x : ~InChannel(x)
  <2>1. timers = {} /\ pending = Nothing /\ msg_recv = << >> /\ TypeOK
    BY <1>1, InitType DEF Init
  <2>2. \A x : ~InChannel(x)
    BY <2>1 DEF InChannel
  <2>. QED  BY <2>1, <2>2, InFlightWhere
<1>. QED  BY <1>1

LEMMA InitInv == Init => Inv
<1>1. ASSUME Init
      PROVE  SentBehind
  <2>1. InFlight = {} /\ \A x : ~InChannel(x)
    BY <1>1, InitEmpty
  <2>2. written = {} /\ Len(got) = 0 /\ conn.sent_until = 0 /\ state = "closed"
    BY <1>1, FreshFacts DEF Init
  <2>. QED  BY <2>1, <2>2 DEF SentBehind
<1>. QED  BY <1>1, InitType DEF Inv, Init, Linked, NoStall, Covered

THEOREM Sound == Spec => []Inv
<1>1. Inv /\ [Next]_vars => Inv'
  BY TypeStep, LinkedStep, StallStep, CoveredStep, SentBehindStep DEF Inv
<1>. QED  BY <1>1, InitInv, PTL DEF Spec

(* Type correctness of a session and of its peer, and what is true of the  *)
(* chunks of answers: those that are left to send follow sent_until and    *)
(* one another without gap or overlap, and neither one of them, nor one in *)
(* flight, nor one written to the peer is empty.                           *)
THEOREM TypeCorrect == Spec => [](TypeOK /\ Linked /\ Filled)
<1>1. Init => Filled
  <2>1. ASSUME Init
        PROVE  InFlight = {} /\ written = {}
    BY <2>1, InitEmpty DEF Init
  <2>. QED  BY <2>1 DEF Filled
<1>2. Inv /\ Inv' /\ Filled /\ [Next]_vars => Filled'
  BY FilledStep DEF Inv
<1>3. Inv => TypeOK /\ Linked
  BY DEF Inv
<1>. QED  BY <1>1, <1>2, <1>3, Sound, PTL DEF Spec

(* A session never has a chunk or a complete line left over with nothing   *)
(* unacknowledged: process_buffers leaves no work without a chunk on its   *)
(* way, and an acknowledgement runs it again.                              *)
THEOREM NeverStalls == Spec => []NoStall
<1>1. Inv => NoStall
  BY DEF Inv
<1>. QED  BY <1>1, Sound, PTL

(* Whatever is unacknowledged will be written again: process_buffers,      *)
(* HandleInternal and the sleeping tasks hand the chunk on to one another, *)
(* and only an acknowledgement of all of it ends that.                     *)
THEOREM RetransmissionPromised == Spec => []RetransmitPromised
<1>1. Inv => RetransmitPromised
  <2>1. SUFFICES ASSUME Inv, state = "active", conn.sent_ack_until < conn.sent_until
                 PROVE  \E m \in InFlight : Carries(m)
    BY DEF RetransmitPromised
  <2>2. conn.sent_ack_until \in Nat /\ conn.sent_ack_until <= conn.sent_ack_until
    BY <2>1 DEF Inv, TypeOK
  <2>3. \E m \in InFlight : CarriesByte(m, conn.sent_ack_until)
    BY <2>1, <2>2 DEF Inv, Covered
  <2>. QED  BY <2>3 DEF CarriesByte, Carries
<1>. QED  BY <1>1, Sound, PTL

(* handle_ack never closes a session that was opened once for what its own *)
(* peer acknowledges: every acknowledgement on its way is behind           *)
(* sent_until, which only grows.                                           *)
THEOREM NoAckRefused == Spec => []AcksAccepted
<1>1. Inv => AcksAccepted
  <2>1. SUFFICES ASSUME Inv, state = "active", born = 1
                 PROVE  /\ Len(got) <= conn.sent_until
                        /\ \A i \in DOMAIN msg_recv :
                             msg_recv[i].kind = "ack" => msg_recv[i].length <= conn.sent_until
    BY DEF AcksAccepted
  <2>2. /\ Len(got) <= conn.sent_until
        /\ \A x : InChannel(x) /\ x.kind = "ack" => x.length <= conn.sent_until
    BY <2>1 DEF Inv, SentBehind
  <2>3. DOMAIN msg_recv = 1..Len(msg_recv)
    BY <2>1 DEF Inv, TypeOK
  <2>. QED  BY <2>2, <2>3 DEF InChannel
<1>. QED  BY <1>1, Sound, PTL

(* Of a peer that opens its session once, whatever is lost, repeated and   *)
(* reordered: what the server writes are pieces of the answers to its      *)
(* lines, each at its position, and its text is a prefix of them.  For one *)
(* that opens it again with another text this is false of the code.        *)
THEOREM AnswersArriveIntact ==
  ASSUME Epoch = {1}
  PROVE  Spec => []AnswersIntact
<1>1. Init => AnswersFollow
  <2>1. ASSUME Init
        PROVE  AnswersFollow
    <3>1. InFlight = {} /\ \A x : ~InChannel(x)
      BY <2>1, InitEmpty
    <3>2. written = {} /\ got = << >> /\ state = "closed"
      BY <2>1 DEF Init
    <3>. QED  BY <3>1, <3>2, TheirsOurs DEF AnswersFollow
  <2>. QED  BY <2>1
<1>2. Inv /\ Inv' /\ AnswersFollow /\ [Next]_vars => AnswersFollow'
  BY AnswersFollowStep DEF Inv
<1>3. Inv /\ AnswersFollow => AnswersIntact
  <2>1. SUFFICES ASSUME TypeOK, AnswersFollow, epoch > 0
                 PROVE  /\ IsPrefix(got, Ours)
                        /\ \A p \in written : /\ ack_until(p) <= Len(Ours)
                                              /\ p.data = SubSeq(Ours, p.pos + 1, ack_until(p))
    <3>1. TypeOK /\ epoch > 0 => epoch = 1
      BY DEF TypeOK
    <3>. QED  BY <3>1 DEF Inv, AnswersIntact, Ours, Theirs
  <2>2. /\ Len(got) <= Len(Ours) /\ \A i \in 1..Len(got) : got[i] = Ours[i]
        /\ \A p \in written : Intact(p)
    BY <2>1 DEF AnswersFollow
  <2>3. got \in Seq(Char) /\ Len(got) \in Nat /\ Ours \in Seq(Char) /\ Len(Ours) \in Nat
    BY <2>1, TheirsOurs DEF TypeOK
  <2>4. IsPrefix(got, Ours)
    <3>1. SubSeq(got, 1, Len(got)) = SubSeq(Ours, 1, Len(got))
      BY <2>2, <2>3, SameParts
    <3>. QED  BY <2>2, <3>1 DEF IsPrefix
  <2>5. ASSUME NEW p \in written
        PROVE  ack_until(p) <= Len(Ours) /\ p.data = SubSeq(Ours, p.pos + 1, ack_until(p))
    <3>1. p \in Packet
      BY <2>1 DEF TypeOK
    <3>2. /\ p.pos \in Nat /\ p.data \in Seq(Char) /\ Len(p.data) \in Nat
          /\ ack_until(p) = p.pos + Len(p.data)
      BY <3>1, PacketFacts
    <3>3. Intact(p)
      BY <2>2
    <3>. QED  BY <2>3, <3>2, <3>3, PartOfText DEF Intact
  <2>. QED  BY <2>4, <2>5
<1>. QED  BY <1>1, <1>2, <1>3, Sound, PTL DEF Spec

-----------------------------------------------------------------------------
(* What the main loop and the other sessions see of a session. *)

Alike(x) == IF x.kind = "internal" THEN "internal" ELSE "client"
Channel(s) == [i \in DOMAIN s |-> IF s[i].kind = "internal" THEN "internal" ELSE "client"]
Task(p) == IF p = Nothing THEN "receiving" ELSE "sending"

LEMMA OneSession ==
  ASSUME NEW a, NEW b
  PROVE  <<a>>[1] = a /\ [<<a>> EXCEPT ![1] = b] = <<b>>
OBVIOUS

LEMMA ChannelShape ==
  ASSUME NEW s \in Seq(Message)
  PROVE  /\ Channel(s) \in Seq({"client", "internal"}) /\ Len(Channel(s)) = Len(s) /\ Len(s) \in Nat
         /\ DOMAIN Channel(s) = 1..Len(s)
         /\ \A i \in 1..Len(s) : Channel(s)[i] = Alike(s[i])
<1>1. DOMAIN s = 1..Len(s) /\ Len(s) \in Nat
  OBVIOUS
<1>. QED  BY <1>1 DEF Channel, Alike

LEMMA ChannelFacts ==
  ASSUME NEW s \in Seq(Message)
  PROVE  /\ Channel(s) \in Seq({"client", "internal"}) /\ Len(Channel(s)) = Len(s) /\ Len(s) \in Nat
         /\ DOMAIN Channel(s) = 1..Len(s)
         /\ \A i \in 1..Len(s) : Channel(s)[i] = Alike(s[i])
         /\ s # << >> => Channel(s) # << >> /\ Head(Channel(s)) = Alike(Head(s))
                         /\ Channel(Tail(s)) = Tail(Channel(s))
         /\ \A x \in Message : Channel(Append(s, x)) = Append(Channel(s), Alike(x))
<1> DEFINE c == Channel(s)
<1>1. /\ c \in Seq({"client", "internal"}) /\ Len(c) = Len(s) /\ Len(s) \in Nat
      /\ DOMAIN c = 1..Len(s) /\ \A i \in 1..Len(s) : c[i] = Alike(s[i])
  BY ChannelShape
<1>2. ASSUME s # << >>
      PROVE  c # << >> /\ Head(c) = Alike(Head(s)) /\ Channel(Tail(s)) = Tail(c)
  <2>1. /\ 1 \in 1..Len(s) /\ Head(s) = s[1] /\ Len(Tail(s)) = Len(s) - 1 /\ Tail(s) \in Seq(Message)
        /\ \A i \in 1..Len(Tail(s)) : i + 1 \in 1..Len(s) /\ Tail(s)[i] = s[i + 1]
    BY <1>2, TailFacts
  <2>3. c # << >>
    BY <1>1, <2>1
  <2> HIDE DEF c
  <2>4. /\ Head(c) = c[1] /\ Len(Tail(c)) = Len(s) - 1 /\ Tail(c) \in Seq({"client", "internal"})
        /\ \A i \in 1..Len(Tail(c)) : Tail(c)[i] = c[i + 1]
    BY <1>1, <2>3, TailFacts
  <2>5. \A i \in 1..Len(Tail(s)) : Tail(c)[i] = Alike(Tail(s)[i])
    BY <1>1, <2>1, <2>4
  <2>6. /\ Channel(Tail(s)) \in Seq({"client", "internal"}) /\ Len(Channel(Tail(s))) = Len(Tail(s))
        /\ \A i \in 1..Len(Tail(s)) : Channel(Tail(s))[i] = Alike(Tail(s)[i])
    BY <2>1, ChannelShape
  <2>7. Channel(Tail(s)) = Tail(c)
    <3> DEFINE v == Channel(Tail(s))
               w == Tail(c)
               n == Len(Tail(s))
    <3>1. /\ v \in Seq({"client", "internal"}) /\ w \in Seq({"client", "internal"})
          /\ Len(v) = n /\ Len(w) = n /\ \A i \in 1..n : v[i] = w[i]
      BY <2>1, <2>4, <2>5, <2>6
    <3> HIDE DEF v, w, n
    <3>2. v = w
      BY <3>1, SeqEqual
    <3>. QED  BY <3>2 DEF v, w
  <2>. QED  BY <1>1, <2>1, <2>3, <2>4, <2>7
<1>3. ASSUME NEW x \in Message
      PROVE  Channel(Append(s, x)) = Append(c, Alike(x))
  <2> DEFINE u == Append(s, x)
             v == Append(c, Alike(x))
  <2>1. /\ u \in Seq(Message) /\ Len(u) = Len(s) + 1
        /\ u[Len(s) + 1] = x /\ \A i \in 1..Len(s) : u[i] = s[i]
    OBVIOUS
  <2>2. Alike(x) \in {"client", "internal"}
    BY DEF Alike
  <2> HIDE DEF c
  <2>3. /\ v \in Seq({"client", "internal"}) /\ Len(v) = Len(s) + 1
        /\ v[Len(s) + 1] = Alike(x) /\ \A i \in 1..Len(s) : v[i] = c[i]
    BY <1>1, <2>2
  <2>4. /\ Channel(u) \in Seq({"client", "internal"}) /\ Len(Channel(u)) = Len(u)
        /\ \A i \in 1..Len(u) : Channel(u)[i] = Alike(u[i])
    BY <2>1, ChannelShape
  <2> HIDE DEF u, v
  <2>5. \A i \in 1..(Len(s) + 1) : i \in 1..Len(s) \/ i = Len(s) + 1
    BY <1>1
  <2>6. \A i \in 1..Len(u) : Channel(u)[i] = v[i]
    BY <1>1, <2>1, <2>3, <2>4, <2>5
  <2>7. Channel(u) = v
    BY <2>1, <2>3, <2>4, <2>6, SeqEqual
  <2>. QED  BY <2>7 DEF u, v
<1>. QED  BY <1>1, <1>2, <1>3

(* The invariants that the steps of a session need to be the listener's. *)
SessionInv == Inv /\ Limited /\ Numbered /\ Apart /\ Opened /\ Afforded

LEMMA InitSession == Init => SessionInv
<1>1. SUFFICES ASSUME Init
               PROVE  SessionInv
  OBVIOUS
<1>2. Inv /\ InFlight = {} /\ \A x : ~InChannel(x)
  BY <1>1, InitInv, InitEmpty
<1>3. /\ timers = {} /\ pending = Nothing /\ msg_recv = << >> /\ born = 0 /\ state = "closed"
      /\ conn = Fresh /\ connects = 0
  BY <1>1 DEF Init
<1>4. \A kind : Count(msg_recv, kind) = 0
  <2>1. \A kind : {i \in 1..Len(<< >>) : << >>[i].kind = kind} = {}
    OBVIOUS
  <2>. QED  BY <1>3, <2>1, FS_EmptySet DEF Count
<1>5. Limited
  <2>1. recv_until(Fresh) = 0
    BY FreshFacts DEF recv_until
  <2>. QED  BY <1>2, <1>3, <2>1, FreshFacts, LongestFacts DEF Limited, Within, End
<1>6. Apart
  BY <1>3 DEF Apart, AreApart
<1>7. IsFiniteSet(timers) /\ Flying = 0
  BY <1>3, <1>4, FS_EmptySet DEF Flying, Waiting
<1>. QED  BY <1>2, <1>3, <1>4, <1>5, <1>6, <1>7 DEF SessionInv, Numbered, Opened, Afforded, Budget

LEMMA SessionInvStep == SessionInv /\ [Next]_vars => SessionInv'
<1>1. SUFFICES ASSUME SessionInv, [Next]_vars
               PROVE  SessionInv'
  OBVIOUS
<1>2. TypeOK /\ Linked /\ NoStall /\ Covered /\ SentBehind
  BY <1>1 DEF SessionInv, Inv
<1>3. TypeOK'
  BY <1>1, <1>2, TypeStep
<1>4. Inv'
  BY <1>1, <1>2, <1>3, LinkedStep, StallStep, CoveredStep, SentBehindStep DEF Inv
<1>. QED
  BY <1>1, <1>2, <1>3, <1>4, LimitedStep, NumberedStep, ApartStep, OpenedStep, AffordedStep
  DEF SessionInv

(* The bound on the internal messages leaves room for the one that         *)
(* process_buffers sends.                                                  *)
LEMMA RoomToOwe ==
  ASSUME SessionInv, SessionInv', NEW c, Continues(c), pending' # Nothing
  PROVE  Flying < MaxConnects * Longest
<1>1. /\ TypeOK /\ TypeOK' /\ Linked /\ Limited /\ Limited' /\ Afforded /\ Opened
  BY DEF SessionInv, Inv
<1>2. /\ born \in Nat /\ Longest \in Nat /\ MaxConnects \in Nat
      /\ conn.sent_until \in Nat /\ conn'.sent_until \in Nat
      /\ connects \in Nat /\ connects <= MaxConnects
  BY <1>1, LongestFacts, BoundsAssumption DEF TypeOK
<1>3. conn.sent_until < conn'.sent_until /\ state = "active"
  BY <1>1, ContinuesFacts DEF Continues
<1>4. conn'.sent_until <= Longest
  <2>1. recv_until(conn') <= Longest /\ conn'.sent_until <= conn'.consumed_until
    BY <1>1 DEF Limited, Within, recv_until, ack_until, Longest
  <2>2. /\ conn'.consumed_until \in Nat /\ Len(conn'.buffered) \in Nat
        /\ recv_until(conn') = Len(conn'.buffered) + conn'.consumed_until
    BY <1>1, ContinuesFacts, ConnectionFacts
  <2>. QED  BY <1>2, <2>1, <2>2
<1>5. born # 0 /\ Flying <= (born - 1) * Longest + conn.sent_until
  BY <1>1, <1>3 DEF Afforded, Budget
<1>6. born <= MaxConnects
  <2>1. Count(msg_recv, "connect") \in Nat
    <3>1. [kind |-> "connect"] \in Message /\ msg_recv \in Seq(Message)
      BY <1>1 DEF Message, TypeOK
    <3>. QED  BY <3>1, CountAppend
  <2>. QED  BY <1>1, <1>2, <2>1 DEF Opened
<1>7. Flying \in Nat
  <2>1. IsFiniteSet(timers)
    BY <1>1 DEF Afforded
  <2>2. Cardinality(timers) \in Nat
    BY <2>1, FS_CardinalityType
  <2>3. Count(msg_recv, "internal") \in Nat
    <3>1. [kind |-> "connect"] \in Message /\ msg_recv \in Seq(Message)
      BY <1>1 DEF Message, TypeOK
    <3>. QED  BY <3>1, CountAppend
  <2>. QED  BY <2>2, <2>3 DEF Flying, Waiting
<1>8. /\ (born - 1) * Longest \in Nat /\ born * Longest = (born - 1) * Longest + Longest
      /\ born * Longest <= MaxConnects * Longest /\ born * Longest \in Nat
      /\ MaxConnects * Longest \in Nat
  BY <1>2, <1>5, <1>6, Products
<1>. QED  BY <1>2, <1>3, <1>4, <1>5, <1>7, <1>8

(* The same operator, of the listener's instance of its library. *)
LEMMA SameCardinality == \A S : Listener!Cardinality(S) = Cardinality(S)
BY DEF Listener!Cardinality, Cardinality, Listener!IsFiniteSet, IsFiniteSet

(* What the listener calls the internal messages of the session. *)
LEMMA InternalsSame ==
  ASSUME TypeOK
  PROVE  Listener!Internals(1) = Flying
<1>1. msg_recv \in Seq(Message)
  BY DEF TypeOK
<1>2. /\ DOMAIN Channel(msg_recv) = 1..Len(msg_recv)
      /\ \A i \in 1..Len(msg_recv) : Channel(msg_recv)[i] = Alike(msg_recv[i])
  BY <1>1, ChannelFacts
<1>3. {i \in DOMAIN Channel(msg_recv) : Channel(msg_recv)[i] = "internal"}
        = {i \in 1..Len(msg_recv) : msg_recv[i].kind = "internal"}
  BY <1>2 DEF Alike
<1>4. Listener!InChannel(1) = Count(msg_recv, "internal")
  <2> DEFINE c == <<Channel(msg_recv)>>
  <2>1. Listener!InChannel(1) = Cardinality({i \in DOMAIN c[1] : c[1][i] = "internal"})
    BY SameCardinality DEF Listener!InChannel, Channel
  <2>2. c[1] = Channel(msg_recv)
    BY OneSession
  <2>. QED  BY <1>3, <2>1, <2>2 DEF Count
<1>. QED  BY <1>4 DEF Listener!Internals, Flying, Waiting

(* The listener's actions, in terms of the session's channel, task and     *)
(* sleeping tasks before and after.                                        *)
LEMMA ListenerArrive ==
  ASSUME Len(Channel(msg_recv)) < Capacity,
         Channel(msg_recv') = Append(Channel(msg_recv), "client"),
         UNCHANGED <<pending, timers>>
  PROVE  Listener!Arrive(1)
<1>1. <<Channel(msg_recv)>>[1] = Channel(msg_recv) /\ <<Task(pending)>>[1] = Task(pending)
  BY OneSession
<1>2. <<Channel(msg_recv')>> = [<<Channel(msg_recv)>> EXCEPT ![1] = Append(Channel(msg_recv), "client")]
  BY OneSession
<1>3. Task(pending) # "ended"
  BY DEF Task
<1>. QED
  BY <1>1, <1>2, <1>3 DEF Listener!Arrive, Listener!Room, Listener!Put, Channel, Task

LEMMA ListenerTakes ==
  ASSUME pending = Nothing, msg_recv \in Seq(Message), msg_recv # << >>
  PROVE  /\ Listener!Takes(1)
         /\ Alike(Head(msg_recv)) = Head(<<Channel(msg_recv)>>[1])
<1>1. <<Channel(msg_recv)>>[1] = Channel(msg_recv) /\ <<Task(pending)>>[1] = "receiving"
  BY OneSession DEF Task
<1>2. Channel(msg_recv) # << >> /\ Head(Channel(msg_recv)) = Alike(Head(msg_recv))
  BY ChannelFacts
<1>. QED  BY <1>1, <1>2 DEF Listener!Takes, Channel, Task

LEMMA ListenerTail ==
  ASSUME msg_recv \in Seq(Message), msg_recv # << >>, msg_recv' = Tail(msg_recv)
  PROVE  <<Channel(msg_recv')>> = [<<Channel(msg_recv)>> EXCEPT ![1] = Tail(<<Channel(msg_recv)>>[1])]
<1>1. Channel(msg_recv') = Tail(Channel(msg_recv))
  BY ChannelFacts
<1>2. <<Channel(msg_recv)>>[1] = Channel(msg_recv)
  BY OneSession
<1>. QED  BY <1>1, <1>2, OneSession

LEMMA ListenerAnswer ==
  ASSUME msg_recv \in Seq(Message), msg_recv # << >>, msg_recv' = Tail(msg_recv),
         pending = Nothing, UNCHANGED <<pending, timers>>
  PROVE  Listener!Handle(1)
<1>1. Listener!Answer(1)
  BY ListenerTail DEF Listener!Answer, Channel
<1>. QED  BY <1>1, ListenerTakes DEF Listener!Handle

LEMMA ListenerOwe ==
  ASSUME msg_recv \in Seq(Message), msg_recv # << >>, msg_recv' = Tail(msg_recv),
         TypeOK, Head(msg_recv).kind # "internal",
         pending = Nothing, pending' # Nothing, timers' = timers,
         Flying < MaxConnects * Longest
  PROVE  Listener!Handle(1)
<1>1. Head(<<Channel(msg_recv)>>[1]) = "client"
  BY ListenerTakes DEF Alike
<1>2. Listener!Internals(1) < MaxConnects * Longest
  BY InternalsSame
<1>3. <<Task(pending')>> = [<<Task(pending)>> EXCEPT ![1] = "sending"]
  BY OneSession DEF Task
<1>4. Listener!Owe(1)
  BY <1>1, <1>2, <1>3, ListenerTail DEF Listener!Owe, Channel, Task, Longest
<1>. QED  BY <1>4, ListenerTakes DEF Listener!Handle

LEMMA ListenerRepeat ==
  ASSUME msg_recv \in Seq(Message), msg_recv # << >>, msg_recv' = Tail(msg_recv),
         Head(msg_recv).kind = "internal", pending = Nothing, pending' = pending,
         Cardinality(timers') = Cardinality(timers) + 1
  PROVE  Listener!Handle(1)
<1>1. Head(<<Channel(msg_recv)>>[1]) = "internal"
  BY ListenerTakes DEF Alike
<1>2. <<Cardinality(timers')>> = [<<Cardinality(timers)>> EXCEPT ![1] = <<Cardinality(timers)>>[1] + 1]
  BY OneSession
<1>3. Listener!Repeat(1)
  BY <1>1, <1>2, ListenerTail DEF Listener!Repeat, Channel
<1>. QED  BY <1>3, ListenerTakes DEF Listener!Handle

LEMMA ListenerSelfSend ==
  ASSUME Len(Channel(msg_recv)) < Capacity,
         Channel(msg_recv') = Append(Channel(msg_recv), "internal"),
         pending # Nothing, pending' = Nothing, timers' = timers
  PROVE  Listener!SelfSend(1)
<1>1. <<Channel(msg_recv)>>[1] = Channel(msg_recv) /\ <<Task(pending)>>[1] = "sending"
  BY OneSession DEF Task
<1>2. <<Channel(msg_recv')>> = [<<Channel(msg_recv)>> EXCEPT ![1] = Append(Channel(msg_recv), "internal")]
  BY OneSession
<1>3. <<Task(pending')>> = [<<Task(pending)>> EXCEPT ![1] = "receiving"]
  BY OneSession DEF Task
<1>. QED
  BY <1>1, <1>2, <1>3 DEF Listener!SelfSend, Listener!Room, Listener!Put, Channel, Task

LEMMA ListenerWakeUp ==
  ASSUME Len(Channel(msg_recv)) < Capacity,
         Channel(msg_recv') = Append(Channel(msg_recv), "internal"),
         pending' = pending, Cardinality(timers) > 0,
         Cardinality(timers') = Cardinality(timers) - 1
  PROVE  Listener!WakeUp(1)
<1>1. /\ <<Channel(msg_recv)>>[1] = Channel(msg_recv) /\ <<Task(pending)>>[1] = Task(pending)
      /\ <<Cardinality(timers)>>[1] = Cardinality(timers)
  BY OneSession
<1>2. <<Channel(msg_recv')>> = [<<Channel(msg_recv)>> EXCEPT ![1] = Append(Channel(msg_recv), "internal")]
  BY OneSession
<1>3. <<Cardinality(timers')>> = [<<Cardinality(timers)>> EXCEPT ![1] = <<Cardinality(timers)>>[1] - 1]
  BY <1>1, OneSession
<1>4. Task(pending) # "ended"
  BY DEF Task
<1>. QED
  BY <1>1, <1>2, <1>3, <1>4 DEF Listener!WakeUp, Listener!Room, Listener!Put, Channel, Task

(* Every step of a session is one of the listener's, or none. *)
LEMMA SessionStep ==
  ASSUME SessionInv, SessionInv', [Next]_vars
  PROVE  Listener!Next \/ UNCHANGED Listener!listenerVars
<1>i. TypeOK /\ TypeOK' /\ Linked /\ Numbered /\ Apart /\ Afforded
  BY DEF SessionInv, Inv
<1>s. msg_recv \in Seq(Message) /\ Len(Channel(msg_recv)) = Len(msg_recv) /\ IsFiniteSet(timers)
  BY <1>i, ChannelFacts DEF TypeOK, Afforded
<1>n. Listener!Arrive(1) \/ Listener!Handle(1) \/ Listener!SelfSend(1) \/ Listener!WakeUp(1) => Listener!Next
  BY DEF Listener!Next
<1>1. UNCHANGED <<msg_recv, pending, timers>> => UNCHANGED Listener!listenerVars
  BY DEF Listener!listenerVars
<1>2. UNCHANGED vars \/ Open => UNCHANGED <<msg_recv, pending, timers>>
  BY DEF vars, serverVars, Open
<1>3. \A p : Receive(p) \/ Lose(p) => UNCHANGED <<msg_recv, pending, timers>>
  BY DEF Receive, Lose, serverVars
<1>4. CASE Arrives
  <2>1. PICK x : Arrive(x) /\ Sent(x)
    BY <1>i, <1>4, Arrivals
  <2>2. /\ x \in Message /\ Len(msg_recv) < Capacity /\ msg_recv' = Append(msg_recv, x)
        /\ UNCHANGED <<pending, timers>> /\ Alike(x) = "client"
    BY <2>1 DEF Arrive, Sent, serverVars, Alike
  <2>3. Channel(msg_recv') = Append(Channel(msg_recv), "client")
    BY <1>s, <2>2, ChannelFacts
  <2>. QED  BY <1>s, <1>n, <2>2, <2>3, ListenerArrive
<1>5. ASSUME NEW k, Takes(k), UNCHANGED <<pending, timers>>
      PROVE  Listener!Next
  BY <1>s, <1>n, <1>5, ListenerAnswer DEF Takes
<1>6. HandleConnect \/ HandleClosed \/ HandleClose => \E k : Takes(k) /\ UNCHANGED <<pending, timers>>
  BY DEF HandleConnect, HandleClosed, HandleClose, Close
<1>7. CASE HandleData \/ HandleAck
  <2>1. PICK k : Takes(k) /\ k # "internal" /\ timers' = timers
    BY <1>7 DEF HandleData, HandleAck, Close
  <2>2. /\ pending = Nothing /\ msg_recv # << >> /\ msg_recv' = Tail(msg_recv)
        /\ Head(msg_recv).kind # "internal"
    BY <2>1 DEF Takes
  <2>3. CASE pending' = Nothing
    BY <1>5, <2>1, <2>2, <2>3
  <2>4. CASE pending' # Nothing
    <3>1. ~HandleConnect
      BY <2>2, <2>4 DEF HandleConnect
    <3>2. PICK c : Continues(c)
      BY <1>i, <2>2, <2>4, <3>1, ConnectionStep
    <3>3. Flying < MaxConnects * Longest
      BY <2>4, <3>2, RoomToOwe
    <3>. QED  BY <1>i, <1>s, <1>n, <2>1, <2>2, <2>4, <3>3, ListenerOwe
  <2>. QED  BY <2>3, <2>4
<1>8. CASE HandleInternal
  <2> DEFINE n == Head(msg_recv).msg
             m == [n EXCEPT !.sends = TRUE]
  <2>1. /\ Takes("internal") /\ pending' = pending
        /\ timers' = timers \/ timers' = timers \union {m}
    BY <1>8 DEF HandleInternal, Expire, serverVars
  <2>2. /\ Head(msg_recv) \in Message /\ Head(msg_recv).kind = "internal" /\ pending = Nothing
        /\ msg_recv # << >> /\ msg_recv' = Tail(msg_recv)
    BY <1>i, <2>1, TakesType DEF Takes
  <2>3. CASE timers' = timers
    BY <1>5, <2>1, <2>3
  <2>4. CASE timers' = timers \union {m}
    <3>1. SameChunk(m, n)
      BY <2>2, MessageFacts DEF SameChunk, Internal
    <3>2. m \notin timers
      BY <1>i, <1>s, <2>2, <3>1, ApartTail DEF Apart
    <3> HIDE DEF m
    <3>3. Cardinality(timers \union {m}) = Cardinality(timers) + 1
      BY <1>s, <3>2, FS_AddElement
    <3>. QED  BY <1>s, <1>n, <2>1, <2>2, <2>4, <3>3, ListenerRepeat
  <2>. QED  BY <2>1, <2>3, <2>4
<1>9. ASSUME NEW m \in Internal, msg_recv' = Append(msg_recv, InternalMessage(m))
      PROVE  Channel(msg_recv') = Append(Channel(msg_recv), "internal")
  <2>1. InternalMessage(m) \in Message /\ Alike(InternalMessage(m)) = "internal"
    BY DEF InternalMessage, Message, Alike
  <2>. QED  BY <1>s, <1>9, <2>1, ChannelFacts
<1>10. CASE SelfSend
  <2>1. /\ pending \in Internal /\ msg_recv' = Append(msg_recv, InternalMessage(pending))
        /\ timers' = timers /\ pending' = Nothing /\ pending # Nothing /\ Len(msg_recv) < Capacity
    BY <1>i, <1>10 DEF SelfSend, InternalMessage, TypeOK
  <2>. QED  BY <1>s, <1>n, <1>9, <2>1, ListenerSelfSend
<1>11. ASSUME NEW m \in timers, WakeUp(m)
       PROVE  Listener!Next
  <2>1. /\ m \in Internal /\ msg_recv' = Append(msg_recv, InternalMessage(m))
        /\ timers' = timers \ {m} /\ pending' = pending /\ Len(msg_recv) < Capacity
    BY <1>i, <1>11 DEF WakeUp, InternalMessage, TypeOK
  <2>2. /\ Cardinality(timers) \in Nat /\ Cardinality(timers) # 0
        /\ Cardinality(timers \ {m}) = Cardinality(timers) - 1
    <3>1. Cardinality(timers) \in Nat /\ (Cardinality(timers) = 0 <=> timers = {})
      BY <1>s, FS_CardinalityType, FS_EmptySet
    <3>2. Cardinality(timers \ {m}) = Cardinality(timers) - 1
      BY <1>s, FS_RemoveElement
    <3>. QED  BY <3>1, <3>2
  <2>3. Cardinality(timers) > 0 /\ Cardinality(timers') = Cardinality(timers) - 1
    BY <2>1, <2>2
  <2>. QED  BY <1>s, <1>n, <1>9, <2>1, <2>3, ListenerWakeUp
<1>. QED
  BY <1>1, <1>2, <1>3, <1>4, <1>5, <1>6, <1>7, <1>8, <1>10, <1>11 DEF Next, Arrives

LEMMA InitListener == Init => Listener!Init
<1>1. SUFFICES ASSUME Init
               PROVE  Listener!Init
  OBVIOUS
<1>2. timers = {} /\ pending = Nothing /\ msg_recv = << >>
  BY <1>1 DEF Init
<1>3. Cardinality(timers) = 0 /\ Channel(msg_recv) = << >> /\ Task(pending) = "receiving"
  BY <1>2, FS_EmptySet DEF Channel, Task
<1>4. \A x : [s \in {1} |-> x] = <<x>>
  OBVIOUS
<1>. QED  BY <1>3, <1>4 DEF Listener!Init, Channel, Task

(* The session is what the main loop takes it for, whatever the packets    *)
(* say: it takes one message at a time, owes its channel one internal      *)
(* message at most, has a sleeping task for each that will come back, and  *)
(* never more of them than the bound of LineListener.                      *)
THEOREM SessionImplemented == Spec => ImplementsSession
<1>1. Init => SessionInv /\ Listener!Init
  BY InitSession, InitListener
<1>2. SessionInv /\ [Next]_vars => SessionInv'
  BY SessionInvStep
<1>3. SessionInv /\ SessionInv' /\ [Next]_vars => [Listener!Next]_(Listener!listenerVars)
  BY SessionStep
<1>. QED  BY <1>1, <1>2, <1>3, PTL DEF Spec, ImplementsSession, Listener!Spec

=============================================================================
