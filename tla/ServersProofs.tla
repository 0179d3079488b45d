---------------------------- MODULE ServersProofs ----------------------------
(***************************************************************************)
(* Proofs about the program: of the database and of prime time from their  *)
(* definitions; of version control, of the proxy and of the packets of     *)
(* LRCP from what is proved of each alone, since the server that is chosen *)
(* does what it does alone, and one that is not chosen does nothing.       *)
(***************************************************************************)
EXTENDS Servers, SequenceTheorems, WellFoundedInduction, TLAPS

-----------------------------------------------------------------------------
(* The database.                                                           *)

(* Sets of numbers have a least one.                                       *)
LEMMA LeastNumber ==
  ASSUME NEW numbers \in SUBSET Nat, numbers # {}
  PROVE  \E n \in numbers : \A m \in numbers : n <= m
<1> DEFINE R == OpToRel(<, Nat)
<1>1. \A m, n \in Nat : m < n => <<m, n>> \in R
  BY DEF OpToRel
<1>2. IsWellFoundedOn(R, Nat)
  BY NatLessThanWellFounded
<1> HIDE DEF R
<1>3. \E n \in numbers : \A m \in numbers : <<m, n>> \notin R
  BY <1>2, WFMin
<1>4. PICK n \in numbers : \A m \in numbers : <<m, n>> \notin R
  BY <1>3
<1>5. ASSUME NEW m \in numbers
      PROVE  n <= m
  <2>1. m \in Nat /\ n \in Nat /\ ~(m < n)
    BY <1>1, <1>4
  <2>. QED  BY <2>1
<1>. QED  BY <1>5

Character ==
  {Equals} \union UNION {D!Range(word) : word \in Packet \union {VERSION_KEY, VERSION_VAL}}
Text == Seq(Character)

LEMMA TextFacts ==
  /\ Packet \subseteq Text /\ VERSION_KEY \in Text /\ VERSION_VAL \in Text
  /\ <<Equals>> \in Text /\ ~D!Has(VERSION_KEY, Equals)
<1>1. \A word \in Packet \union {VERSION_KEY, VERSION_VAL} : word \in Seq(D!Range(word))
  BY DatabaseAssumption DEF D!DatabaseAssumption
<1>2. \A word \in Packet \union {VERSION_KEY, VERSION_VAL} : D!Range(word) \subseteq Character
  BY DEF Character
<1>3. \A word \in Packet \union {VERSION_KEY, VERSION_VAL} : word \in Text
  BY <1>1, <1>2, SeqMonotonic DEF Text
<1>4. <<Equals>> \in Text
  BY DEF Text, Character
<1>. QED  BY <1>3, <1>4, DatabaseAssumption DEF D!DatabaseAssumption, D!Has

LEMMA CutFacts ==
  ASSUME NEW packet \in Packet
  PROVE  D!Cut(packet) \in Text /\ Len(D!Cut(packet)) <= PacketLen
<1>1. packet \in Text /\ Len(packet) \in Nat /\ PacketLen \in Nat
  BY TextFacts, DatabaseAssumption DEF Text, D!DatabaseAssumption
<1>2. CASE Len(packet) <= PacketLen
  BY <1>1, <1>2 DEF D!Cut
<1>3. CASE Len(packet) > PacketLen
  <2>1. \A i \in 1..PacketLen : packet[i] \in Character
    BY <1>1, <1>3, ElementOfSeq DEF Text
  <2>2. SubSeq(packet, 1, PacketLen) \in Text /\ Len(SubSeq(packet, 1, PacketLen)) <= PacketLen
    BY <1>1, <2>1, SubSeqProperties DEF Text
  <2>. QED  BY <1>1, <1>3, <2>2 DEF D!Cut
<1>. QED  BY <1>1, <1>2, <1>3

(* A text with an = is a key without one, the =, and a value.              *)
LEMMA SplitFacts ==
  ASSUME NEW word \in Text, D!Has(word, Equals)
  PROVE  /\ D!SplitAt(word) \in 1..Len(word) /\ word[D!SplitAt(word)] = Equals
         /\ \A j \in 1..(D!SplitAt(word) - 1) : word[j] # Equals
<1> DEFINE at == {i \in 1..Len(word) : word[i] = Equals}
<1>1. Len(word) \in Nat /\ DOMAIN word = 1..Len(word)
  BY DEF Text
<1>2. at # {} /\ at \in SUBSET Nat
  BY <1>1 DEF D!Has
<1>3. \E i \in at : \A j \in at : i <= j
  <2> HIDE DEF at
  <2>. QED  BY <1>2, LeastNumber
<1>4. PICK i \in 1..Len(word) : word[i] = Equals /\ \A j \in at : i <= j
  BY <1>3
<1>5. \A j \in 1..(i - 1) : word[j] # Equals
  <2>1. ASSUME NEW j \in 1..(i - 1), word[j] = Equals
        PROVE  FALSE
    <3>1. j \in at /\ j < i /\ i \in Nat /\ j \in Nat
      BY <1>1, <1>4, <2>1
    <3> HIDE DEF at
    <3>. QED  BY <1>4, <3>1
  <2>. QED  BY <2>1
<1>. QED  BY <1>1, <1>4, <1>5 DEF D!SplitAt

LEMMA KeyAndValue ==
  ASSUME NEW word \in Text, D!Has(word, Equals)
  PROVE  /\ D!KeyOf(word) \in Text /\ D!ValueOf(word) \in Text
         /\ ~D!Has(D!KeyOf(word), Equals)
         /\ \A i \in 1..Len(D!KeyOf(word)) : word[i] = D!KeyOf(word)[i]
         /\ Len(word) > Len(D!KeyOf(word)) /\ word[Len(D!KeyOf(word)) + 1] = Equals
         /\ word = D!KeyOf(word) \o <<Equals>> \o D!ValueOf(word)
<1> DEFINE n == D!SplitAt(word)
           key == SubSeq(word, 1, n - 1)
           value == SubSeq(word, n + 1, Len(word))
<1>1. /\ n \in 1..Len(word) /\ word[n] = Equals /\ Len(word) \in Nat
      /\ \A j \in 1..(n - 1) : word[j] # Equals
  BY SplitFacts DEF Text
<1>2. D!KeyOf(word) = key /\ D!ValueOf(word) = value
  BY DEF D!KeyOf, D!ValueOf
<1> HIDE DEF n
<1>3. \A i \in 1..Len(word) : word[i] \in Character
  BY ElementOfSeq DEF Text
<1>4. \A i \in 1..(n - 1) : i \in 1..Len(word)
  BY <1>1
<1>5. \A i \in (n + 1)..Len(word) : i \in 1..Len(word)
  BY <1>1
<1>6. /\ key \in Text /\ Len(key) = n - 1 /\ \A i \in 1..(n - 1) : key[i] = word[i]
  <2>1. \A i \in 1..(n - 1) : word[i] \in Character
    BY <1>3, <1>4
  <2>2. /\ key \in Text /\ Len(key) = (IF 1 <= n - 1 THEN (n - 1) - 1 + 1 ELSE 0)
        /\ \A i \in 1..((n - 1) - 1 + 1) : key[i] = word[1 + i - 1]
    BY <1>1, <2>1, SubSeqProperties DEF Text
  <2> HIDE DEF key
  <2>3. (n - 1) - 1 + 1 = n - 1 /\ \A i \in 1..(n - 1) : 1 + i - 1 = i
    BY <1>1
  <2>. QED  BY <1>1, <2>2, <2>3
<1>7. /\ value \in Text /\ Len(value) = Len(word) - n
      /\ \A i \in 1..(Len(word) - n) : value[i] = word[n + i]
  <2>1. \A i \in (n + 1)..Len(word) : word[i] \in Character
    BY <1>3, <1>5
  <2>2. /\ value \in Text
        /\ Len(value) = (IF n + 1 <= Len(word) THEN Len(word) - (n + 1) + 1 ELSE 0)
        /\ \A i \in 1..(Len(word) - (n + 1) + 1) : value[i] = word[(n + 1) + i - 1]
    BY <1>1, <2>1, SubSeqProperties DEF Text
  <2> HIDE DEF value
  <2>3. /\ Len(word) - (n + 1) + 1 = Len(word) - n
        /\ IF n + 1 <= Len(word) THEN TRUE ELSE Len(word) - n = 0
        /\ \A i \in 1..(Len(word) - n) : (n + 1) + i - 1 = n + i
    BY <1>1
  <2>4. Len(value) = Len(word) - n
    BY <2>2, <2>3
  <2>5. \A i \in 1..(Len(word) - n) : value[i] = word[n + i]
    BY <2>2, <2>3
  <2>. QED  BY <2>2, <2>4, <2>5
<1> HIDE DEF key, value
<1>8. ~D!Has(key, Equals)
  <2>1. DOMAIN key = 1..(n - 1)
    BY <1>6 DEF Text
  <2>. QED  BY <1>1, <1>6, <2>1 DEF D!Has
<1>9. word = key \o <<Equals>> \o value
  <2>1. /\ key \o <<Equals>> \in Text /\ Len(key \o <<Equals>>) = n
        /\ \A i \in 1..n : (key \o <<Equals>>)[i] = word[i]
    <3>1. Len(<<Equals>>) = 1 /\ <<Equals>>[1] = Equals
      OBVIOUS
    <3>2. /\ key \o <<Equals>> \in Text /\ Len(key \o <<Equals>>) = (n - 1) + 1
          /\ \A i \in 1..((n - 1) + 1) :
               (key \o <<Equals>>)[i] = IF i <= n - 1 THEN key[i] ELSE <<Equals>>[i - (n - 1)]
      BY <1>6, <3>1, TextFacts, ConcatProperties DEF Text
    <3>3. ASSUME NEW i \in 1..n
          PROVE  (key \o <<Equals>>)[i] = word[i]
      <4>1. CASE i <= n - 1
        BY <1>1, <1>6, <3>2, <4>1
      <4>2. CASE i = n
        <5>1. ~(i <= n - 1) /\ i - (n - 1) = 1 /\ i \in 1..((n - 1) + 1)
          BY <1>1, <4>2
        <5>. QED  BY <1>1, <3>1, <3>2, <4>2, <5>1
      <4>3. i <= n - 1 \/ i = n
        BY <1>1
      <4>. QED  BY <4>1, <4>2, <4>3
    <3>. QED  BY <1>1, <3>2, <3>3
  <2> DEFINE whole == key \o <<Equals>> \o value
  <2>2. /\ whole \in Text /\ Len(whole) = n + (Len(word) - n)
        /\ \A i \in 1..(n + (Len(word) - n)) :
             whole[i] = IF i <= n THEN (key \o <<Equals>>)[i] ELSE value[i - n]
    <3> DEFINE start == key \o <<Equals>>
    <3>1. start \in Text /\ Len(start) = n
      BY <2>1
    <3> HIDE DEF start
    <3>2. /\ start \o value \in Text /\ Len(start \o value) = Len(start) + Len(value)
          /\ \A i \in 1..(Len(start) + Len(value)) :
               (start \o value)[i] = IF i <= Len(start) THEN start[i] ELSE value[i - Len(start)]
      BY <1>7, <3>1, ConcatProperties DEF Text
    <3>3. /\ start \o value \in Text /\ Len(start \o value) = n + (Len(word) - n)
          /\ \A i \in 1..(n + (Len(word) - n)) :
               (start \o value)[i] = IF i <= n THEN start[i] ELSE value[i - n]
      BY <1>7, <3>1, <3>2
    <3>. QED  BY <3>3 DEF start
  <2> HIDE DEF whole
  <2>3. ASSUME NEW i \in 1..Len(word)
        PROVE  whole[i] = word[i]
    <3>1. i \in 1..(n + (Len(word) - n)) /\ i \in Int
      BY <1>1
    <3>2. CASE i <= n
      <4>1. i \in 1..n
        BY <1>1, <3>2
      <4>. QED  BY <2>1, <2>2, <3>1, <3>2, <4>1
    <3>3. CASE ~(i <= n)
      <4>1. i - n \in 1..(Len(word) - n) /\ n + (i - n) = i
        BY <1>1, <3>3
      <4>. QED  BY <1>7, <2>2, <3>1, <3>3, <4>1
    <3>. QED  BY <3>2, <3>3
  <2>4. Len(whole) = Len(word)
    BY <1>1, <2>2
  <2>5. whole = word
    BY <2>2, <2>3, <2>4, SeqEqual DEF Text
  <2>. QED  BY <2>5 DEF whole
<1>10. Len(word) > Len(key) /\ word[Len(key) + 1] = Equals
  <2>1. (n - 1) + 1 = n /\ Len(word) > n - 1
    BY <1>1
  <2>. QED  BY <1>1, <1>6, <2>1
<1>. QED  BY <1>2, <1>6, <1>7, <1>8, <1>9, <1>10
(* A packet inserts key when it begins with key and an =.                  *)
LEMMA Begins ==
  ASSUME NEW word \in Text, NEW key \in Text, Len(word) > Len(key)
  PROVE  SubSeq(word, 1, Len(key) + 1) = key \o <<Equals>>
         <=> /\ \A i \in 1..Len(key) : word[i] = key[i]
             /\ word[Len(key) + 1] = Equals
<1> DEFINE n == Len(key)
           begin == SubSeq(word, 1, n + 1)
           start == key \o <<Equals>>
<1>1. n \in Nat /\ Len(word) \in Nat /\ \A i \in 1..(n + 1) : i \in 1..Len(word)
  BY DEF Text
<1>2. \A i \in 1..(n + 1) : word[i] \in Character
  BY <1>1, ElementOfSeq DEF Text
<1>3. /\ begin \in Text /\ Len(begin) = n + 1
      /\ \A i \in 1..(n + 1) : begin[i] = word[i]
  <2>1. /\ begin \in Text /\ Len(begin) = (IF 1 <= n + 1 THEN (n + 1) - 1 + 1 ELSE 0)
        /\ \A i \in 1..((n + 1) - 1 + 1) : begin[i] = word[1 + i - 1]
    BY <1>1, <1>2, SubSeqProperties DEF Text
  <2> HIDE DEF n, begin
  <2>2. (n + 1) - 1 + 1 = n + 1 /\ 1 <= n + 1 /\ \A i \in 1..(n + 1) : 1 + i - 1 = i
    BY <1>1
  <2>3. Len(begin) = n + 1
    BY <2>1, <2>2
  <2>4. \A i \in 1..(n + 1) : begin[i] = word[i]
    BY <2>1, <2>2
  <2>. QED  BY <2>1, <2>3, <2>4
<1>4. /\ start \in Text /\ Len(start) = n + 1
      /\ \A i \in 1..n : start[i] = key[i]
      /\ start[n + 1] = Equals
  <2>1. Len(<<Equals>>) = 1 /\ <<Equals>>[1] = Equals
    OBVIOUS
  <2>2. /\ start \in Text /\ Len(start) = n + 1
        /\ \A i \in 1..(n + 1) : start[i] = IF i <= n THEN key[i] ELSE <<Equals>>[i - n]
    BY <1>1, <2>1, TextFacts, ConcatProperties DEF Text
  <2> HIDE DEF n, start
  <2>3. /\ \A i \in 1..n : i <= n /\ i \in 1..(n + 1)
        /\ n + 1 \in 1..(n + 1) /\ ~(n + 1 <= n) /\ (n + 1) - n = 1
    BY <1>1
  <2>4. \A i \in 1..n : start[i] = key[i]
    BY <2>2, <2>3
  <2>. QED  BY <2>1, <2>2, <2>3, <2>4
<1> HIDE DEF n, begin, start
<1>5. begin = start <=> \A i \in 1..(n + 1) : begin[i] = start[i]
  BY <1>3, <1>4, SeqEqual DEF Text
<1>6. /\ \A i \in 1..n : i \in 1..(n + 1)
      /\ n + 1 \in 1..(n + 1)
      /\ \A i \in 1..(n + 1) : i \in 1..n \/ i = n + 1
  BY <1>1
<1>7. (\A i \in 1..(n + 1) : begin[i] = start[i])
      <=> (\A i \in 1..n : word[i] = key[i]) /\ word[n + 1] = Equals
  BY <1>3, <1>4, <1>6
<1>. QED  BY <1>5, <1>7 DEF n, begin, start

LEMMA InsertsKey ==
  ASSUME NEW word \in Text, NEW key \in Text, ~D!Has(key, Equals)
  PROVE  D!Inserts(word, key)
         <=> ~D!Has(word, NotUtf8) /\ D!Has(word, Equals) /\ key = D!KeyOf(word)
<1>1. /\ Len(word) \in Nat /\ DOMAIN word = 1..Len(word)
      /\ Len(key) \in Nat /\ DOMAIN key = 1..Len(key)
  BY DEF Text
<1>2. ASSUME D!Inserts(word, key)
      PROVE  ~D!Has(word, NotUtf8) /\ D!Has(word, Equals) /\ key = D!KeyOf(word)
  <2> DEFINE n == Len(key)
             first == D!KeyOf(word)
             m == Len(first)
  <2>1. /\ ~D!Has(word, NotUtf8) /\ Len(word) > n
        /\ \A i \in 1..n : word[i] = key[i]
        /\ word[n + 1] = Equals
    BY <1>2, Begins DEF D!Inserts
  <2>2. n + 1 \in 1..Len(word) /\ n \in Nat
    BY <1>1, <2>1
  <2>3. D!Has(word, Equals)
    BY <1>1, <2>1, <2>2 DEF D!Has
  <2>4. /\ first \in Text /\ ~D!Has(first, Equals)
        /\ \A i \in 1..m : word[i] = first[i]
        /\ word[m + 1] = Equals
    BY <2>3, KeyAndValue
  <2>5. m \in Nat /\ DOMAIN first = 1..m
    BY <2>4 DEF Text
  <2>6. \A i \in 1..m : word[i] # Equals
    BY <2>4, <2>5 DEF D!Has
  <2>7. \A i \in 1..n : word[i] # Equals
    BY <1>1, <2>1 DEF D!Has
  <2> HIDE DEF n, m, first
  <2>8. n + 1 \notin 1..m /\ m + 1 \notin 1..n
    BY <2>1, <2>4, <2>6, <2>7
  <2>9. n = m
    BY <2>2, <2>5, <2>8
  <2>10. \A i \in 1..n : key[i] = first[i]
    BY <2>1, <2>4, <2>9
  <2>11. key = first
    BY <2>4, <2>9, <2>10, SeqEqual DEF Text, n, m
  <2>. QED  BY <2>1, <2>3, <2>11 DEF first
<1>3. ASSUME ~D!Has(word, NotUtf8), D!Has(word, Equals), key = D!KeyOf(word)
      PROVE  D!Inserts(word, key)
  BY <1>3, KeyAndValue, Begins DEF D!Inserts
<1>. QED  BY <1>2, <1>3

(* Of the packets, the last one that inserts key goes on with value.       *)
InsertedLast(packets, key, value) ==
  \E i \in 1..Len(packets) :
    /\ packets[i] = key \o <<Equals>> \o value /\ D!Inserts(packets[i], key)
    /\ \A j \in (i + 1)..Len(packets) : ~D!Inserts(packets[j], key)

Repeats(packets, a) ==
  /\ a.after \in 0..Len(packets)
  /\ Len(a.text) <= PacketLen
  /\ IF a.key = VERSION_KEY THEN a.text = VERSION_KEY \o <<Equals>> \o VERSION_VAL
     ELSE \E i \in 1..a.after :
            /\ packets[i] = a.text /\ D!Inserts(a.text, a.key)
            /\ \A j \in (i + 1)..a.after : ~D!Inserts(packets[j], a.key)

StoredUnder(key) ==
  /\ key \in Text /\ ~D!Has(key, Equals) /\ key # VERSION_KEY
  /\ InsertedLast(received, key, kv_store[key])

(* What is stored was inserted last.                                       *)
StoreInv ==
  /\ received \in Seq(Text) /\ \A i \in 1..Len(received) : Len(received[i]) <= PacketLen
  /\ \A key \in DOMAIN kv_store : StoredUnder(key)
  /\ \A a \in answers : Repeats(received, a)

(* A packet is received: what was received before stays where it was.      *)
LEMMA ReceiveFacts ==
  ASSUME StoreInv, NEW packet \in Packet, D!Receive(packet)
  PROVE  /\ Len(received) \in Nat /\ Len(received') = Len(received) + 1
         /\ received'[Len(received) + 1] = D!Cut(packet)
         /\ \A i \in 1..Len(received) : received'[i] = received[i]
         /\ received' \in Seq(Text) /\ \A i \in 1..Len(received') : Len(received'[i]) <= PacketLen
<1> DEFINE word == D!Cut(packet)
           n == Len(received)
<1>1. word \in Text /\ Len(word) <= PacketLen
  BY CutFacts
<1>2. received \in Seq(Text) /\ received' = Append(received, word)
  BY DEF StoreInv, D!Receive
<1>3. \A i \in 1..n : Len(received[i]) <= PacketLen
  BY DEF StoreInv
<1> HIDE DEF word
<1>4. /\ n \in Nat /\ received' \in Seq(Text) /\ Len(received') = n + 1
      /\ \A i \in 1..n : received'[i] = received[i]
      /\ received'[n + 1] = word
  BY <1>1, <1>2, AppendProperties
<1> HIDE DEF n
<1>5. \A i \in 1..(n + 1) : i \in 1..n \/ i = n + 1
  BY <1>4
<1>6. \A i \in 1..Len(received') : Len(received'[i]) <= PacketLen
  BY <1>1, <1>3, <1>4, <1>5
<1>. QED  BY <1>4, <1>6 DEF n, word

LEMMA RepeatsStill ==
  ASSUME StoreInv, NEW packet \in Packet, D!Receive(packet), NEW a \in answers
  PROVE  Repeats(received', a)
<1> DEFINE n == Len(received)
<1>1. /\ n \in Nat /\ Len(received') = n + 1
      /\ \A i \in 1..n : received'[i] = received[i]
  BY ReceiveFacts
<1>2. Repeats(received, a)
  BY DEF StoreInv
<1>3. a.after \in 0..n
  BY <1>2 DEF Repeats
<1> HIDE DEF n
<1>4. a.after \in 0..(n + 1) /\ \A i \in 1..a.after : i \in 1..n
  BY <1>1, <1>3
<1>5. \A i \in 1..a.after : \A j \in (i + 1)..a.after : j \in 1..n
  BY <1>1, <1>3
<1>6. a.after \in 0..Len(received')
  BY <1>1, <1>4
<1>7. ASSUME a.key # VERSION_KEY
      PROVE  \E i \in 1..a.after :
               /\ received'[i] = a.text /\ D!Inserts(a.text, a.key)
               /\ \A j \in (i + 1)..a.after : ~D!Inserts(received'[j], a.key)
  <2>1. PICK i \in 1..a.after :
          /\ received[i] = a.text /\ D!Inserts(a.text, a.key)
          /\ \A j \in (i + 1)..a.after : ~D!Inserts(received[j], a.key)
    BY <1>2, <1>7 DEF Repeats
  <2>. QED  BY <1>1, <1>4, <1>5, <2>1
<1>. QED  BY <1>2, <1>6, <1>7 DEF Repeats

LEMMA InsertedStill ==
  ASSUME StoreInv, NEW packet \in Packet, D!Receive(packet),
         NEW key, NEW value, InsertedLast(received, key, value), ~D!Inserts(D!Cut(packet), key)
  PROVE  InsertedLast(received', key, value)
<1> DEFINE n == Len(received)
<1>1. /\ n \in Nat /\ Len(received') = n + 1 /\ received'[n + 1] = D!Cut(packet)
      /\ \A i \in 1..n : received'[i] = received[i]
  BY ReceiveFacts
<1>2. PICK i \in 1..n :
        /\ received[i] = key \o <<Equals>> \o value /\ D!Inserts(received[i], key)
        /\ \A j \in (i + 1)..n : ~D!Inserts(received[j], key)
  BY DEF InsertedLast
<1> HIDE DEF n
<1>3. i \in 1..(n + 1) /\ \A j \in (i + 1)..(n + 1) : j = n + 1 \/ j \in (i + 1)..n
  BY <1>1
<1>4. \A j \in (i + 1)..n : j \in 1..n
  BY <1>1
<1>5. \A j \in (i + 1)..(n + 1) : ~D!Inserts(received'[j], key)
  BY <1>1, <1>2, <1>3, <1>4
<1>6. i \in 1..Len(received') /\ \A j \in (i + 1)..Len(received') : ~D!Inserts(received'[j], key)
  BY <1>1, <1>3, <1>5
<1>7. received'[i] = key \o <<Equals>> \o value /\ D!Inserts(received'[i], key)
  BY <1>1, <1>2
<1>. QED  BY <1>6, <1>7 DEF InsertedLast
LEMMA VersionFits == Len(VERSION_KEY \o <<Equals>> \o VERSION_VAL) <= PacketLen
<1>1. Len(<<Equals>>) = 1
  OBVIOUS
<1>2. VERSION_KEY \o <<Equals>> \in Text /\ Len(VERSION_KEY \o <<Equals>>) = Len(VERSION_KEY) + 1
  BY <1>1, TextFacts, ConcatProperties DEF Text
<1>3. Len(VERSION_KEY \o <<Equals>> \o VERSION_VAL) = Len(VERSION_KEY) + 1 + Len(VERSION_VAL)
  BY <1>2, TextFacts, ConcatProperties DEF Text
<1>. QED  BY <1>3, DatabaseAssumption DEF D!DatabaseAssumption

LEMMA DatabaseStep ==
  ASSUME StoreInv, D!Next
  PROVE  StoreInv'
<1>1. PICK packet \in Packet : D!Ignore(packet) \/ D!Insert(packet) \/ D!Query(packet)
  BY DEF D!Next
<1> DEFINE word == D!Cut(packet)
           n == Len(received)
<1>2. D!Receive(packet) /\ word \in Text
  BY <1>1, CutFacts DEF D!Ignore, D!Insert, D!Query
<1>3. /\ n \in Nat /\ Len(received') = n + 1 /\ received'[n + 1] = word
      /\ \A i \in 1..n : received'[i] = received[i]
      /\ received' \in Seq(Text) /\ \A i \in 1..Len(received') : Len(received'[i]) <= PacketLen
  BY <1>2, ReceiveFacts
<1>4. \A a \in answers : Repeats(received', a)
  BY <1>2, RepeatsStill
<1>5. \A key \in DOMAIN kv_store : StoredUnder(key)
  BY DEF StoreInv
<1>6. ASSUME kv_store' = kv_store, answers' = answers,
             \A key \in DOMAIN kv_store : ~D!Inserts(word, key)
      PROVE  StoreInv'
  <2>1. \A key \in DOMAIN kv_store : InsertedLast(received', key, kv_store[key])
    BY <1>2, <1>5, <1>6, InsertedStill DEF StoredUnder
  <2>2. \A key \in DOMAIN kv_store' : StoredUnder(key)'
    BY <1>5, <1>6, <2>1 DEF StoredUnder
  <2>. QED  BY <1>3, <1>4, <1>6, <2>2 DEF StoreInv
<1>7. CASE D!Ignore(packet)
  <2>1. D!Has(word, NotUtf8) /\ kv_store' = kv_store /\ answers' = answers
    BY <1>7 DEF D!Ignore
  <2>. QED  BY <1>6, <2>1 DEF D!Inserts
<1>8. CASE D!Insert(packet)
  <2> DEFINE first == D!KeyOf(word)
             rest == D!ValueOf(word)
  <2>1. ~D!Has(word, NotUtf8) /\ D!Has(word, Equals) /\ answers' = answers
    BY <1>8 DEF D!Insert
  <2>2. first \in Text /\ ~D!Has(first, Equals) /\ word = first \o <<Equals>> \o rest
    BY <1>2, <2>1, KeyAndValue
  <2>3. \A key \in DOMAIN kv_store : key # first => ~D!Inserts(word, key)
    BY <1>2, <1>5, InsertsKey DEF StoredUnder
  <2>4. CASE first = VERSION_KEY
    <3>1. kv_store' = kv_store
      BY <1>8, <2>4 DEF D!Insert
    <3>2. \A key \in DOMAIN kv_store : ~D!Inserts(word, key)
      BY <1>5, <2>3, <2>4 DEF StoredUnder
    <3>. QED  BY <1>6, <2>1, <3>1, <3>2
  <2>5. CASE first # VERSION_KEY
    <3>1. kv_store' = [k \in DOMAIN kv_store \union {first} |->
                         IF k = first THEN rest ELSE kv_store[k]]
      BY <1>8, <2>5 DEF D!Insert
    <3>2. InsertedLast(received', first, rest)
      <4>1. D!Inserts(word, first)
        BY <1>2, <2>1, <2>2, InsertsKey
      <4> HIDE DEF n, first, rest, word
      <4>2. n + 1 \in 1..Len(received') /\ \A j \in (n + 1 + 1)..Len(received') : FALSE
        BY <1>3
      <4>. QED  BY <1>3, <2>2, <4>1, <4>2 DEF InsertedLast
    <3>3. ASSUME NEW key \in DOMAIN kv_store'
          PROVE  StoredUnder(key)'
      <4>1. CASE key = first
        BY <2>2, <2>5, <3>1, <3>2, <4>1 DEF StoredUnder
      <4>2. CASE key # first
        <5>1. key \in DOMAIN kv_store /\ kv_store'[key] = kv_store[key]
          BY <3>1, <4>2
        <5>2. StoredUnder(key) /\ ~D!Inserts(word, key)
          BY <1>5, <2>3, <4>2, <5>1
        <5>3. InsertedLast(received', key, kv_store[key])
          BY <1>2, <5>2, InsertedStill DEF StoredUnder
        <5>. QED  BY <5>1, <5>2, <5>3 DEF StoredUnder
      <4>. QED  BY <4>1, <4>2
    <3>. QED  BY <1>3, <1>4, <2>1, <3>3 DEF StoreInv
  <2>. QED  BY <2>4, <2>5
<1>9. CASE D!Query(packet)
  <2> DEFINE value == IF word \in DOMAIN kv_store THEN kv_store[word] ELSE VERSION_VAL
             answer == [text |-> word \o <<Equals>> \o value, key |-> word, after |-> n]
  <2>1. /\ ~D!Has(word, Equals) /\ kv_store' = kv_store
        /\ answers' = IF word \in DOMAIN kv_store \union {VERSION_KEY}
                      THEN answers \union {answer} ELSE answers
    BY <1>9 DEF D!Query
  <2>2. \A key \in DOMAIN kv_store : ~D!Inserts(word, key)
    BY <1>2, <1>5, <2>1, InsertsKey DEF StoredUnder
  <2>3. \A key \in DOMAIN kv_store' : StoredUnder(key)'
    <3>1. \A key \in DOMAIN kv_store : InsertedLast(received', key, kv_store[key])
      BY <1>2, <1>5, <2>2, InsertedStill DEF StoredUnder
    <3>. QED  BY <1>5, <2>1, <3>1 DEF StoredUnder
  <2>4. ASSUME word \in DOMAIN kv_store \union {VERSION_KEY}
        PROVE  Repeats(received', answer)
    <3>1. answer.key = word /\ answer.after = n /\ answer.text = word \o <<Equals>> \o value
      OBVIOUS
    <3>2. n \in 0..Len(received')
      <4> HIDE DEF n
      <4>. QED  BY <1>3
    <3>3. CASE word = VERSION_KEY
      <4>1. value = VERSION_VAL
        BY <1>5, <3>3 DEF StoredUnder
      <4>2. answer.text = VERSION_KEY \o <<Equals>> \o VERSION_VAL
        BY <3>1, <3>3, <4>1
      <4>3. Len(VERSION_KEY \o <<Equals>> \o VERSION_VAL) <= PacketLen
        BY VersionFits
      <4> HIDE DEF answer
      <4>. QED  BY <3>1, <3>2, <3>3, <4>2, <4>3 DEF Repeats
    <3>4. CASE word # VERSION_KEY
      <4>1. word \in DOMAIN kv_store /\ value = kv_store[word] /\ InsertedLast(received, word, value)
        BY <1>5, <2>4, <3>4 DEF StoredUnder
      <4>2. PICK i \in 1..n :
              /\ received[i] = answer.text /\ D!Inserts(received[i], word)
              /\ \A j \in (i + 1)..n : ~D!Inserts(received[j], word)
        BY <3>1, <4>1 DEF InsertedLast
      <4> HIDE DEF answer, value, word
      <4>3. Len(received[i]) <= PacketLen
        BY DEF StoreInv
      <4> HIDE DEF n
      <4>4. \A j \in (i + 1)..n : j \in 1..n
        BY <1>3
      <4>5. received'[i] = answer.text /\ D!Inserts(answer.text, word) /\ Len(answer.text) <= PacketLen
        BY <1>3, <4>2, <4>3
      <4>6. \A j \in (i + 1)..n : ~D!Inserts(received'[j], word)
        BY <1>3, <4>2, <4>4
      <4>. QED  BY <3>1, <3>2, <3>4, <4>5, <4>6 DEF Repeats
    <3>. QED  BY <3>3, <3>4
  <2>5. \A a \in answers' : Repeats(received', a)
    <3> HIDE DEF answer
    <3>. QED  BY <1>4, <2>1, <2>4
  <2>. QED  BY <1>3, <2>3, <2>5 DEF StoreInv
<1>. QED  BY <1>1, <1>7, <1>8, <1>9

(* Whichever packets are sent, cut, lost, repeated and reordered on their  *)
(* way, an answer of the database repeats the packet that inserted its key *)
(* last: the answer is not longer than a packet, and no insertion changes  *)
(* the version.                                                            *)
THEOREM InsertsRepeated == Spec => []AnswersRepeatInserts
<1>1. Init => StoreInv
  <2>1. Init => received = << >> /\ answers = {} /\ kv_store = << >>
    BY DEF Init, D!Init
  <2>2. << >> \in Seq(Text) /\ Len(<< >>) = 0 /\ DOMAIN << >> = {}
    OBVIOUS
  <2>. QED  BY <2>1, <2>2 DEF StoreInv
<1>2. StoreInv /\ [Next]_serverVars => StoreInv'
  <2> SUFFICES ASSUME StoreInv, [Next]_serverVars
               PROVE  StoreInv'
    OBVIOUS
  <2>1. CASE Database
    BY <2>1, DatabaseStep DEF Database
  <2>2. CASE ~Database
    <3>1. UNCHANGED databaseVars
      BY <2>2 DEF Next, serverVars, Choose, Versions, Proxy, OnlyProxy, Sockets, Means, Primes,
                  PestPeers, SpeedPeers, LrcpPackets, Sessions, OnlySessions
    <3>. QED  BY <3>1 DEF databaseVars, StoreInv, StoredUnder
  <2>. QED  BY <2>1, <2>2
<1>3. StoreInv => AnswersRepeatInserts
  BY DEF StoreInv, Repeats, AnswersRepeatInserts, D!AnswersRepeatInserts
<1>. QED  BY <1>1, <1>2, <1>3, PTL DEF Spec

-----------------------------------------------------------------------------
(* Prime time.                                                             *)

(* A number is divided without a rest exactly by its factors.              *)
LEMMA Factors ==
  ASSUME NEW n \in Nat, n > 1
  PROVE  T!Prime(n) <=> \A a, b \in 2..(n - 1) : a * b # n
<1>1. ASSUME NEW d \in 2..(n - 1), n % d = 0
      PROVE  \E a, b \in 2..(n - 1) : a * b = n
  <2>1. n = d * (n \div d) /\ n \div d \in Int
    BY <1>1
  <2> DEFINE q == n \div d
  <2> HIDE DEF q
  <2>2. q > 0
    BY <2>1 DEF q
  <2>3. q # 1
    BY <2>1 DEF q
  <2>4. q < n
    BY <2>1, <2>2 DEF q
  <2>5. q \in 2..(n - 1) /\ d * q = n
    BY <2>1, <2>2, <2>3, <2>4 DEF q
  <2>. QED  BY <2>5
<1>2. ASSUME NEW a \in 2..(n - 1), NEW b \in 2..(n - 1), a * b = n
      PROVE  n % a = 0
  <2> DEFINE q == n \div a
             r == n % a
  <2>1. n = a * q + r /\ q \in Int /\ r \in 0..(a - 1)
    OBVIOUS
  <2> HIDE DEF q, r
  <2>2. r = a * (b - q)
    BY <1>2, <2>1
  <2>3. CASE b <= q
    <3>1. a * (b - q) <= 0
      BY <2>1, <2>3
    <3>. QED  BY <2>1, <2>2, <3>1 DEF r
  <2>4. CASE b > q
    <3>1. a * (b - q) >= a
      BY <2>1, <2>4
    <3>. QED  BY <2>1, <2>2, <3>1
  <2>. QED  BY <2>1, <2>3, <2>4
<1>. QED  BY <1>1, <1>2 DEF T!Prime

(* Of twice a number, in halves: what PrimesTold says of it.               *)
ToldPrime(x) == \E n \in 2..x : x = 2 * n /\ \A a, b \in 2..(n - 1) : a * b # n

LEMMA ToldOfDouble ==
  ASSUME NEW n \in Nat
  PROVE  ToldPrime(2 * n) <=> n > 1 /\ T!Prime(n)
<1>1. \A m \in Int : 2 * n = 2 * m <=> m = n
  OBVIOUS
<1>2. n \in 2..(2 * n) <=> n > 1
  OBVIOUS
<1> DEFINE Factorless(m) == \A a, b \in 2..(m - 1) : a * b # m
<1>3. ToldPrime(2 * n) <=> n > 1 /\ Factorless(n)
  <2>1. ToldPrime(2 * n) <=> \E m \in 2..(2 * n) : 2 * n = 2 * m /\ Factorless(m)
    BY DEF ToldPrime
  <2>2. \A m \in 2..(2 * n) : m \in Int
    OBVIOUS
  <2> HIDE DEF Factorless
  <2>. QED  BY <1>1, <1>2, <2>1, <2>2
<1>. QED  BY <1>3, Factors

(* is_prime is right of fractions, of negative numbers, and of numbers     *)
(* beyond u64, which the cast takes for u64::MAX.                          *)
LEMMA PrimeTold ==
  ASSUME NEW x \in Number
  PROVE  T!is_prime(x) <=> ToldPrime(x)
<1> DEFINE top == T!MaxU64
           c == T!Ceil(x)
<1>1. /\ x \in Int /\ (x >= 2 * top => x % 4 = 0)
      /\ top \in Nat /\ top > 3 /\ top % 3 = 0
  BY NumberAssumption DEF T!NumberAssumption
<1>2. c \in Int /\ (2 * c = x \/ 2 * c = x + 1)
  BY <1>1 DEF T!Ceil
<1>3. T!is_prime(x) <=> x >= 0 /\ LET y == IF c > top THEN top ELSE c
                                 IN  (IF y = top THEN 2 * (y + 1) ELSE 2 * y) = x /\ T!Prime(y)
  BY DEF T!is_prime, T!AsU64, T!AsF64
<1> HIDE DEF top, c
<1>4. ToldPrime(x) => 2 * c = x /\ c > 1
  <2>1. ASSUME NEW n \in 2..x, x = 2 * n
        PROVE  2 * c = x /\ c > 1
    BY <1>1, <1>2, <2>1
  <2>. QED  BY <2>1 DEF ToldPrime
<1>5. ~T!Prime(top)
  <2>1. 3 \in 2..(top - 1) /\ top % 3 = 0
    BY <1>1
  <2>. QED  BY <2>1 DEF T!Prime
<1>6. CASE c >= top
  <2>1. ~T!is_prime(x)
    BY <1>1, <1>2, <1>3, <1>5, <1>6
  <2>2. ASSUME ToldPrime(x)
        PROVE  FALSE
    <3>1. 2 * c = x /\ c > 1 /\ c \in Nat
      BY <1>2, <1>4, <2>2
    <3>2. x >= 2 * top
      BY <1>1, <1>6, <3>1
    <3>3. x % 4 = 0
      BY <1>1, <3>2
    <3>4. T!Prime(c)
      BY <2>2, <3>1, ToldOfDouble
    <3>5. c % 2 = 0 /\ 2 \in 2..(c - 1)
      BY <1>1, <1>6, <3>1, <3>3
    <3>. QED  BY <3>4, <3>5 DEF T!Prime
  <2>. QED  BY <2>1, <2>2
<1>7. CASE c < top
  <2>1. T!is_prime(x) <=> x >= 0 /\ 2 * c = x /\ T!Prime(c)
    BY <1>1, <1>2, <1>3, <1>7
  <2>2. CASE 2 * c = x /\ x >= 0
    <3>1. c \in Nat
      BY <1>2, <2>2
    <3>2. T!Prime(c) => c > 1
      BY DEF T!Prime
    <3>. QED  BY <2>1, <2>2, <3>1, <3>2, ToldOfDouble
  <2>3. CASE ~(2 * c = x /\ x >= 0)
    <3>1. 2 * c = x /\ c > 1 => x >= 0
      BY <1>2
    <3>. QED  BY <1>4, <2>1, <2>3, <3>1
  <2>. QED  BY <2>2, <2>3
<1>. QED  BY <1>1, <1>2, <1>6, <1>7

PrimeInv ==
  /\ lines \in Seq(Number) /\ outputs \in Seq(BOOLEAN) /\ Len(outputs) = Len(lines)
  /\ \A i \in 1..Len(lines) : outputs[i] = T!is_prime(lines[i])

LEMMA PrimeStep ==
  ASSUME PrimeInv, T!Next
  PROVE  PrimeInv'
<1>1. CASE T!Malformed
  BY <1>1 DEF T!Malformed, PrimeInv, T!is_prime, T!AsF64, T!AsU64, T!Ceil, T!Prime
<1>2. ASSUME NEW x \in Number, T!Answer(x)
      PROVE  PrimeInv'
  <2> DEFINE answer == T!is_prime(x)
             n == Len(lines)
  <2>1. answer \in BOOLEAN
    BY DEF T!is_prime
  <2>2. /\ lines' = Append(lines, x) /\ outputs' = Append(outputs, answer)
        /\ lines \in Seq(Number) /\ outputs \in Seq(BOOLEAN) /\ Len(outputs) = n
        /\ \A i \in 1..n : outputs[i] = T!is_prime(lines[i])
    BY <1>2 DEF T!Answer, PrimeInv
  <2>3. answer = T!is_prime(x)
    OBVIOUS
  <2> HIDE DEF answer
  <2>4. /\ n \in Nat /\ lines' \in Seq(Number) /\ Len(lines') = n + 1
        /\ \A i \in 1..n : lines'[i] = lines[i]
        /\ lines'[n + 1] = x
    BY <2>2, AppendProperties
  <2>5. /\ outputs' \in Seq(BOOLEAN) /\ Len(outputs') = n + 1
        /\ \A i \in 1..n : outputs'[i] = outputs[i]
        /\ outputs'[n + 1] = answer
    BY <2>1, <2>2, AppendProperties
  <2> HIDE DEF n
  <2>6. \A i \in 1..(n + 1) : i \in 1..n \/ i = n + 1
    BY <2>4
  <2>7. \A i \in 1..Len(lines') : outputs'[i] = T!is_prime(lines'[i])
    BY <2>2, <2>3, <2>4, <2>5, <2>6
  <2>. QED  BY <2>4, <2>5, <2>7 DEF PrimeInv
<1>. QED  BY <1>1, <1>2 DEF T!Next

(* Every request of a connection is answered in its place, and exactly the *)
(* primes are called so, for all halves of integers and any width of u64   *)
(* whose greatest number is a multiple of 3.                               *)
THEOREM PrimesAlwaysTold == Spec => []PrimesTold
<1>1. Init => PrimeInv
  <2>1. Init => lines = << >> /\ outputs = << >>
    BY DEF Init, T!Init
  <2>. QED  BY <2>1 DEF PrimeInv
<1>2. PrimeInv /\ [Next]_serverVars => PrimeInv'
  <2> SUFFICES ASSUME PrimeInv, [Next]_serverVars
               PROVE  PrimeInv'
    OBVIOUS
  <2>1. CASE Primes
    BY <2>1, PrimeStep DEF Primes
  <2>2. CASE ~Primes
    <3>1. UNCHANGED primeVars
      BY <2>2 DEF Next, serverVars, Choose, Versions, Proxy, OnlyProxy, Sockets, Means, Database,
                  PestPeers, SpeedPeers, LrcpPackets, Sessions, OnlySessions
    <3>2. lines' = lines /\ outputs' = outputs
      BY <3>1 DEF primeVars
    <3>. QED  BY <3>2 DEF PrimeInv
  <2>. QED  BY <2>1, <2>2
<1>3. PrimeInv => PrimesTold
  <2> SUFFICES ASSUME PrimeInv, NEW i \in DOMAIN lines
               PROVE  outputs[i] = ToldPrime(lines[i])
    BY DEF PrimesTold, T!PrimesTold, ToldPrime, PrimeInv
  <2>1. i \in 1..Len(lines) /\ lines[i] \in Number /\ outputs[i] = T!is_prime(lines[i])
    BY ElementOfSeq DEF PrimeInv
  <2>2. T!is_prime(lines[i]) \in BOOLEAN /\ ToldPrime(lines[i]) \in BOOLEAN
    BY DEF T!is_prime, ToldPrime
  <2>3. T!is_prime(lines[i]) <=> ToldPrime(lines[i])
    BY <2>1, PrimeTold
  <2>. QED  BY <2>1, <2>2, <2>3
<1>. QED  BY <1>1, <1>2, <1>3, PTL DEF Spec

-----------------------------------------------------------------------------
(* Version control.                                                        *)

CP == INSTANCE ComponentProofs WITH Content <- FileContent

-----------------------------------------------------------------------------
(* V and CP are instances of the same definitions.                         *)
LEMMA SameLine == \A c : V!Line(c) = CP!Line(c)
BY DEF V!Line, CP!Line

LEMMA SamePath == \A line : V!PathOf(line) = CP!PathOf(line)
BY DEF V!PathOf, V!ParsePath, CP!PathOf, CP!ParsePath

LEMMA SameMisformed == \A line : V!Misformed(line) <=> CP!Misformed(line)
BY SamePath DEF V!Misformed, CP!Misformed

LEMMA SameCommand ==
  \A c : /\ V!Line(c) = CP!Line(c)
         /\ V!PathOf(V!Line(c)) = CP!PathOf(CP!Line(c))
         /\ V!Misformed(V!Line(c)) <=> CP!Misformed(CP!Line(c))
BY SameLine, SamePath, SameMisformed

LEMMA SameRead == \A c, n : V!Read(c, n) <=> CP!Read(c, n)
BY DEF V!Read, V!Dropped, CP!Read, CP!Dropped

LEMMA SameAnswer ==
  \A c, kind, revisions, entries :
    V!Answer(c, kind, revisions, entries) <=> CP!Answer(c, kind, revisions, entries)
BY DEF V!Answer, CP!Answer

LEMMA SameVersions == \A path : V!LatestVersion(path) = CP!LatestVersion(path)
BY DEF V!LatestVersion, CP!LatestVersion

LEMMA SameFolders ==
  \A path : V!Above(path) = CP!Above(path) /\ (V!Has(path) <=> CP!Has(path))
BY DEF V!Above, V!Has, CP!Above, CP!Has

LEMMA SameAdded == \A path, content : V!Added(path, content) = CP!Added(path, content)
BY SameVersions DEF V!Added, CP!Added

LEMMA SamePut == \A path, content : V!Put(path, content) <=> CP!Put(path, content)
BY SameAdded, SameFolders DEF V!Put, CP!Put

LEMMA SameEntries == \A dir : V!Entries(dir) = CP!Entries(dir)
<1>1. \A dir : V!ListAll(dir) = CP!ListAll(dir)
  BY SameVersions DEF V!ListAll, CP!ListAll
<1>. QED  BY <1>1 DEF V!Entries, CP!Entries

LEMMA SameNext == V!Next => CP!Next
<1> SUFFICES ASSUME NEW c \in Client,
                    \/ V!Refuse(c) \/ V!Help(c) \/ V!PutData(c) \/ V!Get(c)
                    \/ V!List(c) \/ V!Close(c) \/ V!Write(c)
                    \/ \E request \in Request : V!Send(c, request)
             PROVE  CP!Next
  BY DEF V!Next
<1>1. CASE V!Refuse(c)
  <2>1. CP!Refuse(c)
    BY <1>1, SameRead, SameAnswer, SameCommand
    DEF V!Refuse, CP!Refuse, V!storageVars, CP!storageVars
  <2>. QED  BY <2>1 DEF CP!Next
<1>2. CASE V!Help(c)
  <2>1. CP!Help(c)
    BY <1>2, SameRead, SameAnswer, SameCommand
    DEF V!Help, CP!Help, V!storageVars, CP!storageVars
  <2>. QED  BY <2>1 DEF CP!Next
<1>3. CASE V!PutData(c)
  <2>1. CP!PutData(c)
    BY <1>3, SameRead, SameAnswer, SameCommand, SamePut
    DEF V!PutData, CP!PutData, V!storageVars, CP!storageVars
  <2>. QED  BY <2>1 DEF CP!Next
<1>4. CASE V!Get(c)
  <2>1. CP!Get(c)
    BY <1>4, SameRead, SameAnswer, SameCommand, SameFolders, SameVersions
    DEF V!Get, CP!Get, V!storageVars, CP!storageVars
  <2>. QED  BY <2>1 DEF CP!Next
<1>5. CASE V!List(c)
  <2>1. CP!List(c)
    BY <1>5, SameRead, SameAnswer, SameCommand, SameEntries, SameVersions
    DEF V!List, CP!List, V!storageVars, CP!storageVars
  <2>. QED  BY <2>1 DEF CP!Next
<1>6. CASE V!Close(c)
  <2>1. CP!Close(c)
    BY <1>6, SameRead, SameCommand, SameFolders
    DEF V!Close, CP!Close, V!storageVars, CP!storageVars, V!EndOfInput, CP!EndOfInput
  <2>. QED  BY <2>1 DEF CP!Next
<1>7. CASE V!Write(c)
  <2>1. CP!Write(c)
    BY <1>7 DEF V!Write, CP!Write, V!storageVars, CP!storageVars
  <2>. QED  BY <2>1 DEF CP!Next
<1>8. CASE \E request \in Request : V!Send(c, request)
  <2>1. \A request : V!Send(c, request) => CP!Send(c, request)
    BY DEF V!Send, CP!Send, V!storageVars, CP!storageVars, V!EndOfInput, CP!EndOfInput
  <2>. QED  BY <1>8, <2>1 DEF CP!Next
<1>. QED  BY <1>1, <1>2, <1>3, <1>4, <1>5, <1>6, <1>7, <1>8

LEMMA SameTokens ==
  /\ V!Token = CP!Token
  /\ V!EndOfInput = CP!EndOfInput
<1>1. \A parts, isFile : V!ParsePath(parts, isFile) = CP!ParsePath(parts, isFile)
  BY DEF V!ParsePath, CP!ParsePath
<1>2. V!FileWords = CP!FileWords /\ V!FolderWords = CP!FolderWords
  BY <1>1 DEF V!FileWords, V!FolderWords, V!Words, CP!FileWords, CP!FolderWords, CP!Words
<1>3. /\ V!EndOfInput = CP!EndOfInput /\ V!UsageLine = CP!UsageLine
      /\ V!HelpLine = CP!HelpLine /\ V!OtherLine = CP!OtherLine
  BY DEF V!EndOfInput, V!UsageLine, V!HelpLine, V!OtherLine,
         CP!EndOfInput, CP!UsageLine, CP!HelpLine, CP!OtherLine
<1>. QED  BY <1>2, <1>3 DEF V!Token, CP!Token

LEMMA SameAssumption == CP!VersionAssumption
<1>1. V!Reply = CP!Reply
  BY DEF V!Reply, V!Revision, CP!Reply, CP!Revision
<1>2. \A request : V!Command(request) <=> CP!Command(request)
  BY SameMisformed, SameTokens DEF V!Command, CP!Command
<1>. QED
  BY <1>1, <1>2, SameTokens, VersionAssumption DEF V!VersionAssumption, CP!VersionAssumption

(* The program behaves as version control does alone.                      *)
LEMMA VersionsAlone == Spec => CP!Spec
<1>1. Init => CP!Init
  BY DEF Init, V!Init, CP!Init
<1>2. [Next]_serverVars => [CP!Next]_(CP!versionVars)
  <2> SUFFICES ASSUME [Next]_serverVars PROVE [CP!Next]_(CP!versionVars)
    OBVIOUS
  <2>1. CASE Versions
    BY <2>1, SameNext DEF Versions
  <2>2. CASE ~Versions
    <3>1. UNCHANGED vcsVars
      BY <2>2 DEF Next, serverVars, Choose, Proxy, OnlyProxy, Sockets, Means, Database, Primes,
                  PestPeers, SpeedPeers, LrcpPackets, Sessions, OnlySessions
    <3>. QED  BY <3>1 DEF vcsVars, CP!versionVars, CP!storageVars, CP!clientVars
  <2>. QED  BY <2>1, <2>2
<1>. QED  BY <1>1, <1>2, PTL DEF Spec, CP!Spec

-----------------------------------------------------------------------------
(* Whichever server is chosen, a revision that a client of version control *)
(* was told of keeps its number and its content.                           *)
THEOREM RevisionsKept == Spec => []PromisesKept
<1>1. CP!Spec => []CP!PromisesKept
  BY SameAssumption, CP!PromisesAlwaysKept
<1>2. CP!PromisesKept => PromisesKept
  BY DEF PromisesKept, V!PromisesKept, V!Kept, V!LatestVersion,
         CP!PromisesKept, CP!Kept, CP!LatestVersion
<1>. QED  BY <1>1, <1>2, VersionsAlone, PTL

(* Nor does the program make the loop of version control read a command    *)
(* from the middle of another one.                                         *)
THEOREM LoopInStepInProgram == Spec => []AnswersInStep
<1>1. CP!Spec => []CP!AnswersInStep
  BY SameAssumption, CP!LoopInStep
<1>2. CP!AnswersInStep => AnswersInStep
  BY DEF AnswersInStep, V!AnswersInStep, CP!AnswersInStep
<1>. QED  BY <1>1, <1>2, VersionsAlone, PTL

(* The histories of version control and its answers are, in the program as *)
(* well, those of a flat store.                                            *)
THEOREM StoreInProgram == Spec => ImplementsStore
<1>1. CP!Spec => CP!ImplementsStore
  BY SameAssumption, CP!StoreImplemented
<1>2. CP!Store!Init => V!Store!Init
  BY DEF CP!Store!Init, V!Store!Init
<1>3. [CP!Store!Next]_(CP!Store!storeVars) => [V!Store!Next]_(V!Store!storeVars)
  BY DEF V!Store!Next, V!Store!Put, V!Store!Get, V!Store!List, V!Store!Other, V!Store!Deliver,
         V!Store!Answer, V!Store!Listing, V!Store!NameIn, V!Store!InFolder, V!Store!Latest,
         V!Store!Revision, V!Store!Exists, V!Store!storeVars,
         CP!Store!Next, CP!Store!Put, CP!Store!Get, CP!Store!List, CP!Store!Other, CP!Store!Deliver,
         CP!Store!Answer, CP!Store!Listing, CP!Store!NameIn, CP!Store!InFolder, CP!Store!Latest,
         CP!Store!Revision, CP!Store!Exists, CP!Store!storeVars
<1>. QED
  BY <1>1, <1>2, <1>3, VersionsAlone, PTL
  DEF ImplementsStore, V!ImplementsStore, V!Store!Spec, CP!ImplementsStore, CP!Store!Spec
-----------------------------------------------------------------------------
(* The chat proxy.                                                         *)

(* P and CP!Proxy are instances of the same definitions.                   *)
LEMMA SameSides == P!Side = CP!Proxy!Side /\ \A s : P!Other(s) = CP!Proxy!Other(s)
BY DEF P!Side, P!Other, CP!Proxy!Side, CP!Proxy!Other

LEMMA SamePasses ==
  \A line : /\ P!Doubled(line) = CP!Proxy!Doubled(line)
            /\ P!Substituted(line) = CP!Proxy!Substituted(line)
            /\ P!Halved(line) = CP!Proxy!Halved(line)
<1>1. \A line : P!Doubled(line) = CP!Proxy!Doubled(line)
  BY DEF P!Doubled, P!FoldLeft, P!MapThenFoldSet, P!Max,
         CP!Proxy!Doubled, CP!Proxy!FoldLeft, CP!Proxy!MapThenFoldSet, CP!Proxy!Max
<1>2. \A line : P!Substituted(line) = CP!Proxy!Substituted(line)
  BY DEF P!Substituted, P!FoldLeft, P!MapThenFoldSet, P!Max,
         CP!Proxy!Substituted, CP!Proxy!FoldLeft, CP!Proxy!MapThenFoldSet, CP!Proxy!Max
<1>3. \A line : P!Halved(line) = CP!Proxy!Halved(line)
  BY DEF P!Halved, P!FoldLeft, P!MapThenFoldSet, P!Max,
         CP!Proxy!Halved, CP!Proxy!FoldLeft, CP!Proxy!MapThenFoldSet, CP!Proxy!Max
<1>. QED  BY <1>1, <1>2, <1>3

LEMMA SameReplaced == \A line : P!replace_address(line) = CP!Proxy!replace_address(line)
BY SamePasses DEF P!replace_address, CP!Proxy!replace_address

LEMMA SameProxyNext == P!Next => CP!Proxy!Next
<1> USE SameSides
<1>1. \A s \in P!Side : P!HasLine(s) <=> CP!Proxy!HasLine(s)
  BY DEF P!HasLine, CP!Proxy!HasLine
<1>2. /\ P!peerVars = CP!Proxy!peerVars /\ P!lineVars = CP!Proxy!lineVars
      /\ P!writeVars = CP!Proxy!writeVars /\ P!endVars = CP!Proxy!endVars
  BY DEF P!peerVars, P!lineVars, P!writeVars, P!endVars,
         CP!Proxy!peerVars, CP!Proxy!lineVars, CP!Proxy!writeVars, CP!Proxy!endVars
<1>3. ASSUME NEW s \in P!Side, P!ReadToken(s)
      PROVE  CP!Proxy!ReadToken(s)
  BY <1>1, <1>3 DEF P!ReadToken, CP!Proxy!ReadToken, P!peerVars, P!lineVars, P!writeVars, P!endVars,
         CP!Proxy!peerVars, CP!Proxy!lineVars, CP!Proxy!writeVars, CP!Proxy!endVars
<1>4. ASSUME NEW s \in P!Side, P!EndSide(s)
      PROVE  CP!Proxy!EndSide(s)
  BY <1>1, <1>4 DEF P!EndSide, CP!Proxy!EndSide, P!peerVars, P!lineVars, P!writeVars, P!endVars,
         CP!Proxy!peerVars, CP!Proxy!lineVars, CP!Proxy!writeVars, CP!Proxy!endVars
<1>5. ASSUME NEW s \in P!Side, P!TakeLine(s)
      PROVE  CP!Proxy!TakeLine(s)
  BY <1>1, <1>5, SameReplaced DEF P!TakeLine, CP!Proxy!TakeLine, P!peerVars, P!lineVars, P!writeVars, P!endVars,
         CP!Proxy!peerVars, CP!Proxy!lineVars, CP!Proxy!writeVars, CP!Proxy!endVars
<1>6. ASSUME NEW s \in P!Side, NEW t \in Texts, P!Send(s, t)
      PROVE  CP!Proxy!Send(s, t)
  BY <1>6 DEF P!Send, CP!Proxy!Send, P!peerVars, P!lineVars, P!writeVars, P!endVars,
         CP!Proxy!peerVars, CP!Proxy!lineVars, CP!Proxy!writeVars, CP!Proxy!endVars
<1>7. ASSUME NEW s \in P!Side, P!Close(s)
      PROVE  CP!Proxy!Close(s)
  BY <1>7 DEF P!Close, CP!Proxy!Close, P!peerVars, P!lineVars, P!writeVars, P!endVars,
         CP!Proxy!peerVars, CP!Proxy!lineVars, CP!Proxy!writeVars, CP!Proxy!endVars
<1>8. P!WriteLine => CP!Proxy!WriteLine
  BY DEF P!WriteLine, CP!Proxy!WriteLine, P!peerVars, P!lineVars, P!writeVars, P!endVars,
         CP!Proxy!peerVars, CP!Proxy!lineVars, CP!Proxy!writeVars, CP!Proxy!endVars
<1>9. P!FailToWrite => CP!Proxy!FailToWrite
  BY DEF P!FailToWrite, CP!Proxy!FailToWrite, P!peerVars, P!lineVars, P!writeVars, P!endVars,
         CP!Proxy!peerVars, CP!Proxy!lineVars, CP!Proxy!writeVars, CP!Proxy!endVars
<1>. QED  BY <1>3, <1>4, <1>5, <1>6, <1>7, <1>8, <1>9 DEF P!Next, CP!Proxy!Next

LEMMA SameProxyAssumption == CP!Proxy!ProxyAssumption
<1>1. P!Token = CP!Proxy!Token
  BY DEF P!Token, CP!Proxy!Token
<1>. QED  BY <1>1, ProxyAssumption DEF P!ProxyAssumption, CP!Proxy!ProxyAssumption

(* The program behaves as the proxy does alone.                            *)
LEMMA ProxyAlone == Spec => CP!Proxy!Spec
<1>1. Init => CP!Proxy!Init
  BY SameSides DEF Init, P!Init, CP!Proxy!Init
<1>2. [Next]_serverVars => [CP!Proxy!Next]_(CP!Proxy!proxyVars)
  <2> SUFFICES ASSUME [Next]_serverVars PROVE [CP!Proxy!Next]_(CP!Proxy!proxyVars)
    OBVIOUS
  <2>1. CASE Proxy
    BY <2>1, SameProxyNext DEF Proxy, OnlyProxy
  <2>2. CASE ~Proxy
    <3>1. UNCHANGED proxyVars
      BY <2>2 DEF Next, serverVars, Choose, Versions, Sockets, Means, Database, Primes,
                  PestPeers, SpeedPeers, LrcpPackets, Sessions, OnlySessions
    <3>. QED
      BY <3>1 DEF proxyVars, CP!Proxy!proxyVars, CP!Proxy!peerVars, CP!Proxy!lineVars, CP!Proxy!writeVars, CP!Proxy!endVars
  <2>. QED  BY <2>1, <2>2
<1>. QED  BY <1>1, <1>2, PTL DEF Spec, CP!Proxy!Spec

(* In the program as well, each side of the proxy receives what the other  *)
(* one sent, whole lines in order, with every address rewritten that is a  *)
(* word, and nothing else, however the sides end and writes fail.          *)
THEOREM RelayedInProgram == Spec => []RelayedExactly
<1>1. CP!Proxy!Spec => []CP!Proxy!RelayedExactly
  BY SameProxyAssumption, CP!RelayCorrect
<1>2. CP!Proxy!RelayedExactly => RelayedExactly
  BY SameSides DEF RelayedExactly, P!RelayedExactly, P!Rewritten, P!WholeWord, P!InName,
         CP!Proxy!RelayedExactly, CP!Proxy!Rewritten, CP!Proxy!WholeWord, CP!Proxy!InName
<1>. QED  BY <1>1, <1>2, ProxyAlone, PTL

-----------------------------------------------------------------------------
(* The packets of LRCP.                                                    *)

(* L and CP!Wire are instances of the same definitions.                    *)
LEMMA SameFolds ==
  /\ \A data : L!Text(data) = CP!Wire!Text(data)
  /\ \A data : L!total_size(data) = CP!Wire!total_size(data)
  /\ \A d, content : L!Halve(d, content) = CP!Wire!Halve(d, content)
<1>1. \A data : L!Text(data) = CP!Wire!Text(data)
  BY DEF L!Text, L!FoldLeft, L!MapThenFoldSet, L!Max,
         CP!Wire!Text, CP!Wire!FoldLeft, CP!Wire!MapThenFoldSet, CP!Wire!Max
<1>2. \A data : L!total_size(data) = CP!Wire!total_size(data)
  BY DEF L!total_size, L!char_size, L!Special, L!FoldLeft, L!MapThenFoldSet, L!Max,
         CP!Wire!total_size, CP!Wire!char_size, CP!Wire!Special,
         CP!Wire!FoldLeft, CP!Wire!MapThenFoldSet, CP!Wire!Max
<1>3. \A d, content : L!Halve(d, content) = CP!Wire!Halve(d, content)
  BY DEF L!Halve, L!Front, L!FoldLeft, L!MapThenFoldSet, L!Max,
         CP!Wire!Halve, CP!Wire!Front, CP!Wire!FoldLeft, CP!Wire!MapThenFoldSet, CP!Wire!Max
<1>. QED  BY <1>1, <1>2, <1>3

LEMMA SameEscapes ==
  /\ \A data : L!escape_data(data) = CP!Wire!escape_data(data)
  /\ \A content : L!unescape_data(content) = CP!Wire!unescape_data(content)
  /\ \A content : L!Valid(content) <=> CP!Wire!Valid(content)
<1>1. \A d, data : L!Double(d, data) = CP!Wire!Double(d, data)
  BY SameFolds DEF L!Double, CP!Wire!Double
<1>2. \A data : L!escape_data(data) = CP!Wire!escape_data(data)
  BY <1>1 DEF L!escape_data, CP!Wire!escape_data
<1>3. \A content : L!unescape_data(content) = CP!Wire!unescape_data(content)
  BY SameFolds DEF L!unescape_data, CP!Wire!unescape_data
<1>4. \A content : L!Valid(content) <=> CP!Wire!Valid(content)
  BY <1>3, SameFolds DEF L!Valid, CP!Wire!Valid
<1>. QED  BY <1>2, <1>3, <1>4

LEMMA SameChunks == \A place, data : L!split_data(place, data) = CP!Wire!split_data(place, data)
BY DEF L!split_data, L!Chunks, L!TakeChar, L!char_size, L!Special,
       CP!Wire!split_data, CP!Wire!Chunks, CP!Wire!TakeChar, CP!Wire!char_size, CP!Wire!Special

LEMMA SamePackets ==
  /\ \A msg : L!serialize(msg) = CP!Wire!serialize(msg)
  /\ \A octets : L!parse(octets) = CP!Wire!parse(octets)
  /\ \A place, data : L!DataMessage(place, data) = CP!Wire!DataMessage(place, data)
<1>1. \A parts : L!Enclosed(parts) = CP!Wire!Enclosed(parts)
  BY SameFolds DEF L!Enclosed, CP!Wire!Enclosed
<1>2. \A msg : L!serialize(msg) = CP!Wire!serialize(msg)
  BY <1>1, SameEscapes DEF L!serialize, CP!Wire!serialize
<1>3. \A octets, numbers, last : L!Matches(octets, numbers, last) <=> CP!Wire!Matches(octets, numbers, last)
  BY DEF L!Matches, CP!Wire!Matches
<1>4. \A octets : L!parse(octets) = CP!Wire!parse(octets)
  BY <1>3, SameEscapes DEF L!parse, CP!Wire!parse
<1>5. \A place, data : L!DataMessage(place, data) = CP!Wire!DataMessage(place, data)
  BY DEF L!DataMessage, CP!Wire!DataMessage
<1>. QED  BY <1>2, <1>4, <1>5

LEMMA SameReadings == CP!Wire!PacketsReadBack => L!PacketsReadBack
<1>1. ASSUME CP!Wire!ReadInChunks
      PROVE  L!ReadInChunks
  <2>1. ASSUME NEW place \in {0, 7}
        PROVE  LET chunks == L!split_data(place, text)
                   got == [i \in DOMAIN chunks |->
                             L!parse(L!serialize(L!DataMessage(chunks[i].pos, chunks[i].data)))]
               IN /\ L!Text([i \in DOMAIN chunks |-> got[i].data]) = text
                  /\ \A i \in DOMAIN chunks :
                       /\ got[i].pos = IF i = 1 THEN place ELSE got[i-1].pos + Len(got[i-1].data)
                       /\ text # << >> => got[i].data # << >>
                       /\ Len(L!escape_data(got[i].data)) <= MaxSize
    <3> DEFINE chunks == L!split_data(place, text)
               got == [i \in DOMAIN chunks |->
                         L!parse(L!serialize(L!DataMessage(chunks[i].pos, chunks[i].data)))]
    <3>1. chunks = CP!Wire!split_data(place, text)
      BY SameChunks
    <3>2. got = [i \in DOMAIN chunks |-> CP!Wire!parse(CP!Wire!serialize(
                                           CP!Wire!DataMessage(chunks[i].pos, chunks[i].data)))]
      <4> HIDE DEF chunks
      <4>. QED  BY SamePackets
    <3>3. /\ CP!Wire!Text([i \in DOMAIN chunks |-> got[i].data]) = text
          /\ \A i \in DOMAIN chunks :
               /\ got[i].pos = IF i = 1 THEN place ELSE got[i-1].pos + Len(got[i-1].data)
               /\ text # << >> => got[i].data # << >>
               /\ Len(CP!Wire!escape_data(got[i].data)) <= MaxSize
      <4> DEFINE theirs == CP!Wire!split_data(place, text)
                 read == [i \in DOMAIN theirs |-> CP!Wire!parse(CP!Wire!serialize(
                                           CP!Wire!DataMessage(theirs[i].pos, theirs[i].data)))]
      <4>1. /\ CP!Wire!Text([i \in DOMAIN theirs |-> read[i].data]) = text
            /\ \A i \in DOMAIN theirs :
                 /\ read[i].pos = IF i = 1 THEN place ELSE read[i-1].pos + Len(read[i-1].data)
                 /\ text # << >> => read[i].data # << >>
                 /\ Len(CP!Wire!escape_data(read[i].data)) <= MaxSize
        BY <1>1 DEF CP!Wire!ReadInChunks
      <4> HIDE DEF chunks, got
      <4>2. chunks = theirs /\ got = read
        BY <3>1, <3>2, Zenon
      <4> HIDE DEF theirs, read
      <4>. QED  BY <4>1, <4>2
    <3> HIDE DEF chunks, got
    <3>4. /\ L!Text([i \in DOMAIN chunks |-> got[i].data]) = text
          /\ \A i \in DOMAIN chunks : Len(L!escape_data(got[i].data)) <= MaxSize
      BY <3>3, SameFolds, SameEscapes
    <3>. QED  BY <3>3, <3>4 DEF chunks, got
  <2>. QED  BY <2>1 DEF L!ReadInChunks
<1>2. L!Messages = CP!Wire!Messages
  BY SamePackets DEF L!Messages, CP!Wire!Messages
<1>3. L!Heads = CP!Wire!Heads
  BY DEF L!Heads, CP!Wire!Heads
<1>. QED  BY <1>1, <1>2, <1>3, SamePackets DEF L!PacketsReadBack, CP!Wire!PacketsReadBack

LEMMA SamePacketAssumption == CP!Wire!PacketAssumption
BY PacketAssumption DEF L!PacketAssumption, CP!Wire!PacketAssumption

(* The text of the program is typed as it is alone.                        *)
LEMMA PacketsAlone == Spec => CP!Wire!Spec
<1>1. Init => CP!Wire!Init
  BY DEF Init, L!Init, CP!Wire!Init
<1>2. [Next]_serverVars => [CP!Wire!Next]_text
  <2> SUFFICES ASSUME [Next]_serverVars PROVE [CP!Wire!Next]_text
    OBVIOUS
  <2>1. CASE LrcpPackets
    BY <2>1 DEF LrcpPackets, L!Next, L!Type, CP!Wire!Next, CP!Wire!Type
  <2>2. CASE ~LrcpPackets
    BY <2>2 DEF Next, serverVars, Choose, Versions, Proxy, OnlyProxy, Sockets, Means, Database,
                Primes, PestPeers, SpeedPeers, Sessions, OnlySessions
  <2>. QED  BY <2>1, <2>2
<1>. QED  BY <1>1, <1>2, PTL DEF Spec, CP!Wire!Spec

(* In the program as well, a peer reads every packet back, whatever its    *)
(* text, and a text from the chunks it is cut into; and only the packets   *)
(* that the server writes itself are read as messages.                     *)
THEOREM PacketsInProgram == Spec => []PacketsReadBack
<1>1. CP!Wire!Spec => []CP!Wire!PacketsReadBack
  BY SamePacketAssumption, CP!PacketsRead
<1>2. CP!Wire!PacketsReadBack => PacketsReadBack
  BY SameReadings DEF PacketsReadBack
<1>. QED  BY <1>1, <1>2, PacketsAlone, PTL
=============================================================================
