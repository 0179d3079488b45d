-------------------------------- MODULE Means --------------------------------
(***************************************************************************)
(* Problem 2, means to an end (src/src/p2_means.rs).                       *)
(*                                                                         *)
(* A connection is a thread with its own prices.  A message of a client is *)
(* an action and two numbers of Bytes bytes: insert a price at a time, or  *)
(* ask for the mean of the prices between two times.  I32 converts numbers *)
(* by hand, with the sign in the first bit of the first byte.              *)
(***************************************************************************)
EXTENDS Integers, SequencesExt

CONSTANTS
  Width,     \* bits of a byte, 8 in the code
  Bytes,     \* bytes of a number, 4 in the code
  Time,      \* the times and prices of the messages, integers
  Price,
  MaxInserts \* bound: prices inserted

Half == 2 ^ (Width * Bytes - 1)
Numbers == (-Half)..(Half - 1)

MeansAssumption ==
  /\ Width \in Nat \ {0} /\ Bytes \in Nat \ {0}
  /\ Time \union Price \subseteq Numbers

VARIABLES
  pricings,  \* the prices by time
  inserts,   \* the pairs of a time and a price inserted so far, in order
  query,     \* the two times of the last query
  response,  \* the bytes written in answer to it, none before
  finished   \* the thread has ended

meansVars == <<pricings, inserts, query, response, finished>>

Init ==
  /\ pricings = <<>> /\ inserts = <<>>
  /\ query = <<>> /\ response = <<>>
  /\ finished = FALSE

-----------------------------------------------------------------------------
(* I32.                                                                    *)

(* 2 to the bits on the right of byte i.                                   *)
Weight(i) == 2 ^ (Width * (Bytes - i))
Sign == 2 ^ (Width - 1)

to_bytes(val) ==
  LET value == IF val < 0 THEN val + Half ELSE val
      byte(i) == (value \div Weight(i)) % 2 ^ Width
  IN  [i \in 1..Bytes |-> IF i = 1 /\ val < 0 THEN (byte(i) + Sign) % 2 ^ Width ELSE byte(i)]

(* Mutant: the sign is a digit.                                            *)
parseUnsigned(bytes) ==
  FoldLeft(LAMBDA sum, i : sum + Weight(i) * bytes[i], 0, [i \in 1..Bytes |-> i])

parse(bytes) ==
  LET value == FoldLeft(LAMBDA sum, i : sum + Weight(i) *
                          (IF i = 1 THEN bytes[i] % Sign ELSE bytes[i]),
                        0, [i \in 1..Bytes |-> i])
  IN  IF bytes[1] >= Sign THEN value - Half ELSE value

(* What a client writes for a number, and reads in an answer.              *)
Complement(val) == [i \in 1..Bytes |-> (val \div Weight(i)) % 2 ^ Width]

-----------------------------------------------------------------------------
(* The message loop.                                                       *)

Insert(time, price) ==
  /\ ~finished /\ Len(inserts) < MaxInserts
  /\ LET at == parse(Complement(time)) IN
     pricings' = [t \in DOMAIN pricings \union {at} |->
                    IF t = at THEN parse(Complement(price)) ELSE pricings[t]]
  /\ inserts' = Append(inserts, <<time, price>>)
  /\ query' = <<>> /\ response' = <<>>
  /\ UNCHANGED finished

(* Mutant: an integer division.                                            *)
RoundedDown(sum, count) == sum \div count

(* f64::round: halves go away from zero.                                   *)
Rounded(sum, count) ==
  IF sum >= 0 THEN (2 * sum + count) \div (2 * count)
  ELSE -((count - 2 * sum) \div (2 * count))

Query(mintime, maxtime) ==
  /\ ~finished
  /\ LET range == {t \in DOMAIN pricings :
                     parse(Complement(mintime)) <= t /\ t <= parse(Complement(maxtime))}
         times == SetToSortSeq(range, <)
         sum == FoldLeft(LAMBDA acc, t : acc + pricings[t], 0, times)
     IN  response' = to_bytes(IF times = <<>> THEN 0 ELSE Rounded(sum, Len(times)))
  /\ query' = <<mintime, maxtime>>
  /\ UNCHANGED <<pricings, inserts, finished>>

(* Any other action, and the end of the input, end the thread.             *)
Invalid ==
  /\ ~finished /\ finished' = TRUE
  /\ UNCHANGED <<pricings, inserts, query, response>>

Next ==
  \/ \E time \in Time, price \in Price : Insert(time, price)
  \/ \E mintime, maxtime \in Time : Query(mintime, maxtime)
  \/ Invalid

Spec == Init /\ [][Next]_meansVars
-----------------------------------------------------------------------------
TypeOK ==
  /\ DOMAIN pricings \subseteq Numbers /\ \A t \in DOMAIN pricings : pricings[t] \in Numbers
  /\ inserts \in Seq(Time \X Price) /\ finished \in BOOLEAN
  /\ query \in {<<>>} \union (Time \X Time)
  /\ response \in {<<>>} \union [1..Bytes -> 0..(2 ^ Width - 1)]

(* The bytes written are the two's complement of the mean of the prices    *)
(* that were last inserted for the times of the query, rounded to the      *)
(* nearest integer and halves away from zero, for negative prices and      *)
(* times as well, up to the ends of the range of a number; and of 0 when   *)
(* there are none.                                                         *)
LastAt(i) == \A j \in DOMAIN inserts : inserts[j][1] = inserts[i][1] => j <= i
MeanAnswered ==
  query # <<>> =>
    LET asked == SelectSeq([i \in DOMAIN inserts |-> i],
                   LAMBDA i : /\ query[1] <= inserts[i][1] /\ inserts[i][1] <= query[2]
                              /\ LastAt(i))
        count == Len(asked)
        sum == FoldLeft(LAMBDA acc, i : acc + inserts[i][2], 0, asked)
    IN  \E mean \in Numbers :
          /\ response = Complement(mean)
          /\ IF count = 0 THEN mean = 0
             ELSE LET off == IF sum >= 0 THEN mean * count - sum ELSE sum - mean * count
                  IN  -count < 2 * off /\ 2 * off <= count
=============================================================================
