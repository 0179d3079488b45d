----------------------------- MODULE ByteFields -----------------------------
(***************************************************************************)
(* The fields of binary messages: what to_be_bytes and from_be_bytes do    *)
(* for numbers, and the encodings of strings and arrays that start with a  *)
(* length.  SpeedMessages and PestMessages are built of them.              *)
(*                                                                         *)
(* A type is the name of a number type, a domain of Size; "str"; or a      *)
(* sequence of types, for an array whose elements have these fields.       *)
(***************************************************************************)
EXTENDS Integers, SequencesExt

CONSTANTS
  Base,       \* values of a byte, 256 in the code
  Size,       \* the bytes of each type of number
  LengthType  \* the type of the length of a string or an array

FieldsAssumption ==
  /\ Base \in Nat \ {0, 1}
  /\ LengthType \in DOMAIN Size /\ \A type \in DOMAIN Size : Size[type] \in Nat \ {0}

Concat(parts) == FoldLeft(LAMBDA done, part : done \o part, <<>>, parts)

(* Mutant: the last byte only.                                             *)
ToBytesWhole(n, type) == [i \in 1..Size[type] |-> IF i = Size[type] THEN n % Base ELSE 0]

(* "as" cuts the number to the type.                                       *)
ToBytes(n, type) ==
  [i \in 1..Size[type] |-> (n \div Base ^ (Size[type] - i)) % Base]

IsNumber(type) == type \in DOMAIN Size

(* A simple field, and an element of an array.                             *)
Simple(value, type) ==
  IF type = "str" THEN ToBytes(Len(value), LengthType) \o value ELSE ToBytes(value, type)

Fields(values, types) == Concat([i \in DOMAIN types |-> Simple(values[i], types[i])])

Field(value, field) ==
  IF field.many
  THEN ToBytes(Len(value), LengthType)
         \o Concat([i \in DOMAIN value |-> Fields(value[i], field.types)])
  ELSE Simple(value, field.types[1])

(* A field of one value, and one that is an array.                         *)
One(type) == [many |-> FALSE, types |-> <<type>>]
Many(types) == [many |-> TRUE, types |-> types]

Content(values, layout) == Concat([i \in DOMAIN layout |-> Field(values[i], layout[i])])

-----------------------------------------------------------------------------
(* A reader is the place where reading goes on, and the values read before *)
(* it.  Reading something gives the set of the one reader that goes on     *)
(* after it, and no reader where the bytes are too few.                    *)
At(place) == {[next |-> place, values |-> <<>>]}

Take(bytes, from, n) == SubSeq(bytes, from, from + n - 1)
Enough(bytes, from, n) == from + n - 1 <= Len(bytes)

FromBytes(bytes) == FoldLeft(LAMBDA n, b : n * Base + b, 0, bytes)

ReadNumber(bytes, r, type) ==
  {[next |-> r.next + n, values |-> Append(r.values, FromBytes(Take(bytes, r.next, n)))] :
     n \in {m \in {Size[type]} : Enough(bytes, r.next, m)}}

ReadString(bytes, r) ==
  UNION {{[next |-> l.next + n, values |-> Append(r.values, Take(bytes, l.next, n))] :
            n \in {m \in {Last(l.values)} : Enough(bytes, l.next, m)}} :
           l \in ReadNumber(bytes, r, LengthType)}

ReadSimple(bytes, r, type) ==
  IF type = "str" THEN ReadString(bytes, r) ELSE ReadNumber(bytes, r, type)

ReadFields(bytes, readers, types) ==
  FoldLeft(LAMBDA rs, type : UNION {ReadSimple(bytes, r, type) : r \in rs}, readers, types)

(* An array is read element by element, until one fails.                   *)
ReadElement(bytes, r, types) ==
  {[next |-> e.next, values |-> Append(r.values, e.values)] :
     e \in ReadFields(bytes, At(r.next), types)}

ReadElements(bytes, readers, types, n) ==
  FoldLeft(LAMBDA rs, i : UNION {ReadElement(bytes, r, types) : r \in rs},
           readers, [i \in 1..n |-> i])

ReadArray(bytes, r, types) ==
  UNION {{[next |-> a.next, values |-> Append(r.values, a.values)] :
            a \in ReadElements(bytes, At(l.next), types, Last(l.values))} :
           l \in ReadNumber(bytes, r, LengthType)}

ReadField(bytes, r, field) ==
  IF field.many THEN ReadArray(bytes, r, field.types)
  ELSE ReadSimple(bytes, r, field.types[1])

ReadContent(bytes, readers, layout) ==
  FoldLeft(LAMBDA rs, field : UNION {ReadField(bytes, r, field) : r \in rs}, readers, layout)
=============================================================================
