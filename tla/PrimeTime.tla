------------------------------ MODULE PrimeTime ------------------------------
(***************************************************************************)
(* Problem 1, prime time (src/src/p1_prime.rs): a connection is a thread   *)
(* that answers whether the number of a request is prime, request by       *)
(* request, until one is malformed.                                        *)
(*                                                                         *)
(* A number is an f64, here a multiple of one half; u64 has Width bits.    *)
(* Beyond its range every f64 is an even integer, and so is the f64 that   *)
(* u64::MAX is rounded to.                                                 *)
(***************************************************************************)
EXTENDS Integers, Sequences

CONSTANTS
  Width,      \* of a u64, 64 in the code
  Number,     \* the numbers of the requests, in halves
  MaxRequests \* bound: requests

MaxU64 == 2 ^ Width - 1

(* u64::MAX is divisible by 3, and so no prime.                            *)
NumberAssumption ==
  /\ MaxU64 \in Nat /\ MaxU64 > 3 /\ MaxU64 % 3 = 0
  /\ \A x \in Number : x \in Int /\ (x >= 2 * MaxU64 => x % 4 = 0)

VARIABLES
  lines,      \* the numbers of the well-formed requests answered
  outputs,    \* the answers written
  stopped     \* a malformed request, or the end of the input, was read

primeVars == <<lines, outputs, stopped>>

Init == lines = <<>> /\ outputs = <<>> /\ stopped = FALSE

(* primes::is_prime, of the library.                                       *)
Prime(n) == n > 1 /\ \A d \in 2..(n - 1) : n % d # 0

(* "as u64" stops at u64::MAX.                                             *)
Ceil(x) == (x + 1) \div 2
AsU64(n) == IF n > MaxU64 THEN MaxU64 ELSE n
AsF64(y) == IF y = MaxU64 THEN 2 * (y + 1) ELSE 2 * y

(* Mutant: the number that is cast is not compared.                        *)
is_primeOfCast(x) == x >= 0 /\ Prime(AsU64(Ceil(x)))

is_prime(x) ==
  /\ x >= 0
  /\ LET y == AsU64(Ceil(x)) IN AsF64(y) = x /\ Prime(y)

Answer(x) ==
  /\ ~stopped /\ Len(lines) < MaxRequests
  /\ lines' = Append(lines, x)
  /\ outputs' = Append(outputs, is_prime(x))
  /\ UNCHANGED stopped

(* A malformed request is not answered.                                    *)
Malformed ==
  /\ ~stopped /\ stopped' = TRUE
  /\ UNCHANGED <<lines, outputs>>

Next == (\E x \in Number : Answer(x)) \/ Malformed

Spec == Init /\ [][Next]_primeVars
-----------------------------------------------------------------------------
TypeOK == lines \in Seq(Number) /\ outputs \in Seq(BOOLEAN) /\ stopped \in BOOLEAN

(* Every request answered is answered in its place, and exactly the whole  *)
(* numbers that are prime are called so: also negative numbers, fractions, *)
(* and numbers beyond the range of u64, of which the first one is taken    *)
(* for u64::MAX, and that is divisible by 3.                               *)
PrimesTold ==
  /\ Len(outputs) = Len(lines)
  /\ \A i \in DOMAIN lines :
       outputs[i] = \E n \in 2..lines[i] : /\ lines[i] = 2 * n
                                          /\ \A a, b \in 2..(n - 1) : a * b # n
=============================================================================
