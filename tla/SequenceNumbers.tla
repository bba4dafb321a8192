-------------------------- MODULE SequenceNumbers --------------------------
(***************************************************************************)
(* The numbers UDP packages carry: uint16_t, which wraps around.           *)
(***************************************************************************)
EXTENDS Integers

CONSTANT Half   \* half of the range of the numbers: 2^15 in the code

ASSUME HalfAssumption == Half \in Nat \ {0}

Modulus == Half + Half

Numbers == 0 .. Modulus - 1

\* seq + 1
Increment(seq) == IF seq + 1 = Modulus THEN 0 ELSE seq + 1

\* static_cast<uint16_t>(a - b)
Minus(a, b) == IF a >= b THEN a - b ELSE a - b + Modulus
=============================================================================
