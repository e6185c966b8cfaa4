------------------------------ MODULE Decimal ------------------------------
(* The numerals that sprintf("%llu") puts into datagrams, as sequences of  *)
(* digits.  The programs write base 10; the base is a parameter so that a  *)
(* small instance can have numerals of several widths.                     *)
EXTENDS Integers, Sequences

CONSTANT Base

ASSUME BaseAssumption == Base \in Nat \ {0, 1}

Digit == 0..(Base - 1)

(* Numeral[n] is n written in base Base without leading zeros.             *)
Numeral[n \in Nat] ==
    IF n < Base THEN <<n>> ELSE Append(Numeral[n \div Base], n % Base)

============================================================================
