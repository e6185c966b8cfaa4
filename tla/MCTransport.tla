---------------------------- MODULE MCTransport -----------------------------
(* Values for the constants of Transport: numerals in base Base and a file *)
(* of letters, except for the bytes in DigitAt.                            *)
EXTENDS Transport, Decimal

CONSTANTS Letter, DigitAt

NumeralText == [n \in 1..MaxNumber |-> Numeral[n]]
File == [i \in 1..bytesToTransfer |-> IF i \in DigitAt THEN 0 ELSE Letter]

=============================================================================
