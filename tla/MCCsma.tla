------------------------------- MODULE MCCsma -------------------------------
(* Three nodes, three backoff ranges.                                        *)
EXTENDS Csma, TLC

CONSTANTS n1, n2, n3

MCNodes == {n1, n2, n3}
MCR == <<1, 2, 4>>
Sym == Permutations(MCNodes)

=============================================================================
