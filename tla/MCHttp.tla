------------------------------- MODULE MCHttp -------------------------------
(* A file that begins with line ends, as the end of a header does.         *)
EXTENDS Http

CONSTANTS c1, c2

MCClients == {c1, c2}
MCKillable == {c1}
MCFile == <<CR, LF, "x">>

=============================================================================
