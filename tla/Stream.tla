------------------------------- MODULE Stream -------------------------------
(* What a file transfer promises, with no network and no window: the       *)
(* receiver's file grows at its end by the next bytes of the source, the   *)
(* sender learns of delivered bytes only, and the file is closed when all  *)
(* of it is there.                                                         *)
EXTENDS Integers, Sequences

CONSTANT Length     \* bytes to be transferred

VARIABLES delivered, confirmed, closed

Init ==
    /\ delivered = <<>>
    /\ confirmed = 0
    /\ closed = FALSE

Deliver ==
    /\ ~closed
    /\ \E n \in Len(delivered)..Length : delivered' = [i \in 1..n |-> i]
    /\ UNCHANGED <<confirmed, closed>>

Confirm ==
    /\ \E n \in confirmed..Len(delivered) : confirmed' = n
    /\ UNCHANGED <<delivered, closed>>

Close ==
    /\ Len(delivered) = Length
    /\ closed' = TRUE
    /\ UNCHANGED <<delivered, confirmed>>

Next == Deliver \/ Confirm \/ Close

Spec == Init /\ [][Next]_<<delivered, confirmed, closed>>

=============================================================================
