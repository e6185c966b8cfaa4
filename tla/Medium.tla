------------------------------- MODULE Medium -------------------------------
(* What carrier sensing promises, with no backoffs and no collisions: a    *)
(* station that gets the channel holds it for Hold slots without a gap and *)
(* alone, and only then counts a success.                                  *)
EXTENDS Integers

CONSTANTS Nodes, None, Hold

VARIABLES
    holder,     \* the station that has the channel
    held,       \* slots it has had it for
    done        \* successes of each station

Init ==
    /\ holder = None /\ held = 0
    /\ done = [n \in Nodes |-> 0]

Acquire(n) ==
    /\ holder = None
    /\ holder' = n /\ held' = 1
    /\ UNCHANGED done

Keep ==
    /\ holder # None /\ held < Hold
    /\ held' = held + 1
    /\ UNCHANGED <<holder, done>>

Release ==
    /\ holder # None /\ held = Hold
    /\ done' = [done EXCEPT ![holder] = @ + 1]
    /\ holder' = None /\ held' = 0

Next == (\E n \in Nodes : Acquire(n)) \/ Keep \/ Release

Spec == Init /\ [][Next]_<<holder, held, done>>

=============================================================================
