-------------------------------- MODULE Csma --------------------------------
(* The CSMA simulation of mp4 (csma.cpp).  One pass of its loop over the   *)
(* slots first ends a transmission whose bits are all sent and then does   *)
(* what the channel's state asks for; phase says which of the two is next. *)
(* rand() may return anything.                                             *)
EXTENDS Integers, Sequences, FiniteSets, Functions

CONSTANTS
    Nodes,    \* the N stations
    L,        \* slots that follow the first one of a transmission
    M,        \* collisions after which a packet's backoff starts again
    R,        \* R[1..M]: the backoff ranges
    T,        \* number of slots
    None      \* no node (-1 in the code)

ASSUME CsmaAssumption ==
    /\ L \in Nat \ {0} /\ M \in Nat \ {0} /\ T \in Nat
    /\ R \in Seq(Nat) /\ Len(R) >= M
    /\ IsFiniteSet(Nodes) /\ None \notin Nodes

VARIABLES
    phase, slot,
    backoffs, nodes_r_idx, collision_counts,
    channelBusy, pkt_bits_sent, node_sending,
    utilized, idle, total_collisions,
    good_transmissions, total_transmissions, collisions_per_node,
    report    \* what is written to output.txt, None before

contention == <<backoffs, nodes_r_idx, collision_counts>>
channel == <<channelBusy, pkt_bits_sent, node_sending>>
slotCounts == <<utilized, idle, total_collisions>>
nodeCounts == <<good_transmissions, total_transmissions, collisions_per_node>>
vars == <<phase, slot, contention, channel, slotCounts, nodeCounts, report>>

Zero == [n \in Nodes |-> 0]

(* The backoff range of a node; the C++ vector r starts at 0.              *)
Range0(idx) == 0..R[idx + 1]

Init ==
    /\ phase = "complete" /\ slot = 0
    /\ nodes_r_idx = Zero /\ collision_counts = Zero
    /\ backoffs \in [Nodes -> Range0(0)]
    /\ channelBusy = FALSE /\ pkt_bits_sent = 0 /\ node_sending = None
    /\ utilized = 0 /\ idle = 0 /\ total_collisions = 0
    /\ good_transmissions = Zero
    /\ total_transmissions = Zero
    /\ collisions_per_node = Zero
    /\ report = None

(* Mutant: the end of a transmission is found one slot early.              *)
SentEarly == channelBusy /\ pkt_bits_sent = L - 1

Sent == pkt_bits_sent = L

(* Mutant: the sender is not forgotten.                                    *)
FreeChannelOnly == pkt_bits_sent' = 0 /\ channelBusy' = FALSE /\ UNCHANGED node_sending

FreeChannel == pkt_bits_sent' = 0 /\ channelBusy' = FALSE /\ node_sending' = None

Complete ==
    /\ phase = "complete" /\ slot < T
    /\ Sent
    /\ good_transmissions' = [good_transmissions EXCEPT ![node_sending] = @ + 1]
    /\ collision_counts' = [collision_counts EXCEPT ![node_sending] = 0]
    /\ nodes_r_idx' = [nodes_r_idx EXCEPT ![node_sending] = 0]
    /\ \E b \in Range0(0) : backoffs' = [backoffs EXCEPT ![node_sending] = b]
    /\ FreeChannel
    /\ phase' = "channel"
    /\ UNCHANGED <<slot, slotCounts, total_transmissions, collisions_per_node, report>>

NotComplete ==
    /\ phase = "complete" /\ slot < T
    /\ ~Sent
    /\ phase' = "channel"
    /\ UNCHANGED <<slot, contention, channel, slotCounts, nodeCounts, report>>

(* Mutant: ready one slot late.                                            *)
nodeReadyLate == {n \in Nodes : backoffs[n] < 0}

nodeReady == {n \in Nodes : backoffs[n] = 0}

EndSlot ==
    /\ phase = "channel" /\ phase' = "complete"
    /\ slot' = slot + 1
    /\ UNCHANGED report

(* Mutant: backoffs run down while the channel is busy.                    *)
BusySlotRunsDown ==
    /\ EndSlot
    /\ channelBusy
    /\ pkt_bits_sent' = pkt_bits_sent + 1
    /\ utilized' = utilized + 1
    /\ backoffs' = [n \in Nodes |-> IF backoffs[n] > 0 THEN backoffs[n] - 1 ELSE 0]
    /\ UNCHANGED <<nodes_r_idx, collision_counts, channelBusy, node_sending,
                   idle, total_collisions, nodeCounts>>

BusySlot ==
    /\ EndSlot
    /\ channelBusy
    /\ pkt_bits_sent' = pkt_bits_sent + 1
    /\ utilized' = utilized + 1
    /\ UNCHANGED <<contention, channelBusy, node_sending, idle,
                   total_collisions, nodeCounts>>

(* A node that collided goes on to its next range or, with the M-th        *)
(* collision of its packet, back to the first one, and draws again.        *)
nextIdx(n) == IF collision_counts[n] + 1 >= M THEN 0 ELSE (nodes_r_idx[n] + 1) % M

(* Mutant: the count is not reset with the M-th collision.                 *)
nextCountForever(n) == collision_counts[n] + 1

nextCount(n) == IF collision_counts[n] + 1 >= M THEN 0 ELSE collision_counts[n] + 1

(* Mutant: the backoff is drawn before the range is changed.               *)
DrawRangeStale(n) == Range0(nodes_r_idx[n])

DrawRange(n) == Range0(nextIdx(n))

(* Mutant: a single ready node collides.                                   *)
CollidesAlone == Cardinality(nodeReady) >= 1

Collides == Cardinality(nodeReady) > 1

Collision ==
    /\ EndSlot
    /\ ~channelBusy /\ Collides
    /\ total_collisions' = total_collisions + 1
    /\ collisions_per_node' = [n \in Nodes |->
           collisions_per_node[n] + (IF n \in nodeReady THEN 1 ELSE 0)]
    /\ collision_counts' = [n \in Nodes |->
           IF n \in nodeReady THEN nextCount(n) ELSE collision_counts[n]]
    /\ nodes_r_idx' = [n \in Nodes |->
           IF n \in nodeReady THEN nextIdx(n) ELSE nodes_r_idx[n]]
    /\ \E b \in [nodeReady -> UNION {DrawRange(n) : n \in nodeReady}] :
          /\ \A n \in nodeReady : b[n] \in DrawRange(n)
          /\ backoffs' = [n \in Nodes |-> IF n \in nodeReady THEN b[n] ELSE backoffs[n]]
    /\ UNCHANGED <<channel, utilized, idle, good_transmissions, total_transmissions>>

IdleSlot ==
    /\ EndSlot
    /\ ~channelBusy /\ nodeReady = {}
    /\ backoffs' = [n \in Nodes |-> backoffs[n] - 1]
    /\ idle' = idle + 1
    /\ UNCHANGED <<nodes_r_idx, collision_counts, channel, utilized,
                   total_collisions, nodeCounts>>

(* Mutant: the first slot of a transmission is not counted.                *)
StartTransmissionUncounted ==
    /\ EndSlot
    /\ ~channelBusy
    /\ \E n \in Nodes :
          /\ nodeReady = {n}
          /\ node_sending' = n
          /\ total_transmissions' = [total_transmissions EXCEPT ![n] = @ + 1]
    /\ channelBusy' = TRUE
    /\ UNCHANGED <<contention, pkt_bits_sent, slotCounts,
                   good_transmissions, collisions_per_node>>

StartTransmission ==
    /\ EndSlot
    /\ ~channelBusy
    /\ \E n \in Nodes :
          /\ nodeReady = {n}
          /\ node_sending' = n
          /\ total_transmissions' = [total_transmissions EXCEPT ![n] = @ + 1]
    /\ channelBusy' = TRUE
    /\ utilized' = utilized + 1
    /\ UNCHANGED <<contention, pkt_bits_sent, idle, total_collisions,
                   good_transmissions, collisions_per_node>>

(* Mutant: the mean of integers is rounded down.                           *)
calcVarianceRounded(vec) ==
    LET size == Cardinality(Nodes)
        mean == SumFunction(vec) \div size
    IN  size * size * SumFunction([n \in Nodes |-> (vec[n] - mean) * (vec[n] - mean)])

(* Times the cube of the number of stations: nothing is rounded.           *)
calcVariance(vec) ==
    LET size == Cardinality(Nodes)
        sum == SumFunction(vec)
    IN  SumFunction([n \in Nodes |-> (size * vec[n] - sum) * (size * vec[n] - sum)])

(* The shares of utilized and idle slots are of T.                         *)
Report ==
    /\ phase = "complete" /\ slot = T /\ report = None
    /\ report' = [utilized |-> utilized, idle |-> idle,
                  collisions |-> total_collisions,
                  successful_variance |-> calcVariance(good_transmissions),
                  collision_variance |-> calcVariance(collisions_per_node)]
    /\ UNCHANGED <<phase, slot, contention, channel, slotCounts, nodeCounts>>

Next ==
    Complete \/ NotComplete \/ BusySlot \/ Collision \/ IdleSlot
    \/ StartTransmission \/ Report

Spec == Init /\ [][Next]_vars

-----------------------------------------------------------------------------
(* Properties                                                              *)

(* Every variable of the simulation has its type.                          *)
TypeOK ==
    /\ phase \in {"complete", "channel"} /\ slot \in 0..T
    /\ backoffs \in [Nodes -> Nat]
    /\ nodes_r_idx \in [Nodes -> 0..(M - 1)]
    /\ collision_counts \in [Nodes -> 0..(M - 1)]
    /\ channelBusy \in BOOLEAN /\ pkt_bits_sent \in 0..L
    /\ node_sending \in Nodes \cup {None}
    /\ utilized \in Nat /\ idle \in Nat /\ total_collisions \in Nat
    /\ good_transmissions \in [Nodes -> Nat]
    /\ total_transmissions \in [Nodes -> Nat]
    /\ collisions_per_node \in [Nodes -> Nat]

(* Every slot is counted as exactly one of utilized, idle and collision:   *)
(* the percentages written to output.txt are shares of T.                  *)
SlotsAccounted == utilized + idle + total_collisions = slot

(* The utilized slots are L + 1 for each good transmission and those of    *)
(* the transmission under way.                                             *)
UtilizedByTransmissions ==
    utilized = (L + 1) * SumFunction(good_transmissions)
               + (IF channelBusy THEN pkt_bits_sent + 1 ELSE 0)

(* While the channel is busy the sender alone has no backoff left, so that *)
(* the slot in which its transmission ends cannot be a collision.          *)
OneSender ==
    IF channelBusy
    THEN node_sending \in Nodes /\ nodeReady = {node_sending}
    ELSE node_sending = None /\ pkt_bits_sent = 0

(* A backoff never leaves the range it was drawn from: it is not           *)
(* decremented below zero, nor kept over a change of range.                *)
BackoffInRange == \A n \in Nodes : backoffs[n] \in Range0(nodes_r_idx[n])

(* The range in use is given by the collisions of the current packet, and  *)
(* falls back to the first after the M-th (the index is kept modulo M, the *)
(* count reset by a separate test).                                        *)
RangeFollowsCollisions == nodes_r_idx = collision_counts

(* Every collision is one of two nodes at least, and no collision that is  *)
(* counted for a node goes uncounted for the channel.                      *)
CollisionsShared ==
    LET shares == SumFunction(collisions_per_node)
    IN  /\ shares >= 2 * total_collisions
        /\ shares <= Cardinality(Nodes) * total_collisions

(* Every attempt of a station is a success or the transmission under way:  *)
(* one that has got the channel is not lost, nor counted twice, though the *)
(* start, the bits and the end are counted in different slots.             *)
AttemptsAccounted ==
    \A n \in Nodes :
        total_transmissions[n] =
            good_transmissions[n] + (IF node_sending = n THEN 1 ELSE 0)

(* The figures in output.txt belong together: the shares of the slots and  *)
(* the collisions make up the run, and each variance is what it is by      *)
(* another formula, from the differences of all pairs of stations.         *)
ReportAddsUp ==
    LET spread(vec) == SumFunction([p \in Nodes \X Nodes |->
                           (vec[p[1]] - vec[p[2]]) * (vec[p[1]] - vec[p[2]])])
    IN  report # None =>
            /\ report.utilized + report.idle + report.collisions = T
            /\ 2 * report.successful_variance =
                   Cardinality(Nodes) * spread(good_transmissions)
            /\ 2 * report.collision_variance =
                   Cardinality(Nodes) * spread(collisions_per_node)

(* The channel is a medium that one station holds for L + 1 slots at a     *)
(* time, the first in the slot that finds it ready; what comes between are *)
(* collisions and idle slots.                                              *)
Channel == INSTANCE Medium WITH Hold <- L + 1,
                                holder <- node_sending,
                                held <- IF channelBusy THEN pkt_bits_sent + 1 ELSE 0,
                                done <- good_transmissions
IsMedium == Channel!Spec

=============================================================================
