------------------------------- MODULE DistVec -------------------------------
(* distvec (mp3/src/distvec.cpp): the tables of all nodes by the algorithm *)
(* of Bellman and Ford, one action for each edge.  Each node's copies of   *)
(* the other nodes' vectors are left out: nothing reads them.              *)
EXTENDS Topology

VARIABLES
    i,            \* the round
    todo          \* edges that the round has still to look at

NoHop == -1

(* initDistanceVectors, for all nodes                                      *)
InitDistanceVectors ==
    /\ pc = "init"
    /\ distance_vectors' = [u \in Routers |-> [v \in Routers |->
           IF u = v \/ {u, v} \cap nodes # {u, v} THEN 0
           ELSE IF <<u, v>> \in DOMAIN edge_cost THEN edge_cost[<<u, v>>] ELSE Infinity]]
    /\ nextHops' = [u \in Routers |-> [v \in Routers |->
           IF {u, v} \cap nodes # {u, v} THEN NoNode
           ELSE IF u = v \/ <<u, v>> \in DOMAIN edge_cost THEN v ELSE NoHop]]
    /\ node' = Min(nodes) /\ i' = 0 /\ todo' = DOMAIN edge_cost
    /\ pc' = "source"
    /\ UNCHANGED network

(* The order of std::map's keys.                                           *)
Before(p, q) == p[1] < q[1] \/ (p[1] = q[1] /\ p[2] < q[2])

(* Mutant: the next hop is the node before the last.                       *)
HopOverPredecessor(u) == u

HopOver(u) == nextHops[node][u]

(* Mutant: a node at no distance yet is not left out.                      *)
UpdateDistanceVectorUnguarded(u, v) ==
    LET cost == Plus(Row[u], edge_cost[<<u, v>>])
    IN  IF Row[v] > cost
        THEN /\ distance_vectors' = [distance_vectors EXCEPT ![node][v] = cost]
             /\ nextHops' = [nextHops EXCEPT ![node][v] = HopOver(u)]
        ELSE UNCHANGED tables

UpdateDistanceVector(u, v) ==
    LET cost == Plus(Row[u], edge_cost[<<u, v>>])
    IN  IF Row[v] > cost /\ Row[u] # Infinity
        THEN /\ distance_vectors' = [distance_vectors EXCEPT ![node][v] = cost]
             /\ nextHops' = [nextHops EXCEPT ![node][v] = HopOver(u)]
        ELSE UNCHANGED tables

NextEdge ==
    /\ pc = "source"
    /\ \E p \in todo :
          /\ \A q \in todo \ {p} : Before(p, q)
          /\ todo' = todo \ {p}
          /\ UpdateDistanceVector(p[1], p[2])
    /\ UNCHANGED <<pc, network, node, i>>

Rounds == Cardinality(nodes) - 1

(* Mutant: a round may leave its last edge out.                            *)
NextRoundEarly ==
    /\ pc = "source" /\ Cardinality(todo) <= 1
    /\ i + 1 < Rounds
    /\ i' = i + 1 /\ todo' = DOMAIN edge_cost
    /\ UNCHANGED <<pc, network, tables, node>>

NextRound ==
    /\ pc = "source" /\ todo = {}
    /\ i + 1 < Rounds
    /\ i' = i + 1 /\ todo' = DOMAIN edge_cost
    /\ UNCHANGED <<pc, network, tables, node>>

EndUpdate ==
    /\ pc = "source" /\ todo = {}
    /\ i + 1 >= Rounds
    /\ NextNode
    /\ i' = 0 /\ todo' = IF Later = {} THEN {} ELSE DOMAIN edge_cost
    /\ UNCHANGED <<network, tables>>

DistVecNext == InitDistanceVectors \/ NextEdge \/ NextRound \/ EndUpdate

=============================================================================
