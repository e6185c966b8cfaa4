------------------------------ MODULE LinkState -----------------------------
(* linkstate (mp3/src/linkstate.cpp): the tables of all nodes by Dijkstra's *)
(* algorithm, one action for each pass of its loop.  A row of the maps that *)
(* operator[] would insert for an unknown node is there from the start,    *)
(* with the value 0 it is inserted with.                                   *)
EXTENDS Topology

VARIABLE N        \* nodes whose distance is final; {} before dijkstra(node)

(* initNextHops                                                            *)
InitNextHops ==
    /\ pc = "init"
    /\ nextHops' = [u \in Routers |-> [v \in Routers |->
           IF u \in nodes /\ v \in nodes /\ (v = u \/ v \in adj_list[u])
           THEN v ELSE NoNode]]
    /\ node' = Min(nodes) /\ N' = {}
    /\ pc' = "source"
    /\ UNCHANGED <<network, distance_vectors>>

BeginDijkstra ==
    /\ pc = "source" /\ N = {}
    /\ N' = {node}
    /\ distance_vectors' = [distance_vectors EXCEPT ![node] = [v \in Routers |->
           IF v = node \/ v \notin nodes THEN 0
           ELSE IF v \in adj_list[node] THEN edge_cost[<<node, v>>] ELSE Infinity]]
    /\ UNCHANGED <<pc, network, nextHops, node>>

(* Mutant: the first node that is left, whatever its cost.                 *)
findLowestCostNodeFirst == {Min(nodes \ N)}

(* The lowest node of least cost; if no cost is below INT_MAX, whatever    *)
(* the uninitialised min_cost_node is.                                     *)
findLowestCostNode ==
    LET left == nodes \ N
        least == {w \in left : Row[w] < Infinity /\ \A u \in left : Row[w] <= Row[u]}
    IN  IF least = {} THEN left ELSE {Min(least)}

(* getShortestPathHelper: the walk along the next hops as far as they are  *)
(* known, and the node from which it comes to dest.  It fails at a node    *)
(* without a next hop and on its second visit to a node.                   *)
Helper(src, dest) ==
    LET at[k \in 0..Cardinality(nodes)] ==
            IF k = 0 THEN src
            ELSE IF at[k - 1] \in {NoNode, dest} THEN at[k - 1]
                 ELSE nextHops[at[k - 1]][dest]
    IN  at

HelperFails(src, dest) == Helper(src, dest)[Cardinality(nodes)] # dest

LastHop(src, dest) ==
    LET at == Helper(src, dest)
    IN  at[Max({k \in DOMAIN at : at[k] # dest})]

NewCost(w, v) == Plus(Row[w], edge_cost[<<w, v>>])

(* The path over w is shorter, or as short and the one in use comes to v   *)
(* from no lower node.                                                     *)
BetterHop(w, v) ==
    /\ NewCost(w, v) > 0
    /\ \/ NewCost(w, v) < Row[v]
       \/ /\ NewCost(w, v) = Row[v]
          /\ HelperFails(node, v) \/ LastHop(node, v) >= w

BetterCost(w, v) == NewCost(w, v) < Row[v] /\ NewCost(w, v) > 0

Settle ==
    /\ pc = "source" /\ N # {} /\ N # nodes
    /\ \E w \in findLowestCostNode :
          LET relaxed == adj_list[w] \ (N \cup {w})
          IN  /\ N' = N \cup {w}
              /\ distance_vectors' = [distance_vectors EXCEPT ![node] = [v \in Routers |->
                     IF v \in relaxed /\ BetterCost(w, v) THEN NewCost(w, v) ELSE Row[v]]]
              /\ nextHops' = [nextHops EXCEPT ![node] = [v \in Routers |->
                     IF v \in relaxed /\ BetterHop(w, v)
                     THEN nextHops[node][w] ELSE nextHops[node][v]]]
    /\ UNCHANGED <<pc, network, node>>

(* The uninitialised min_cost_node is none of the nodes that are left. It  *)
(* has no neighbours to relax, but its entries in N end the loop.          *)
SettleNone ==
    /\ pc = "source" /\ N # {} /\ N # nodes
    /\ \A w \in nodes \ N : Row[w] = Infinity
    /\ N' = nodes
    /\ UNCHANGED <<pc, network, tables, node>>

EndDijkstra ==
    /\ pc = "source" /\ N = nodes
    /\ NextNode
    /\ N' = {}
    /\ UNCHANGED <<network, tables>>

LinkStateNext ==
    InitNextHops \/ BeginDijkstra \/ Settle \/ SettleNone \/ EndDijkstra

=============================================================================
