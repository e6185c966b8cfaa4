------------------------------ MODULE Topology ------------------------------
(* What linkstate and distvec (mp3) have in common: the network they read  *)
(* from the topology file, the changes to it, the tables they compute, and *)
(* the walk along next hops that delivers a message.                       *)
EXTENDS Integers, FiniteSets, FiniteSetsExt

CONSTANTS
    Routers,      \* names of nodes
    NewRouters,   \* those that only the changes file may name
    Costs,        \* costs of links
    Infinity      \* INT_MAX

(* Node 0 is linkstate's "no next hop"; the cost of a path is an int.      *)
ASSUME TopologyAssumption ==
    /\ Routers \subseteq Nat \ {0} /\ IsFiniteSet(Routers)
    /\ NewRouters \subseteq Routers
    /\ Costs \subseteq Nat \ {0}
    /\ Infinity \in Nat \ {0}
    /\ \A c \in Costs : c * Cardinality(Routers) < Infinity

VARIABLES
    pc,           \* "init", "source", "print", "messages" or "walk"
    nodes, edge_cost, adj_list,
    distance_vectors,
    nextHops,
    node          \* the node whose table is computed, 0 if none is

network == <<nodes, edge_cost, adj_list>>
tables == <<distance_vectors, nextHops>>

NoNode == 0
Links == {p \in Routers \X Routers : p[1] < p[2]}
Reverse(p) == <<p[2], p[1]>>

(* The two directions of a link are two entries of edge_cost.              *)
BothWays(cost) ==
    [p \in DOMAIN cost \cup {Reverse(q) : q \in DOMAIN cost} |->
        IF p \in DOMAIN cost THEN cost[p] ELSE cost[Reverse(p)]]

(* The topology file has been read.                                        *)
TopologyInit ==
    /\ pc = "init"
    /\ \E E \in SUBSET {p \in Links : {p[1], p[2]} \cap NewRouters = {}} :
          \E cost \in [E -> Costs] :
             /\ nodes = UNION {{p[1], p[2]} : p \in E}
             /\ edge_cost = BothWays(cost)
             /\ adj_list = [u \in Routers |-> {v \in Routers : <<u, v>> \in DOMAIN edge_cost}]
    /\ nodes # {}
    /\ distance_vectors = [u \in Routers |-> [v \in Routers |-> 0]]
    /\ nextHops = [u \in Routers |-> [v \in Routers |-> NoNode]]
    /\ node = NoNode

(* changeTopology                                                          *)
SetLink(p, c) ==
    /\ edge_cost' = [q \in DOMAIN edge_cost \cup {p, Reverse(p)} |->
                        IF q \in {p, Reverse(p)} THEN c ELSE edge_cost[q]]
    /\ adj_list' = [adj_list EXCEPT ![p[1]] = @ \cup {p[2]}, ![p[2]] = @ \cup {p[1]}]

(* Mutant: only one direction is removed.                                  *)
RemoveLinkOneWay(p) ==
    /\ edge_cost' = [q \in DOMAIN edge_cost \ {p} |-> edge_cost[q]]
    /\ adj_list' = [adj_list EXCEPT ![p[1]] = @ \ {p[2]}, ![p[2]] = @ \ {p[1]}]

RemoveLink(p) ==
    /\ edge_cost' = [q \in DOMAIN edge_cost \ {p, Reverse(p)} |-> edge_cost[q]]
    /\ adj_list' = [adj_list EXCEPT ![p[1]] = @ \ {p[2]}, ![p[2]] = @ \ {p[1]}]

(* One line of the changes file, after which the tables are computed anew. *)
Change(removable) ==
    /\ pc = "messages"
    /\ \E p \in Links :
          /\ {p[1], p[2]} \subseteq nodes \cup NewRouters
          /\ (p \in removable /\ RemoveLink(p)) \/ \E c \in Costs : SetLink(p, c)
    /\ pc' = "init"
    /\ UNCHANGED <<nodes, tables, node>>

(* The loop over the nodes, in ascending order.                            *)
(* Mutant: the iterator stands still.                                      *)
LaterOrSame == {n \in nodes : n >= node}

Later == {n \in nodes : n > node}

NextNode ==
    /\ node' = IF Later = {} THEN NoNode ELSE Min(Later)
    /\ pc' = IF Later = {} THEN "print" ELSE "source"

Row == distance_vectors[node]

(* A sum of two ints, which wraps.                                         *)
Plus(a, b) == IF a + b <= Infinity THEN a + b ELSE a + b - 2 * (Infinity + 1)

=============================================================================
