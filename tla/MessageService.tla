--------------------------- MODULE MessageService ---------------------------
(* What a routing simulation promises, with no algorithm and no tables of  *)
(* the nodes: for each network, as the changes make it, one forwarding     *)
(* table of shortest paths and one answer to every message, in the order   *)
(* of the file.                                                            *)
EXTENDS Integers, Sequences, FiniteSets, FiniteSetsExt, Functions

CONSTANTS Routers, Infinity

VARIABLES
    nodes, cost,  \* the nodes that are reported on; the costs of links
    messages,     \* pairs of a source and a destination
    table,        \* rows that have been printed, {} before
    answers       \* for each message so far, its cost and the hops it took

-----------------------------------------------------------------------------
(* Shortest paths by enumeration                                           *)

(* The paths without repetition from u to v, whatever the links are.       *)
Routes == [ends \in Routers \X Routers |->
    {p \in UNION {[1..n -> Routers] : n \in 1..Cardinality(Routers)} :
        /\ p[1] = ends[1] /\ p[Len(p)] = ends[2]
        /\ IsInjective(p)}]

IsLinked(p) == \A k \in 1..(Len(p) - 1) : <<p[k], p[k + 1]>> \in DOMAIN cost

PathCost(p) == SumFunction([k \in 1..(Len(p) - 1) |-> cost[<<p[k], p[k + 1]>>]])

LinkedRoutes(u, v) == {p \in Routes[<<u, v>>] : IsLinked(p)}

(* The cost of the best path of at most n links.                           *)
Shortest(u, v, n) ==
    Min({Infinity} \cup {PathCost(p) : p \in {p \in LinkedRoutes(u, v) : Len(p) <= n + 1}})

Cost(u, v) == Shortest(u, v, Cardinality(Routers))

-----------------------------------------------------------------------------

IsNetwork(c) ==
    /\ DOMAIN c \subseteq Routers \X Routers
    /\ \A p \in DOMAIN c : <<p[2], p[1]>> \in DOMAIN c /\ c[<<p[2], p[1]>>] = c[p]

Init ==
    /\ nodes \subseteq Routers /\ IsNetwork(cost)
    /\ messages \in Seq(nodes \X nodes)
    /\ table = {} /\ answers = <<>>

(* One row for each destination that can be reached, with a next hop on a  *)
(* shortest path.                                                          *)
RightRow(r) ==
    \E p \in LinkedRoutes(r.node, r.dest) :
        /\ r.cost = PathCost(p) /\ r.cost = Cost(r.node, r.dest)
        /\ r.next_hop = IF Len(p) = 1 THEN r.dest ELSE p[2]

PrintTable ==
    /\ table = {}
    /\ table' # {}
    /\ \A r \in table' : RightRow(r)
    /\ \A u, v \in nodes : Cost(u, v) < Infinity =>
          Cardinality({r \in table' : r.node = u /\ r.dest = v}) = 1
    /\ UNCHANGED <<nodes, cost, messages, answers>>

(* The hops of an answer are a shortest path but for the destination.      *)
RightAnswer(m, a) ==
    \/ Cost(m[1], m[2]) = Infinity /\ a = [cost |-> Infinity, hops |-> <<>>]
    \/ \E p \in LinkedRoutes(m[1], m[2]) :
          /\ p = Append(a.hops, m[2])
          /\ a.cost = PathCost(p) /\ a.cost = Cost(m[1], m[2])

Answer ==
    /\ table # {}
    /\ Len(answers) < Len(messages)
    /\ Len(answers') = Len(answers) + 1
    /\ \A k \in DOMAIN answers : answers'[k] = answers[k]
    /\ RightAnswer(messages[Len(answers')], answers'[Len(answers')])
    /\ UNCHANGED <<nodes, cost, messages, table>>

(* One link comes, goes or changes its cost.                               *)
Change ==
    /\ table # {} /\ Len(answers) = Len(messages)
    /\ IsNetwork(cost')
    /\ \E u, v \in Routers : \A p \in DOMAIN cost \cup DOMAIN cost' :
          \/ p \in {<<u, v>>, <<v, u>>}
          \/ p \in DOMAIN cost \cap DOMAIN cost' /\ cost'[p] = cost[p]
    /\ table' = {} /\ answers' = <<>>
    /\ UNCHANGED <<nodes, messages>>

Next == PrintTable \/ Answer \/ Change

Spec == Init /\ [][Next]_<<nodes, cost, messages, table, answers>>

=============================================================================
