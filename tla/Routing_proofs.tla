--------------------------- MODULE Routing_proofs ---------------------------
(* The links that linkstate and distvec keep, the tables that they compute *)
(* and the messages that they send, for every set of nodes and costs and   *)
(* every sequence of changes; and that both implement MessageService.      *)
EXTENDS Paths_proofs

USE Constants

(* A function of the links between routers, and the neighbours it gives.   *)
LinksInv ==
    /\ DOMAIN edge_cost \subseteq Routers \X Routers
    /\ adj_list \in [Routers -> SUBSET Routers]
    /\ LinksAgree

LEMMA InitLinks == Init => LinksInv
<1> SUFFICES ASSUME Init PROVE LinksInv
  OBVIOUS
<1>1. PICK E \in SUBSET Links : \E cost \in [E -> Costs] : edge_cost = BothWays(cost)
  BY DEF Init, TopologyInit
<1>2. PICK cost \in [E -> Costs] : edge_cost = BothWays(cost)
  BY <1>1
<1>3. adj_list = [u \in Routers |-> {v \in Routers : <<u, v>> \in DOMAIN edge_cost}]
  BY DEF Init, TopologyInit
<1>4. \A p \in E : /\ p \in Routers \X Routers
                   /\ p = <<p[1], p[2]>> /\ p[1] < p[2]
  BY DEF Links
<1>5. /\ DOMAIN edge_cost = E \cup {Reverse(q) : q \in E}
      /\ \A p \in DOMAIN edge_cost :
             edge_cost[p] = IF p \in E THEN cost[p] ELSE cost[Reverse(p)]
  BY <1>2 DEF BothWays
<1>6. DOMAIN edge_cost \subseteq Routers \X Routers
  BY <1>4, <1>5 DEF Reverse
<1>7. ASSUME NEW u \in Routers, NEW v \in Routers, <<u, v>> \in DOMAIN edge_cost
      PROVE  /\ <<v, u>> \in DOMAIN edge_cost
             /\ edge_cost[<<u, v>>] = edge_cost[<<v, u>>]
  <2>1. u \in Nat /\ v \in Nat
    OBVIOUS
  <2>2. CASE <<u, v>> \in E
    <3>1. u < v /\ <<v, u>> \notin E
      BY <1>4, <2>1, <2>2
    <3>2. Reverse(<<u, v>>) = <<v, u>> /\ Reverse(<<v, u>>) = <<u, v>>
      BY DEF Reverse
    <3> QED BY <1>5, <2>2, <3>1, <3>2
  <2>3. CASE <<u, v>> \notin E
    <3>1. PICK q \in E : <<u, v>> = Reverse(q)
      BY <1>5, <1>7, <2>3
    <3>2. q = <<v, u>>
      BY <1>4, <3>1 DEF Reverse
    <3>3. Reverse(<<u, v>>) = <<v, u>>
      BY DEF Reverse
    <3> QED BY <1>5, <1>7, <2>3, <3>2, <3>3
  <2> QED BY <2>2, <2>3
<1> QED BY <1>3, <1>6, <1>7 DEF LinksInv, LinksAgree

(* A pair of routers and its reverse.                                      *)
LEMMA ReversedLink ==
    ASSUME NEW p \in Links
    PROVE  /\ p \in Routers \X Routers /\ p = <<p[1], p[2]>>
           /\ p[1] \in Routers /\ p[2] \in Routers /\ p[1] # p[2]
           /\ Reverse(p) = <<p[2], p[1]>>
<1>1. p \in Routers \X Routers /\ p[1] < p[2]
  BY DEF Links
<1>2. p = <<p[1], p[2]>> /\ p[1] \in Routers /\ p[2] \in Routers
  BY <1>1
<1>3. p[1] \in Nat /\ p[2] \in Nat
  BY <1>2
<1>4. p[1] # p[2]
  BY <1>1, <1>3
<1> QED BY <1>1, <1>2, <1>4 DEF Reverse

LEMMA ChangeLinks ==
    ASSUME LinksInv, NEW removable, Change(removable)
    PROVE  LinksInv'
<1> USE DEF LinksInv, LinksAgree
<1>1. PICK p \in Links : RemoveLink(p) \/ \E c \in Costs : SetLink(p, c)
  BY DEF Change
<1>2. PICK a \in Routers, b \in Routers : p = <<a, b>> /\ a # b
  BY ReversedLink
<1>3. p[1] = a /\ p[2] = b /\ Reverse(p) = <<b, a>>
  BY <1>2 DEF Reverse
<1>4. CASE RemoveLink(p)
  <2>1. /\ DOMAIN edge_cost' = DOMAIN edge_cost \ {<<a, b>>, <<b, a>>}
        /\ \A q \in DOMAIN edge_cost' : edge_cost'[q] = edge_cost[q]
    BY <1>2, <1>3, <1>4 DEF RemoveLink
  <2>2. /\ adj_list' \in [Routers -> SUBSET Routers]
        /\ \A u \in Routers : adj_list'[u] =
               IF u = a THEN adj_list[u] \ {b}
               ELSE IF u = b THEN adj_list[u] \ {a} ELSE adj_list[u]
    <3>1. adj_list' = [adj_list EXCEPT ![a] = @ \ {b}, ![b] = @ \ {a}]
      BY <1>3, <1>4 DEF RemoveLink
    <3>2. adj_list \in [Routers -> SUBSET Routers]
      OBVIOUS
    <3> QED BY ONLY a \in Routers, b \in Routers, <1>2, <3>1, <3>2
  <2>3. ASSUME NEW u \in Routers, NEW v \in Routers
        PROVE  <<u, v>> \in {<<a, b>>, <<b, a>>} <=> (u = a /\ v = b) \/ (u = b /\ v = a)
    OBVIOUS
  <2> QED BY <1>2, <2>1, <2>2, <2>3
<1>5. ASSUME NEW c \in Costs, SetLink(p, c)
      PROVE  LinksInv'
  <2>1. /\ DOMAIN edge_cost' = DOMAIN edge_cost \cup {<<a, b>>, <<b, a>>}
        /\ \A q \in DOMAIN edge_cost' :
               edge_cost'[q] = IF q \in {<<a, b>>, <<b, a>>} THEN c ELSE edge_cost[q]
    BY <1>2, <1>3, <1>5 DEF SetLink
  <2>2. /\ adj_list' \in [Routers -> SUBSET Routers]
        /\ \A u \in Routers : adj_list'[u] =
               IF u = a THEN adj_list[u] \cup {b}
               ELSE IF u = b THEN adj_list[u] \cup {a} ELSE adj_list[u]
    <3>1. adj_list' = [adj_list EXCEPT ![a] = @ \cup {b}, ![b] = @ \cup {a}]
      BY <1>3, <1>5 DEF SetLink
    <3>2. adj_list \in [Routers -> SUBSET Routers]
      OBVIOUS
    <3> QED BY ONLY a \in Routers, b \in Routers, <1>2, <3>1, <3>2
  <2>3. ASSUME NEW u \in Routers, NEW v \in Routers
        PROVE  <<u, v>> \in {<<a, b>>, <<b, a>>} <=> (u = a /\ v = b) \/ (u = b /\ v = a)
    OBVIOUS
  <2> QED BY <1>2, <2>1, <2>2, <2>3
<1> QED BY <1>1, <1>4, <1>5

(* Only a change of the topology touches the network.                      *)
LEMMA NetworkStep ==
    ASSUME Next
    PROVE  \/ UNCHANGED <<edge_cost, adj_list>>
           \/ \E removable : Change(removable)
<1> USE DEF network
<1>1. CASE ComputeLinkState
  BY <1>1 DEF ComputeLinkState, LinkStateNext, InitNextHops, BeginDijkstra,
              Settle, SettleNone, EndDijkstra
<1>2. CASE ComputeDistVec
  BY <1>2 DEF ComputeDistVec, DistVecNext, InitDistanceVectors, NextEdge,
              NextRound, EndUpdate
<1>3. CASE ChangeTopology
  BY <1>3 DEF ChangeTopology
<1>4. CASE StoreForwardingTable \/ Forward \/ Deliver
  BY <1>4 DEF StoreForwardingTable, Forward, Deliver
<1>5. CASE ReadMessage \/ ResendMessage
  BY <1>5 DEF ReadMessage, ResendMessage, StartMessage
<1> QED BY <1>1, <1>2, <1>3, <1>4, <1>5 DEF Next, Proceed

(* The map of costs and the sets of neighbours describe one undirected     *)
(* network after every sequence of changes, in both programs.              *)
THEOREM LinksKeepAgreeing == Spec => []LinksAgree
<1>1. Init => LinksInv
  BY InitLinks
<1>2. LinksInv /\ [Next]_vars => LinksInv'
  <2> SUFFICES ASSUME LinksInv, [Next]_vars PROVE LinksInv'
    OBVIOUS
  <2>1. CASE UNCHANGED <<edge_cost, adj_list>>
    BY <2>1 DEF LinksInv, LinksAgree
  <2> QED BY <2>1, ChangeLinks, NetworkStep DEF vars, network
<1>3. LinksInv => LinksAgree
  BY DEF LinksInv
<1> QED BY <1>1, <1>2, <1>3, PTL DEF Spec

-----------------------------------------------------------------------------
(* One row of the tables, as the two algorithms fill it: row[v] is what    *)
(* node s knows of the way to v and hops[v] where it begins.               *)

RowType(row) == \A v \in nodes : row[v] \in Nat /\ row[v] <= Infinity

HopRight(s, row, hops, v) ==
    s # v /\ row[v] # Infinity =>
        /\ <<s, hops[v]>> \in DOMAIN edge_cost
        /\ LinkCost(s, hops[v]) + Cost(hops[v], v) <= row[v]

HopsRight(s, row, hops) ==
    /\ hops[s] = s
    /\ \A v \in nodes : HopRight(s, row, hops, v)

(* The row is as it has to be.                                             *)
Done(s, row, hops) ==
    /\ \A v \in nodes : row[v] = Cost(s, v)
    /\ HopsRight(s, row, hops)

(* Both begin with the links of s.                                         *)
NextTo(s, v) == v = s \/ <<s, v>> \in DOMAIN edge_cost

FirstRow(s, row, hops) ==
    \A v \in nodes :
        /\ row[v] = IF v = s THEN 0
                    ELSE IF <<s, v>> \in DOMAIN edge_cost THEN LinkCost(s, v) ELSE Infinity
        /\ NextTo(s, v) => hops[v] = v

LEMMA NodeCost ==
    ASSUME Network, NEW s \in nodes, NEW v \in nodes
    PROVE  /\ s \in Routers /\ v \in Routers
           /\ Cost(s, v) \in Nat /\ Cost(s, v) <= Infinity
<1>1. s \in Routers /\ v \in Routers
  BY DEF Network
<1> QED BY <1>1, CostParts

(* A link's cost is an int, and the sum of a row and a link does not wrap  *)
(* if it is one; the sum of INT_MAX and a link wraps to a negative number. *)
LEMMA PlusLink ==
    ASSUME Network, NEW u, NEW v, <<u, v>> \in DOMAIN edge_cost, NEW r \in Nat, r <= Infinity
    PROVE  /\ r + LinkCost(u, v) <= Infinity => Plus(r, edge_cost[<<u, v>>]) = r + LinkCost(u, v)
           /\ r = Infinity => Plus(r, edge_cost[<<u, v>>]) < 0
<1>1. LinkCost(u, v) \in Nat \ {0} /\ LinkCost(u, v) = edge_cost[<<u, v>>]
  BY LinkType DEF LinkCost
<1>2. LinkCost(u, v) < Infinity
  <2>1. u \in Routers /\ v \in Routers /\ Cost(u, u) = 0
    BY LinkType, CostOfItself
  <2>2. Cost(u, u) # Infinity
    <3>1. PICK c \in Costs : c \in Nat \ {0} /\ c * Size < Infinity
      <4>1. DOMAIN edge_cost # {}
        OBVIOUS
      <4> QED BY <4>1, MaxLink
    <3>2. c * Size \in Nat
      BY <3>1, SizeType
    <3> QED BY <2>1, <3>1, <3>2
  <2>3. Cost(u, u) + LinkCost(u, v) < Infinity
    BY <2>1, <2>2, CostHasRoom
  <2> QED BY <1>1, <2>1, <2>3
<1> QED BY <1>1, <1>2 DEF Plus

LEMMA FirstRowParts ==
    ASSUME Network, NEW s \in nodes, NEW row, NEW hops, FirstRow(s, row, hops)
    PROVE  /\ row[s] = 0 /\ RowType(row)
           /\ \A v \in nodes : Cost(s, v) <= row[v]
           /\ \A v \in nodes : <<s, v>> \in DOMAIN edge_cost => row[v] <= LinkCost(s, v)
           /\ HopsRight(s, row, hops)
<1>1. s \in Routers /\ Cost(s, s) = 0 /\ \A v \in nodes : v \in Routers
  BY CostOfItself DEF Network
<1>2. row[s] = 0
  BY DEF FirstRow
<1>3. ASSUME NEW v \in nodes, <<s, v>> \in DOMAIN edge_cost
      PROVE  /\ LinkCost(s, v) \in Nat /\ LinkCost(s, v) <= Infinity
             /\ Cost(s, v) <= LinkCost(s, v)
  <2>1. Cost(s, v) <= Cost(s, s) + LinkCost(s, v) /\ LinkCost(s, v) \in Nat
    BY <1>1, <1>3, Triangle, LinkType
  <2>2. Infinity # 0
    <3>1. Plus(Infinity, edge_cost[<<s, v>>]) < 0
      BY <1>3, PlusLink
    <3>2. PICK c \in Costs : c \in Nat \ {0} /\ c * Size < Infinity
      <4>1. DOMAIN edge_cost # {}
        BY <1>3
      <4> QED BY <4>1, MaxLink
    <3>3. c * Size \in Nat
      BY <3>2, SizeType
    <3> QED BY <3>2, <3>3
  <2>3. Cost(s, s) + LinkCost(s, v) < Infinity
    BY <1>1, <1>3, <2>2, CostHasRoom
  <2> QED BY <1>1, <2>1, <2>3
<1>4. ASSUME NEW v \in nodes
      PROVE  /\ row[v] \in Nat /\ row[v] <= Infinity /\ Cost(s, v) <= row[v]
             /\ <<s, v>> \in DOMAIN edge_cost => row[v] <= LinkCost(s, v)
  <2>1. CASE v = s
    <3>1. <<s, v>> \in DOMAIN edge_cost => LinkCost(s, v) \in Nat
      BY <1>3
    <3> QED BY <1>1, <1>2, <2>1, <3>1
  <2>2. CASE v # s /\ <<s, v>> \in DOMAIN edge_cost
    BY <1>3, <2>2 DEF FirstRow
  <2>3. CASE v # s /\ <<s, v>> \notin DOMAIN edge_cost
    BY <2>3, NodeCost DEF FirstRow
  <2> QED BY <2>1, <2>2, <2>3
<1>5. ASSUME NEW v \in nodes PROVE HopRight(s, row, hops, v)
  <2> SUFFICES ASSUME s # v, row[v] # Infinity
               PROVE  /\ <<s, hops[v]>> \in DOMAIN edge_cost
                      /\ LinkCost(s, hops[v]) + Cost(hops[v], v) <= row[v]
    BY DEF HopRight
  <2>1. <<s, v>> \in DOMAIN edge_cost /\ hops[v] = v /\ row[v] = LinkCost(s, v)
    BY DEF FirstRow, NextTo
  <2>2. Cost(v, v) = 0 /\ LinkCost(s, v) \in Nat
    BY <1>1, <1>3, <2>1, CostOfItself
  <2> QED BY <2>1, <2>2
<1>6. hops[s] = s
  BY DEF FirstRow, NextTo
<1> QED BY <1>2, <1>4, <1>5, <1>6 DEF RowType, HopsRight

(* A way that is found over a node with a right hop begins with this hop.  *)
LEMMA HopOverNode ==
    ASSUME Network, NEW s \in nodes, NEW row, NEW hops, RowType(row),
           NEW w \in nodes, w # s, row[w] # Infinity, HopRight(s, row, hops, w),
           NEW v, <<w, v>> \in DOMAIN edge_cost
    PROVE  /\ <<s, hops[w]>> \in DOMAIN edge_cost
           /\ LinkCost(s, hops[w]) + Cost(hops[w], v) <= row[w] + LinkCost(w, v)
<1>1. /\ <<s, hops[w]>> \in DOMAIN edge_cost
      /\ LinkCost(s, hops[w]) + Cost(hops[w], w) <= row[w]
  BY DEF HopRight
<1>2. hops[w] \in nodes /\ LinkCost(s, hops[w]) \in Nat
  BY <1>1, LinkType
<1>3. v \in nodes /\ LinkCost(w, v) \in Nat /\ hops[w] \in Routers /\ row[w] \in Nat
  BY <1>1, LinkType DEF RowType
<1>4. Cost(hops[w], v) <= Cost(hops[w], w) + LinkCost(w, v)
  BY <1>3, Triangle
<1>5. Cost(hops[w], v) \in Nat /\ Cost(hops[w], w) \in Nat
  BY <1>2, <1>3, NodeCost
<1> QED BY <1>1, <1>2, <1>3, <1>4, <1>5

-----------------------------------------------------------------------------
(* dijkstra: the nodes of S are settled.                                   *)

DijkstraRow(s, S, row, hops) ==
    /\ s \in S /\ S \subseteq nodes
    /\ RowType(row)
    /\ \A v \in nodes : IF v \in S THEN row[v] = Cost(s, v) ELSE row[v] >= Cost(s, v)
    /\ \A u \in S : \A v \in nodes :
          <<u, v>> \in DOMAIN edge_cost => row[v] <= row[u] + LinkCost(u, v)
    /\ HopsRight(s, row, hops)

LEMMA DijkstraBegins ==
    ASSUME Network, NEW s \in nodes, NEW row, NEW hops, FirstRow(s, row, hops)
    PROVE  DijkstraRow(s, {s}, row, hops)
<1>1. /\ row[s] = 0 /\ RowType(row)
      /\ \A v \in nodes : Cost(s, v) <= row[v]
      /\ \A v \in nodes : <<s, v>> \in DOMAIN edge_cost => row[v] <= LinkCost(s, v)
      /\ HopsRight(s, row, hops)
  BY FirstRowParts
<1>2. s \in Routers /\ Cost(s, s) = 0
  BY CostOfItself DEF Network
<1>3. ASSUME NEW v \in nodes
      PROVE  IF v \in {s} THEN row[v] = Cost(s, v) ELSE row[v] >= Cost(s, v)
  <2>1. Cost(s, v) <= row[v] /\ Cost(s, v) \in Nat /\ row[v] \in Nat
    BY <1>1, NodeCost DEF RowType
  <2> QED BY <1>1, <1>2, <2>1
<1>4. ASSUME NEW v \in nodes, <<s, v>> \in DOMAIN edge_cost
      PROVE  row[v] <= row[s] + LinkCost(s, v)
  <2>1. LinkCost(s, v) \in Nat
    BY <1>4, LinkType
  <2> QED BY <1>1, <1>4, <2>1
<1> QED BY <1>1, <1>3, <1>4 DEF DijkstraRow

(* A node that is left has its final cost if no other has a lower one: the *)
(* first node on the way to it that is left would have one.                *)
LEMMA LeastLeft ==
    ASSUME Network, NEW s \in nodes, NEW S, NEW row, NEW hops, DijkstraRow(s, S, row, hops),
           NEW w \in nodes \ S, \A u \in nodes \ S : row[w] <= row[u]
    PROVE  row[w] = Cost(s, w)
<1> DEFINE costs == {Cost(s, x) : x \in nodes \ S}
<1>1. \A v \in nodes : /\ Cost(s, v) \in Nat /\ Cost(s, v) <= Infinity
                       /\ row[v] \in Nat /\ row[v] <= Infinity /\ v \in Routers
  BY NodeCost DEF DijkstraRow, RowType
<1>2. \A v \in nodes \ S : row[v] >= Cost(s, v)
  BY DEF DijkstraRow
<1>3. costs \subseteq Nat /\ costs # {}
  BY <1>1
<1>4. PICK least \in costs : \A c \in costs : least <= c
  <2> HIDE DEF costs
  <2> QED BY <1>3, LeastNumber
<1>5. PICK x \in nodes \ S : least = Cost(s, x)
  BY <1>4
<1>6. \A v \in nodes \ S : Cost(s, x) <= Cost(s, v)
  BY <1>4, <1>5
<1>7. CASE Cost(s, x) = Infinity
  BY <1>1, <1>2, <1>6, <1>7
<1>8. CASE Cost(s, x) # Infinity
  <2>1. s \in S /\ s # x /\ s \in Routers /\ x \in Routers
    BY <1>1 DEF DijkstraRow
  <2>2. PICK u : <<u, x>> \in DOMAIN edge_cost /\ Cost(s, u) + LinkCost(u, x) = Cost(s, x)
    BY <1>8, <2>1, Predecessor
  <2>3. u \in nodes /\ LinkCost(u, x) \in Nat \ {0}
    BY <2>2, LinkType
  <2>4. u \in S
    <3>1. Cost(s, u) < Cost(s, x)
      BY <1>1, <2>2, <2>3
    <3> QED BY <1>1, <1>6, <2>3, <3>1
  <2>5. row[u] = Cost(s, u) /\ row[x] <= row[u] + LinkCost(u, x)
    BY <2>2, <2>3, <2>4 DEF DijkstraRow
  <2> QED BY <1>1, <1>2, <1>6, <2>2, <2>3, <2>5
<1> QED BY <1>7, <1>8

(* Settling w, with a row and hops that take the ways over w where these   *)
(* are shorter, and perhaps where they are as short.                       *)
LEMMA SettleRow ==
    ASSUME Network, NEW s \in nodes, NEW S, NEW row, NEW hops, DijkstraRow(s, S, row, hops),
           NEW w \in nodes \ S, \A u \in nodes \ S : row[w] <= row[u],
           NEW row2, NEW hops2,
           \A v \in nodes :
              \/ row2[v] = row[v] /\ hops2[v] = hops[v]
              \/ /\ <<w, v>> \in DOMAIN edge_cost /\ v \notin S
                 /\ row2[v] = row[w] + LinkCost(w, v) /\ row2[v] <= row[v]
                 /\ hops2[v] = hops[w],
           \A v \in nodes \ S :
              <<w, v>> \in DOMAIN edge_cost => row2[v] <= row[w] + LinkCost(w, v)
    PROVE  DijkstraRow(s, S \cup {w}, row2, hops2)
<1>1. \A v \in nodes : /\ Cost(s, v) \in Nat /\ Cost(s, v) <= Infinity
                       /\ row[v] \in Nat /\ row[v] <= Infinity /\ v \in Routers
  BY NodeCost DEF DijkstraRow, RowType
<1>2. row[w] = Cost(s, w)
  BY LeastLeft
<1>3. s \in S /\ S \subseteq nodes /\ w # s /\ s \in Routers
  BY <1>1 DEF DijkstraRow
<1>4. ASSUME NEW v \in nodes, <<w, v>> \in DOMAIN edge_cost
      PROVE  LinkCost(w, v) \in Nat \ {0} /\ Cost(s, v) <= row[w] + LinkCost(w, v)
  BY <1>2, <1>3, <1>4, LinkType, Triangle
<1>5. ASSUME NEW v \in nodes
      PROVE  row2[v] \in Nat /\ row2[v] <= Infinity /\ row2[v] <= row[v] /\ row2[v] >= Cost(s, v)
  <2>1. row[v] >= Cost(s, v)
    BY <1>1 DEF DijkstraRow
  <2>2. CASE row2[v] = row[v]
    BY <1>1, <2>1, <2>2
  <2>3. CASE row2[v] # row[v]
    <3>1. /\ <<w, v>> \in DOMAIN edge_cost
          /\ row2[v] = row[w] + LinkCost(w, v) /\ row2[v] <= row[v]
      BY <2>3
    <3>2. LinkCost(w, v) \in Nat /\ Cost(s, v) <= row[w] + LinkCost(w, v)
      BY <1>4, <3>1
    <3> QED BY <1>1, <3>1, <3>2
  <2> QED BY <2>2, <2>3
<1>6. \A v \in S \cup {w} : row2[v] = row[v] /\ row2[v] = Cost(s, v)
  <2> TAKE v \in S \cup {w}
  <2>1. row[v] = Cost(s, v) /\ v \in nodes
    BY <1>2 DEF DijkstraRow
  <2>2. row2[v] <= row[v] /\ row2[v] >= Cost(s, v) /\ row2[v] \in Nat
    BY <1>5, <2>1
  <2> QED BY <1>1, <2>1, <2>2
<1>7. ASSUME NEW u \in S \cup {w}, NEW v \in nodes, <<u, v>> \in DOMAIN edge_cost
      PROVE  row2[v] <= row2[u] + LinkCost(u, v)
  <2>1. row2[u] = row[u] /\ u \in nodes /\ LinkCost(u, v) \in Nat
    BY <1>6, <1>7, LinkType
  <2>2. row2[v] \in Nat /\ row2[v] <= row[v]
    BY <1>5
  <2>3. CASE u \in S
    <3>1. row[v] <= row[u] + LinkCost(u, v)
      BY <1>7, <2>3 DEF DijkstraRow
    <3> QED BY <1>1, <2>1, <2>2, <3>1
  <2>4. CASE u = w /\ v \notin S
    BY <1>7, <2>1, <2>4
  <2>5. CASE u = w /\ v \in S
    <3>1. row2[v] = Cost(s, v) /\ Cost(s, v) <= row[w] + LinkCost(w, v)
      BY <1>4, <1>6, <1>7, <2>5
    <3> QED BY <2>1, <2>5, <3>1
  <2> QED BY <2>3, <2>4, <2>5
<1>8. ASSUME NEW v \in nodes PROVE HopRight(s, row2, hops2, v)
  <2>1. CASE row2[v] = row[v] /\ hops2[v] = hops[v]
    BY <2>1 DEF DijkstraRow, HopsRight, HopRight
  <2>2. CASE /\ <<w, v>> \in DOMAIN edge_cost /\ v \notin S
             /\ row2[v] = row[w] + LinkCost(w, v) /\ row2[v] <= row[v]
             /\ hops2[v] = hops[w]
    <3>1. row[w] # Infinity
      BY <1>1, <1>4, <2>2
    <3>2. RowType(row) /\ HopRight(s, row, hops, w) /\ w \in nodes
      BY DEF DijkstraRow, HopsRight
    <3>3. /\ <<s, hops[w]>> \in DOMAIN edge_cost
          /\ LinkCost(s, hops[w]) + Cost(hops[w], v) <= row[w] + LinkCost(w, v)
      BY <1>3, <2>2, <3>1, <3>2, HopOverNode
    <3> QED BY <2>2, <3>3 DEF HopRight
  <2> QED BY <2>1, <2>2
<1>9. RowType(row2)
  BY <1>5 DEF RowType
<1>10. \A v \in nodes : IF v \in S \cup {w} THEN row2[v] = Cost(s, v) ELSE row2[v] >= Cost(s, v)
  BY <1>5, <1>6
<1>11. s \in S \cup {w} /\ S \cup {w} \subseteq nodes
  BY <1>3
<1>12. hops2[s] = s
  <2>1. hops[s] = s
    BY DEF DijkstraRow, HopsRight
  <2> QED BY <1>3, <2>1
<1> QED BY <1>7, <1>8, <1>9, <1>10, <1>11, <1>12 DEF DijkstraRow, HopsRight

(* No way is known to any node that is left: there is none.                *)
LEMMA SettleRest ==
    ASSUME Network, NEW s \in nodes, NEW S, NEW row, NEW hops, DijkstraRow(s, S, row, hops),
           \A w \in nodes \ S : row[w] = Infinity
    PROVE  DijkstraRow(s, nodes, row, hops)
<1>1. \A v \in nodes : row[v] \in Nat /\ row[v] <= Infinity
  BY DEF DijkstraRow, RowType
<1>2. ASSUME NEW v \in nodes PROVE row[v] = Cost(s, v)
  <2>1. CASE v \in S
    BY <2>1 DEF DijkstraRow
  <2>2. CASE v \notin S
    <3>1. \A u \in nodes \ S : row[v] <= row[u]
      BY <1>1, <2>2
    <3> QED BY <2>2, <3>1, LeastLeft
  <2> QED BY <2>1, <2>2
<1>3. ASSUME NEW u \in nodes, NEW v \in nodes, <<u, v>> \in DOMAIN edge_cost
      PROVE  row[v] <= row[u] + LinkCost(u, v)
  <2>1. LinkCost(u, v) \in Nat
    BY <1>3, LinkType
  <2>2. CASE u \in S
    BY <1>3, <2>2 DEF DijkstraRow
  <2>3. CASE u \notin S
    BY <1>1, <2>1, <2>3
  <2> QED BY <2>2, <2>3
<1> QED BY <1>2, <1>3 DEF DijkstraRow

LEMMA DijkstraEnds ==
    ASSUME NEW s \in nodes, NEW row, NEW hops, DijkstraRow(s, nodes, row, hops)
    PROVE  Done(s, row, hops)
BY DEF DijkstraRow, Done

-----------------------------------------------------------------------------
(* updateDistanceVector: in round r, with the edges of left to look at.    *)

Reached(row) == {v \in nodes : row[v] # Infinity}

(* Each link can add its cost to a row once only, so that sums do not wrap *)
(* even while rows are not final.                                          *)
RowBound(row) ==
    \A c \in Costs : (\A e \in DOMAIN edge_cost : edge_cost[e] <= c) =>
        \A v \in Reached(row) : row[v] <= c * (Cardinality(Reached(row)) - 1)

FordRow(s, r, left, row, hops) ==
    /\ RowType(row) /\ RowBound(row)
    /\ \A v \in nodes : Cost(s, v) <= row[v] /\ row[v] <= Best(s, v, r + 1)
    /\ \A u, v \in nodes : <<u, v>> \in DOMAIN edge_cost \ left =>
          row[v] <= Best(s, u, r + 1) + LinkCost(u, v)
    /\ HopsRight(s, row, hops)

LEMMA NodeBest ==
    ASSUME Network, NEW s \in nodes, NEW v \in nodes, NEW m \in Nat
    PROVE  /\ s \in Routers /\ v \in Routers
           /\ Best(s, v, m) \in Nat /\ Best(s, v, m) <= Infinity
<1>1. s \in Routers /\ v \in Routers
  BY DEF Network
<1> QED BY <1>1, BestParts

LEMMA ReachedType ==
    ASSUME Network, NEW row
    PROVE  /\ IsFiniteSet(Reached(row)) /\ IsFiniteSet(nodes)
           /\ Cardinality(Reached(row)) \in Nat
           /\ Cardinality(Reached(row)) <= Size
<1>1. Reached(row) \subseteq Routers /\ nodes \subseteq Routers
  BY DEF Reached, Network
<1> QED BY <1>1, SizeType, FS_Subset, FS_CardinalityType DEF Size

LEMMA FordBegins ==
    ASSUME Network, NEW s \in nodes, NEW row, NEW hops, FirstRow(s, row, hops)
    PROVE  FordRow(s, 0, DOMAIN edge_cost, row, hops)
<1>1. /\ row[s] = 0 /\ RowType(row)
      /\ \A v \in nodes : Cost(s, v) <= row[v]
      /\ \A v \in nodes : <<s, v>> \in DOMAIN edge_cost => row[v] <= LinkCost(s, v)
      /\ HopsRight(s, row, hops)
  BY FirstRowParts
<1>2. s \in Routers /\ 0 \in Nat /\ 0 + 1 = 1 /\ 1 \in Nat
  BY DEF Network
<1>3. ASSUME NEW v \in nodes PROVE row[v] <= Best(s, v, 0 + 1)
  <2>1. Best(s, v, 1) \in Nat /\ Best(s, v, 1) <= Infinity /\ v \in Routers
    BY <1>2, NodeBest
  <2>2. row[v] \in Nat /\ row[v] <= Infinity
    BY <1>1 DEF RowType
  <2>3. CASE v = s
    BY <1>1, <1>2, <2>1, <2>3
  <2>4. CASE v # s /\ Best(s, v, 1) # Infinity
    <3>1. PICK u : /\ <<u, v>> \in DOMAIN edge_cost
                   /\ Best(s, u, 0) + LinkCost(u, v) <= Best(s, v, 1)
      <4>1. Best(s, v, 0 + 1) # Infinity /\ s # v
        BY <1>2, <2>4
      <4> QED BY <1>2, <2>1, <4>1, BestLastLink
    <3>2. u \in nodes /\ u \in Routers /\ LinkCost(u, v) \in Nat \ {0}
      BY <3>1, LinkType
    <3>3. u = s /\ Best(s, s, 0) = 0
      BY <1>2, <2>1, <3>1, <3>2, BestOfItself
    <3>4. row[v] <= LinkCost(s, v)
      BY <1>1, <3>1, <3>3
    <3>5. LinkCost(s, v) <= Best(s, v, 1)
      BY <3>1, <3>2, <3>3
    <3> QED BY <1>2, <2>1, <2>2, <3>2, <3>3, <3>4, <3>5
  <2>5. CASE Best(s, v, 1) = Infinity
    BY <1>2, <2>2, <2>5
  <2> QED BY <2>3, <2>4, <2>5
<1>4. RowBound(row)
  <2> SUFFICES ASSUME NEW c \in Costs, \A e \in DOMAIN edge_cost : edge_cost[e] <= c,
                      NEW v \in Reached(row)
               PROVE  row[v] <= c * (Cardinality(Reached(row)) - 1)
    BY DEF RowBound
  <2> DEFINE n == Cardinality(Reached(row))
  <2>1. n \in Nat /\ IsFiniteSet(Reached(row)) /\ c \in Nat \ {0} /\ v \in nodes /\ row[v] \in Nat
    BY <1>1, ReachedType DEF Reached, RowType
  <2>2. n # 0
    BY <2>1, FS_EmptySet
  <2>3. CASE v = s
    <3> HIDE DEF n
    <3>1. n - 1 \in Nat
      BY <2>1, <2>2
    <3>2. c * (n - 1) \in Nat
      BY <2>1, <3>1
    <3>3. row[v] <= c * (n - 1)
      BY <1>1, <2>3, <3>2
    <3> QED BY <3>3 DEF n
  <2>4. CASE v # s
    <3>1. <<s, v>> \in DOMAIN edge_cost /\ row[v] # Infinity
      BY <2>1, <2>4 DEF FirstRow, Reached
    <3>2. row[v] <= c
      <4>1. row[v] <= LinkCost(s, v) /\ LinkCost(s, v) <= c /\ LinkCost(s, v) \in Nat
        BY <1>1, <2>1, <3>1, LinkType DEF LinkCost
      <4> QED BY <2>1, <4>1
    <3>3. s \in Reached(row)
      <4>1. row[s] # Infinity
        <5>1. row[v] <= Infinity /\ row[v] # Infinity
          BY <1>1, <2>1, <3>1 DEF RowType
        <5> QED BY <1>1, <2>1, <5>1
      <4> QED BY <4>1 DEF Reached
    <3>4. {s, v} \subseteq Reached(row) /\ Cardinality({s, v}) = 2
      <4>1. Cardinality({s}) = 1 /\ IsFiniteSet({s})
        BY FS_Singleton
      <4>2. Cardinality({s} \cup {v}) = 1 + 1
        BY <2>4, <4>1, FS_AddElement
      <4>3. {s} \cup {v} = {s, v}
        OBVIOUS
      <4> QED BY <3>3, <4>2, <4>3
    <3>5. n >= 2
      BY <2>1, <3>4, FS_Subset
    <3> HIDE DEF n
    <3>6. PICK m \in Nat : n - 1 = m + 1
      <4>1. n - 2 \in Nat /\ n - 1 = (n - 2) + 1
        BY <2>1, <3>5
      <4> QED BY <4>1
    <3>7. c * (m + 1) = c * m + c * 1 /\ c * m \in Nat
      BY <2>1, Distribute
    <3>8. row[v] <= c * (n - 1)
      BY <2>1, <3>2, <3>6, <3>7
    <3> QED BY <3>8 DEF n
  <2> QED BY <2>3, <2>4
<1> QED BY <1>1, <1>3, <1>4 DEF FordRow

(* A sum of a cost in the row and one more link is an int.                 *)
LEMMA FordRoom ==
    ASSUME Network, NEW row, RowType(row), RowBound(row),
           NEW u, NEW v, <<u, v>> \in DOMAIN edge_cost, row[u] # Infinity
    PROVE  /\ row[u] + LinkCost(u, v) <= Infinity
           /\ row[u] \in Nat /\ LinkCost(u, v) \in Nat \ {0}
           /\ \A c \in Costs : (\A e \in DOMAIN edge_cost : edge_cost[e] <= c) =>
                 row[u] + LinkCost(u, v) <= c * Cardinality(Reached(row))
<1>1. u \in nodes /\ v \in nodes /\ LinkCost(u, v) \in Nat \ {0}
  BY LinkType
<1>2. u \in Reached(row) /\ row[u] \in Nat
  BY <1>1 DEF Reached, RowType
<1>3. PICK n \in Nat : n + 1 = Cardinality(Reached(row)) /\ n + 1 <= Size
  <2>1. Cardinality(Reached(row)) # 0 /\ Cardinality(Reached(row)) \in Nat
    BY <1>2, ReachedType, FS_EmptySet
  <2>2. Cardinality(Reached(row)) - 1 \in Nat
    BY <2>1
  <2> QED BY <2>1, <2>2, ReachedType
<1>4. ASSUME NEW c \in Costs, \A e \in DOMAIN edge_cost : edge_cost[e] <= c
      PROVE  /\ row[u] + LinkCost(u, v) <= c * (n + 1)
             /\ c \in Nat /\ c * (n + 1) \in Nat
  <2>1. row[u] <= c * (Cardinality(Reached(row)) - 1)
    BY <1>2, <1>4 DEF RowBound
  <2>2. Cardinality(Reached(row)) - 1 = n
    BY <1>3
  <2>3. LinkCost(u, v) <= c /\ c \in Nat
    BY <1>4 DEF LinkCost
  <2>4. c * (n + 1) = c * n + c * 1 /\ c * n \in Nat
    BY <2>3, Distribute
  <2>5. row[u] <= c * n
    BY <2>1, <2>2
  <2> QED BY <1>1, <1>2, <2>3, <2>4, <2>5
<1>5. PICK c \in Costs : /\ \A e \in DOMAIN edge_cost : edge_cost[e] <= c
                         /\ c \in Nat \ {0} /\ c * Size < Infinity
  <2>1. DOMAIN edge_cost # {}
    OBVIOUS
  <2> QED BY <2>1, MaxLink
<1>6. PICK a \in Nat : Size = (n + 1) + a
  <2>1. Size - (n + 1) \in Nat /\ Size = (n + 1) + (Size - (n + 1))
    BY <1>3, SizeType
  <2> QED BY <2>1
<1>7. c * ((n + 1) + a) = c * (n + 1) + c * a /\ c * a \in Nat
  BY <1>5, Distribute
<1>8. row[u] + LinkCost(u, v) <= Infinity
  <2>1. row[u] + LinkCost(u, v) <= c * (n + 1) /\ c * (n + 1) \in Nat
    BY <1>4, <1>5
  <2>2. c * (n + 1) + c * a < Infinity
    BY <1>5, <1>6, <1>7
  <2> QED BY <1>1, <1>2, <1>7, <2>1, <2>2
<1> QED BY <1>1, <1>2, <1>3, <1>4, <1>8

(* The row after a way over the link from u to v was found to be shorter.  *)
Improved(row, hops, u, v, row2, hops2) ==
    \A x \in nodes :
        /\ row2[x] = IF x = v THEN row[u] + LinkCost(u, v) ELSE row[x]
        /\ hops2[x] = IF x = v THEN hops[u] ELSE hops[x]

LEMMA ImprovedBound ==
    ASSUME Network, NEW row, NEW hops, RowType(row), RowBound(row),
           NEW u, NEW v, <<u, v>> \in DOMAIN edge_cost, row[u] # Infinity,
           NEW row2, NEW hops2, Improved(row, hops, u, v, row2, hops2),
           row[u] + LinkCost(u, v) < row[v]
    PROVE  RowBound(row2)
<1>1. /\ u \in nodes /\ v \in nodes /\ row[u] \in Nat /\ LinkCost(u, v) \in Nat \ {0}
      /\ row[u] + LinkCost(u, v) <= Infinity
  BY LinkType, FordRoom
<1>2. row[v] \in Nat /\ row[v] <= Infinity /\ row2[v] = row[u] + LinkCost(u, v) /\ row2[v] # Infinity
  BY <1>1 DEF RowType, Improved
<1>3. Reached(row2) = Reached(row) \cup {v}
  BY <1>1, <1>2 DEF Reached, Improved
<1>4. SUFFICES ASSUME NEW c \in Costs, \A e \in DOMAIN edge_cost : edge_cost[e] <= c,
                      NEW x \in Reached(row2)
               PROVE  row2[x] <= c * (Cardinality(Reached(row2)) - 1)
  BY DEF RowBound
<1>5. /\ Cardinality(Reached(row)) \in Nat /\ IsFiniteSet(Reached(row)) /\ c \in Nat \ {0}
      /\ x \in nodes
  BY ReachedType DEF Reached
<1>6. PICK n \in Nat : n = Cardinality(Reached(row))
  BY <1>5
<1>7. CASE v \in Reached(row)
  <2>1. Reached(row2) = Reached(row)
    BY <1>3, <1>7
  <2>2. x \in Reached(row) /\ row2[x] <= row[x] /\ row[x] \in Nat /\ row2[x] \in Nat
    <3>1. x \in Reached(row)
      BY <2>1
    <3>2. CASE x = v
      BY <1>1, <1>2, <3>1, <3>2
    <3>3. CASE x # v
      <4>1. row2[x] = row[x] /\ row[x] \in Nat
        BY <1>5, <3>3 DEF Improved, RowType
      <4> QED BY <3>1, <4>1
    <3> QED BY <3>2, <3>3
  <2>3. row[x] <= c * (n - 1)
    BY <1>4, <1>6, <2>2 DEF RowBound
  <2>4. c * (n - 1) \in Int
    BY <1>5, <1>6
  <2>5. row2[x] <= c * (n - 1)
    BY <2>2, <2>3, <2>4
  <2> QED BY <1>6, <2>1, <2>5
<1>8. CASE v \notin Reached(row)
  <2>1. Cardinality(Reached(row2)) = n + 1
    BY <1>3, <1>5, <1>6, <1>8, FS_AddElement
  <2>2. (n + 1) - 1 = n
    OBVIOUS
  <2>3. CASE x = v
    <3>1. row[u] + LinkCost(u, v) <= c * Cardinality(Reached(row))
      BY <1>4, FordRoom
    <3> QED BY <1>2, <1>6, <2>1, <2>2, <2>3, <3>1
  <2>4. CASE x # v
    <3>1. x \in Reached(row) /\ row2[x] = row[x] /\ row[x] \in Nat
      BY <1>3, <1>5, <2>4 DEF Improved, RowType
    <3>2. row[x] <= c * (n - 1)
      BY <1>4, <1>6, <3>1 DEF RowBound
    <3>3. n # 0
      BY <1>5, <1>6, <3>1, FS_EmptySet
    <3>4. PICK m \in Nat : n = m + 1 /\ n - 1 = m
      <4>1. n - 1 \in Nat /\ n = (n - 1) + 1
        BY <3>3
      <4> QED BY <4>1
    <3>5. c * (m + 1) = c * m + c * 1 /\ c * m \in Nat
      BY <1>5, Distribute
    <3>6. row[x] <= c * m
      BY <3>2, <3>4
    <3>7. row2[x] <= c * n
      BY <1>5, <3>1, <3>4, <3>5, <3>6
    <3> QED BY <2>1, <2>2, <3>7
  <2> QED BY <2>3, <2>4
<1> QED BY <1>7, <1>8

(* One edge of a round.                                                    *)
LEMMA FordEdge ==
    ASSUME Network, NEW s \in nodes, NEW r \in Nat, NEW left, NEW row, NEW hops,
           FordRow(s, r, left, row, hops),
           NEW u, NEW v, <<u, v>> \in DOMAIN edge_cost, NEW row2, NEW hops2,
           \/ /\ row[u] # Infinity /\ row[u] + LinkCost(u, v) < row[v]
              /\ Improved(row, hops, u, v, row2, hops2)
           \/ /\ row[u] = Infinity \/ row[u] + LinkCost(u, v) >= row[v]
              /\ row2 = row /\ hops2 = hops
    PROVE  FordRow(s, r, left \ {<<u, v>>}, row2, hops2)
<1>1. /\ u \in nodes /\ v \in nodes /\ LinkCost(u, v) \in Nat \ {0}
      /\ RowType(row) /\ RowBound(row) /\ s \in Routers /\ r + 1 \in Nat
  <2>1. u \in nodes /\ v \in nodes /\ LinkCost(u, v) \in Nat \ {0}
    BY LinkType
  <2>2. r + 1 \in Nat
    OBVIOUS
  <2> QED BY <2>1, <2>2 DEF FordRow, Network
<1>2. \A x \in nodes : /\ row[x] \in Nat /\ row[x] <= Infinity /\ x \in Routers
                       /\ Cost(s, x) \in Nat /\ Cost(s, x) <= row[x]
                       /\ row[x] <= Best(s, x, r + 1)
                       /\ Best(s, x, r + 1) \in Nat /\ Best(s, x, r + 1) <= Infinity
  BY <1>1, NodeCost, NodeBest DEF FordRow, RowType
<1>3. CASE /\ row[u] # Infinity /\ row[u] + LinkCost(u, v) < row[v]
           /\ Improved(row, hops, u, v, row2, hops2)
  <2>1. RowBound(row2)
    BY <1>1, <1>3, ImprovedBound
  <2>2. row[u] + LinkCost(u, v) <= Infinity
    BY <1>1, <1>3, FordRoom
  <2>3. Cost(s, v) <= row[u] + LinkCost(u, v)
    <3>1. Cost(s, v) <= Cost(s, u) + LinkCost(u, v)
      BY <1>1, Triangle
    <3>2. /\ Cost(s, u) \in Nat /\ Cost(s, v) \in Nat /\ row[u] \in Nat
          /\ Cost(s, u) <= row[u]
      BY <1>1, <1>2
    <3> QED BY <1>1, <3>1, <3>2
  <2>4. ASSUME NEW x \in nodes
        PROVE  /\ row2[x] \in Nat /\ row2[x] <= Infinity /\ row2[x] <= row[x]
               /\ Cost(s, x) <= row2[x] /\ row2[x] <= Best(s, x, r + 1)
    <3>1. CASE x = v
      <4>1. row2[v] = row[u] + LinkCost(u, v)
        BY <1>1, <1>3 DEF Improved
      <4> QED BY <1>1, <1>2, <1>3, <2>2, <2>3, <3>1, <4>1
    <3>2. CASE x # v
      <4>1. row2[x] = row[x]
        BY <1>3, <3>2 DEF Improved
      <4> QED BY <1>2, <4>1
    <3> QED BY <3>1, <3>2
  <2>5. ASSUME NEW a \in nodes, NEW b \in nodes,
               <<a, b>> \in DOMAIN edge_cost \ (left \ {<<u, v>>})
        PROVE  row2[b] <= Best(s, a, r + 1) + LinkCost(a, b)
    <3>0. LinkCost(a, b) \in Nat
      BY <2>5, LinkType
    <3>1. CASE <<a, b>> = <<u, v>>
      <4>1. a = u /\ b = v /\ row2[v] = row[u] + LinkCost(u, v)
        BY <1>1, <1>3, <3>1 DEF Improved
      <4> QED BY <1>1, <1>2, <4>1
    <3>2. CASE <<a, b>> # <<u, v>>
      <4>1. row[b] <= Best(s, a, r + 1) + LinkCost(a, b)
        BY <2>5, <3>2 DEF FordRow
      <4> QED BY <1>2, <2>4, <3>0, <4>1
    <3> QED BY <3>1, <3>2
  <2>6. u # s
    <3> SUFFICES ASSUME u = s PROVE FALSE
      OBVIOUS
    <3>1. Best(s, v, r + 1) <= Best(s, s, r) + LinkCost(s, v)
      BY <1>1, BestTriangle
    <3>2. Best(s, s, r) = 0
      BY <1>1, BestOfItself
    <3> QED BY <1>1, <1>2, <1>3, <3>1, <3>2
  <2>7. ASSUME NEW x \in nodes PROVE HopRight(s, row2, hops2, x)
    <3>1. CASE x = v
      <4>1. /\ <<s, hops[u]>> \in DOMAIN edge_cost
            /\ LinkCost(s, hops[u]) + Cost(hops[u], v) <= row[u] + LinkCost(u, v)
        <5>1. HopRight(s, row, hops, u)
          BY <1>1 DEF FordRow, HopsRight
        <5> QED BY <1>1, <1>3, <2>6, <5>1, HopOverNode
      <4>2. row2[v] = row[u] + LinkCost(u, v) /\ hops2[v] = hops[u]
        BY <1>1, <1>3 DEF Improved
      <4> QED BY <3>1, <4>1, <4>2 DEF HopRight
    <3>2. CASE x # v
      <4>1. row2[x] = row[x] /\ hops2[x] = hops[x]
        BY <1>3, <3>2 DEF Improved
      <4>2. HopRight(s, row, hops, x)
        BY DEF FordRow, HopsRight
      <4> QED BY <4>1, <4>2 DEF HopRight
    <3> QED BY <3>1, <3>2
  <2>8. hops2[s] = s
    <3>1. v # s
      <4>1. Best(s, s, r + 1) = 0
        BY <1>1, BestOfItself
      <4>2. row[s] = 0
        BY <1>2, <4>1
      <4>3. row[u] \in Nat
        BY <1>1, <1>2
      <4> QED BY <1>1, <1>3, <4>2, <4>3
    <3>2. hops[s] = s
      BY DEF FordRow, HopsRight
    <3> QED BY <1>3, <3>1, <3>2 DEF Improved
  <2> QED BY <2>1, <2>4, <2>5, <2>7, <2>8 DEF FordRow, RowType, HopsRight
<1>4. CASE /\ row[u] = Infinity \/ row[u] + LinkCost(u, v) >= row[v]
           /\ row2 = row /\ hops2 = hops
  <2>1. ASSUME NEW a \in nodes, NEW b \in nodes,
               <<a, b>> \in DOMAIN edge_cost \ (left \ {<<u, v>>})
        PROVE  row[b] <= Best(s, a, r + 1) + LinkCost(a, b)
    <3>1. CASE <<a, b>> = <<u, v>>
      <4>1. a = u /\ b = v
        BY <3>1
      <4>2. row[v] <= row[u] + LinkCost(u, v)
        <5>1. row[v] \in Nat /\ row[v] <= Infinity /\ row[u] \in Nat
          BY <1>1, <1>2
        <5>2. CASE row[u] = Infinity
          BY <1>1, <5>1, <5>2
        <5> QED BY <1>1, <1>4, <5>1, <5>2
      <4>3. row[u] <= Best(s, u, r + 1)
        BY <1>1, <1>2
      <4> QED BY <1>1, <1>2, <4>1, <4>2, <4>3
    <3>2. CASE <<a, b>> # <<u, v>>
      BY <2>1, <3>2 DEF FordRow
    <3> QED BY <3>1, <3>2
  <2> QED BY <1>4, <2>1 DEF FordRow
<1> QED BY <1>3, <1>4

(* All edges: the best routes of one link more have been looked at.        *)
LEMMA FordRound ==
    ASSUME Network, NEW s \in nodes, NEW r \in Nat, NEW row, NEW hops,
           FordRow(s, r, {}, row, hops)
    PROVE  FordRow(s, r + 1, DOMAIN edge_cost, row, hops)
<1>1. r + 1 \in Nat /\ (r + 1) + 1 \in Nat /\ s \in Routers
  BY DEF Network
<1>2. \A x \in nodes : /\ row[x] \in Nat /\ row[x] <= Infinity /\ x \in Routers
                       /\ row[x] <= Best(s, x, r + 1)
                       /\ Best(s, x, (r + 1) + 1) \in Nat /\ Best(s, x, (r + 1) + 1) <= Infinity
  BY <1>1, NodeBest DEF FordRow, RowType
<1>3. ASSUME NEW v \in nodes PROVE row[v] <= Best(s, v, (r + 1) + 1)
  <2>1. CASE v = s
    <3>1. Best(s, s, r + 1) = 0 /\ Best(s, s, (r + 1) + 1) = 0
      BY <1>1, BestOfItself
    <3> QED BY <1>2, <2>1, <3>1
  <2>2. CASE Best(s, v, (r + 1) + 1) = Infinity
    BY <1>2, <2>2
  <2>3. CASE v # s /\ Best(s, v, (r + 1) + 1) # Infinity
    <3>1. PICK u : /\ <<u, v>> \in DOMAIN edge_cost
                   /\ Best(s, u, r + 1) + LinkCost(u, v) <= Best(s, v, (r + 1) + 1)
      <4>1. v \in Routers /\ s # v
        BY <1>2, <2>3
      <4> QED BY <1>1, <2>3, <4>1, BestLastLink
    <3>2. u \in nodes /\ LinkCost(u, v) \in Nat
      BY <3>1, LinkType
    <3>3. Best(s, u, r + 1) \in Nat
      BY <1>1, <3>2, NodeBest
    <3>4. row[v] <= Best(s, u, r + 1) + LinkCost(u, v)
      BY <3>1, <3>2 DEF FordRow
    <3> QED BY <1>2, <3>1, <3>2, <3>3, <3>4
  <2> QED BY <2>1, <2>2, <2>3
<1> QED BY <1>3 DEF FordRow

LEMMA FordEnds ==
    ASSUME Network, NEW s \in nodes, NEW r \in Nat, NEW left, NEW row, NEW hops,
           FordRow(s, r, left, row, hops), r + 1 >= Cardinality(nodes) - 1
    PROVE  Done(s, row, hops)
<1>1. Cardinality(nodes) \in Nat /\ r + 1 \in Nat
  BY ReachedType, FS_CardinalityType
<1>2. (r + 1) + 1 >= Cardinality(nodes)
  BY <1>1
<1>3. ASSUME NEW v \in nodes PROVE row[v] = Cost(s, v)
  <2>1. Best(s, v, r + 1) = Cost(s, v)
    BY <1>1, <1>2, BestInNodes
  <2>2. row[v] \in Nat /\ Cost(s, v) <= row[v] /\ row[v] <= Best(s, v, r + 1)
    BY DEF FordRow, RowType
  <2>3. Cost(s, v) \in Nat
    BY NodeCost
  <2> QED BY <2>1, <2>2, <2>3
<1> QED BY <1>3 DEF Done, FordRow

-----------------------------------------------------------------------------
(* The tables of all nodes, in each state of the two programs              *)

(* What is said of a row depends on the network only.                      *)
LEMMA BestSame ==
    ASSUME edge_cost' = edge_cost
    PROVE  \A u, v, m : Best(u, v, m)' = Best(u, v, m)
BY DEF Best, Service!Shortest, Service!LinkedRoutes, Service!IsLinked, Service!PathCost,
       Service!SumFunction, Service!SumFunctionOnSet, Service!FoldFunctionOnSet,
       Service!MapThenFoldSet, Service!Min, Service!Routes, Service!IsInjective

LEMMA CostSame ==
    ASSUME edge_cost' = edge_cost
    PROVE  \A u, v : Cost(u, v)' = Cost(u, v)
BY DEF Cost, Service!Cost, Service!Cardinality, Service!Shortest, Service!LinkedRoutes,
       Service!IsLinked, Service!PathCost, Service!SumFunction, Service!SumFunctionOnSet,
       Service!FoldFunctionOnSet, Service!MapThenFoldSet, Service!Min, Service!Routes,
       Service!IsInjective

LEMMA RowsSame ==
    ASSUME edge_cost' = edge_cost, nodes' = nodes, NEW s, NEW row, NEW hops
    PROVE  /\ Done(s, row, hops)' <=> Done(s, row, hops)
           /\ FirstRow(s, row, hops)' <=> FirstRow(s, row, hops)
           /\ \A S : DijkstraRow(s, S, row, hops)' <=> DijkstraRow(s, S, row, hops)
           /\ \A r, left : FordRow(s, r, left, row, hops)' <=> FordRow(s, r, left, row, hops)
<1>1. HopsRight(s, row, hops)' <=> HopsRight(s, row, hops)
  BY CostSame DEF HopsRight, HopRight, LinkCost
<1>2. Done(s, row, hops)' <=> Done(s, row, hops)
  BY CostSame, <1>1 DEF Done
<1>3. FirstRow(s, row, hops)' <=> FirstRow(s, row, hops)
  BY DEF FirstRow, LinkCost, NextTo
<1>4. ASSUME NEW S
      PROVE  DijkstraRow(s, S, row, hops)' <=> DijkstraRow(s, S, row, hops)
  BY CostSame, <1>1 DEF DijkstraRow, RowType, LinkCost
<1>5. ASSUME NEW r, NEW left
      PROVE  FordRow(s, r, left, row, hops)' <=> FordRow(s, r, left, row, hops)
  <2>1. RowType(row)' <=> RowType(row)
    BY DEF RowType
  <2>2. RowBound(row)' <=> RowBound(row)
    BY DEF RowBound, Reached
  <2> QED BY CostSame, BestSame, <1>1, <2>1, <2>2 DEF FordRow, LinkCost
<1> QED BY <1>2, <1>3, <1>4, <1>5

DoneNode(u) == Done(u, distance_vectors[u], nextHops[u])

TablesType ==
    /\ program \in {"linkstate", "distvec"}
    /\ pc \in {"init", "source", "print", "messages", "walk"}
    /\ distance_vectors \in [Routers -> [Routers -> 0..Infinity]]
    /\ nextHops \in [Routers -> [Routers -> Routers \cup {NoNode, NoHop}]]
    /\ node \in Routers \cup {NoNode}
    /\ N \subseteq nodes /\ i \in Nat /\ todo \subseteq DOMAIN edge_cost

(* The nodes are done in ascending order.                                  *)
DoneInv ==
    /\ pc = "source" => node \in nodes /\ \A u \in nodes : u < node => DoneNode(u)
    /\ pc \in {"print", "messages", "walk"} => \A u \in nodes : DoneNode(u)

(* Until its turn comes each node has its links as next hops.              *)
LinkStateInv ==
    /\ ~(program = "linkstate" /\ pc = "source") => N = {}
    /\ program = "linkstate" /\ pc = "source" =>
          /\ \A u, v \in nodes :
                (u > node \/ (u = node /\ N = {})) /\ NextTo(u, v)
                    => nextHops[u][v] = v
          /\ N # {} => DijkstraRow(node, N, distance_vectors[node], nextHops[node])

DistVecInv ==
    /\ ~(program = "distvec" /\ pc = "source") => i = 0 /\ todo = {}
    /\ program = "distvec" /\ pc = "source" =>
          /\ \A u \in nodes : u > node => FirstRow(u, distance_vectors[u], nextHops[u])
          /\ FordRow(node, i, todo, distance_vectors[node], nextHops[node])

TablesInv ==
    /\ NewRouters = {}
    /\ LinksInv /\ Network /\ TablesType
    /\ DoneInv /\ LinkStateInv /\ DistVecInv

LEMMA NetworkSame ==
    ASSUME LinksInv, Network, UNCHANGED network
    PROVE  LinksInv' /\ Network'
BY DEF network, LinksInv, LinksAgree, Network

(* The first and the next node of the loop over the nodes.                 *)
LEMMA LeastNode ==
    ASSUME NEW S, S \subseteq nodes, nodes \subseteq Routers, S # {}
    PROVE  Min(S) \in S /\ \A n \in S : Min(S) <= n
<1>1. S \subseteq Nat
  OBVIOUS
<1>2. \E n \in S : \A m \in S : n =< m
  BY <1>1, LeastNumber
<1> QED BY <1>2 DEF Min

(* When the node is done the next is, or the tables of all nodes are.      *)
LEMMA NextNodeDone ==
    ASSUME TablesInv, pc = "source", DoneNode(node), NextNode,
           UNCHANGED <<network, tables>>
    PROVE  /\ DoneInv'
           /\ pc' \in {"source", "print"}
           /\ pc' = "source" => Later # {} /\ node' \in nodes /\ node' > node
           /\ pc' = "print" => Later = {}
           /\ node' \in Routers \cup {NoNode}
<1>1. /\ nodes \subseteq Routers /\ node \in nodes /\ \A u \in nodes : u \in Nat
      /\ \A u \in nodes : u < node => DoneNode(u)
  BY DEF TablesInv, DoneInv, Network
<1>2. \A u \in nodes : DoneNode(u)' <=> DoneNode(u)
  BY RowsSame DEF DoneNode, network, tables
<1>3. nodes' = nodes
  BY DEF network
<1>4. CASE Later = {}
  <2>1. \A u \in nodes : u < node \/ u = node
    BY <1>1, <1>4 DEF Later
  <2>2. pc' = "print" /\ node' = NoNode
    BY <1>4 DEF NextNode
  <2>3. \A u \in nodes : DoneNode(u)
    BY <1>1, <2>1
  <2> QED BY <1>2, <1>3, <1>4, <2>2, <2>3 DEF DoneInv
<1>5. CASE Later # {}
  <2>1. pc' = "source" /\ node' = Min(Later)
    BY <1>5 DEF NextNode
  <2>2. node' \in Later /\ \A n \in Later : node' <= n
    BY <1>1, <1>5, <2>1, LeastNode DEF Later
  <2>3. node' \in nodes /\ node' > node
    BY <2>2 DEF Later
  <2>4. ASSUME NEW u \in nodes, u < node' PROVE DoneNode(u)
    <3>1. u \notin Later
      BY <1>1, <2>2, <2>3, <2>4
    <3>2. u < node \/ u = node
      BY <1>1, <3>1 DEF Later
    <3> QED BY <1>1, <3>2
  <2> QED BY <1>1, <1>2, <1>3, <1>5, <2>1, <2>3, <2>4 DEF DoneInv
<1> QED BY <1>4, <1>5

(* A step that only changes the row of the node at work.                   *)
LEMMA OtherRowsDone ==
    ASSUME TablesInv, pc = "source", UNCHANGED <<pc, node, network>>,
           \A u \in nodes : u # node =>
              distance_vectors'[u] = distance_vectors[u] /\ nextHops'[u] = nextHops[u]
    PROVE  DoneInv'
<1>1. /\ node \in nodes /\ nodes' = nodes /\ nodes \subseteq Nat
      /\ \A u \in nodes : u < node => DoneNode(u)
  BY DEF TablesInv, DoneInv, Network, network
<1>2. ASSUME NEW u \in nodes, u < node PROVE DoneNode(u)'
  <2>1. u # node
    BY <1>1, <1>2
  <2>2. distance_vectors'[u] = distance_vectors[u] /\ nextHops'[u] = nextHops[u]
    BY <2>1
  <2>3. Done(u, distance_vectors[u], nextHops[u])
    BY <1>1, <1>2 DEF DoneNode
  <2>4. Done(u, distance_vectors'[u], nextHops'[u])
    BY <2>2, <2>3
  <2> QED BY <2>4, RowsSame DEF DoneNode, network
<1> QED BY <1>1, <1>2 DEF DoneInv

LEMMA InitTables ==
    ASSUME NewRouters = {}, Init
    PROVE  TablesInv
<1>1. PICK E \in SUBSET Links : \E cost \in [E -> Costs] :
          /\ nodes = UNION {{p[1], p[2]} : p \in E} /\ edge_cost = BothWays(cost)
  BY DEF Init, TopologyInit
<1>2. PICK cost \in [E -> Costs] :
          nodes = UNION {{p[1], p[2]} : p \in E} /\ edge_cost = BothWays(cost)
  BY <1>1
<1>3. \A p \in E : p = <<p[1], p[2]>> /\ p[1] \in Routers /\ p[2] \in Routers
  BY DEF Links
<1>4. /\ DOMAIN edge_cost = E \cup {Reverse(q) : q \in E}
      /\ \A p \in DOMAIN edge_cost :
             edge_cost[p] = IF p \in E THEN cost[p] ELSE cost[Reverse(p)]
  BY <1>2 DEF BothWays
<1>5. nodes \subseteq Routers /\ \A p \in E : p[1] \in nodes /\ p[2] \in nodes
  BY <1>2, <1>3
<1>6. DOMAIN edge_cost \subseteq nodes \X nodes
  BY <1>3, <1>4, <1>5 DEF Reverse
<1>7. ASSUME NEW p \in DOMAIN edge_cost PROVE edge_cost[p] \in Costs
  <2>1. CASE p \in E
    BY <1>4, <2>1
  <2>2. CASE p \notin E
    <3>1. PICK q \in E : p = Reverse(q)
      BY <1>4, <2>2
    <3>2. Reverse(p) = q
      BY <1>3, <3>1 DEF Reverse
    <3> QED BY <1>4, <2>2, <3>2
  <2> QED BY <2>1, <2>2
<1>8. LinksInv
  BY InitLinks
<1>9. Network
  <2>1. nodes # {}
    BY DEF Init, TopologyInit
  <2> QED BY <1>5, <1>6, <1>7, <1>8, <2>1 DEF Network, LinksInv, LinksAgree
<1>10. /\ pc = "init" /\ node = NoNode /\ N = {} /\ i = 0 /\ todo = {}
       /\ program \in {"linkstate", "distvec"}
       /\ distance_vectors = [u \in Routers |-> [v \in Routers |-> 0]]
       /\ nextHops = [u \in Routers |-> [v \in Routers |-> NoNode]]
  BY DEF Init, TopologyInit
<1>11. TablesType
  BY <1>10 DEF TablesType
<1> QED BY <1>8, <1>9, <1>10, <1>11 DEF TablesInv, DoneInv, LinkStateInv, DistVecInv

LEMMA CostType == Costs \subseteq 0..Infinity \/ Routers = {}
<1> SUFFICES ASSUME NEW r \in Routers, NEW c \in Costs PROVE c \in 0..Infinity
  OBVIOUS
<1>1. Size \in Nat /\ Size # 0 /\ c \in Nat /\ c * Size < Infinity
  BY TopologyAssumption, SizeType, FS_EmptySet DEF Size
<1>2. PICK m \in Nat : Size = m + 1
  <2>1. Size - 1 \in Nat /\ Size = (Size - 1) + 1
    BY <1>1
  <2> QED BY <2>1
<1>3. c * (m + 1) = c * m + c * 1 /\ c * m \in Nat
  BY <1>1, Distribute
<1> QED BY <1>1, <1>2, <1>3

LEMMA InitNextHopsDone ==
    ASSUME TablesInv, program = "linkstate", InitNextHops, UNCHANGED <<program, i, todo>>
    PROVE  TablesInv'
<1>1. LinksInv' /\ Network'
  BY NetworkSame DEF TablesInv, InitNextHops
<1>2. nodes' = nodes /\ edge_cost' = edge_cost /\ nodes \subseteq Routers /\ nodes # {}
  BY DEF TablesInv, InitNextHops, network, Network
<1>3. node' \in nodes /\ \A u \in nodes : node' <= u
  BY <1>2, LeastNode DEF InitNextHops
<1>4. nextHops' \in [Routers -> [Routers -> Routers \cup {NoNode, NoHop}]]
  BY DEF InitNextHops
<1>5. TablesType'
  BY <1>2, <1>3, <1>4 DEF TablesType, TablesInv, InitNextHops
<1>6. DoneInv'
  <2>1. \A u \in nodes : ~(u < node')
    BY <1>2, <1>3
  <2> QED BY <1>2, <1>3, <2>1 DEF DoneInv, InitNextHops
<1>7. LinkStateInv'
  <2>1. N' = {} /\ pc' = "source" /\ program' = "linkstate"
    BY DEF InitNextHops
  <2>2. ASSUME NEW u \in nodes, NEW v \in nodes, NextTo(u, v)
        PROVE  nextHops'[u][v] = v
    <3>1. (v = u \/ v \in adj_list[u]) /\ u \in Routers /\ v \in Routers
      BY <1>2, <2>2 DEF TablesInv, LinksInv, LinksAgree, NextTo
    <3> QED BY <3>1 DEF InitNextHops
  <2> QED BY <1>2, <2>1, <2>2 DEF LinkStateInv, NextTo
<1>8. DistVecInv'
  BY DEF DistVecInv, TablesInv, InitNextHops
<1> QED BY <1>1, <1>5, <1>6, <1>7, <1>8 DEF TablesInv

LEMMA BeginDijkstraDone ==
    ASSUME TablesInv, program = "linkstate", BeginDijkstra, UNCHANGED <<program, i, todo>>
    PROVE  TablesInv'
<1>1. LinksInv' /\ Network' /\ Network
  BY NetworkSame DEF TablesInv, BeginDijkstra
<1>2. /\ pc = "source" /\ pc' = pc /\ N = {} /\ N' = {node} /\ node' = node
      /\ nextHops' = nextHops /\ nodes' = nodes /\ edge_cost' = edge_cost
      /\ program' = "linkstate" /\ i' = i /\ todo' = todo /\ UNCHANGED network
  BY DEF BeginDijkstra, network
<1>3. node \in nodes /\ nodes \subseteq Routers
  BY <1>2 DEF TablesInv, DoneInv, Network
<1> DEFINE row == [v \in Routers |->
           IF v = node \/ v \notin nodes THEN 0
           ELSE IF v \in adj_list[node] THEN edge_cost[<<node, v>>] ELSE Infinity]
<1>4. distance_vectors' = [distance_vectors EXCEPT ![node] = row]
  BY DEF BeginDijkstra
<1>5. distance_vectors \in [Routers -> [Routers -> 0..Infinity]]
  BY DEF TablesInv, TablesType
<1>6. /\ distance_vectors'[node] = row
      /\ \A u \in nodes : u # node => distance_vectors'[u] = distance_vectors[u]
  BY <1>3, <1>4, <1>5
<1>7. \A v \in nodes : v \in adj_list[node] <=> <<node, v>> \in DOMAIN edge_cost
  BY <1>3 DEF TablesInv, LinksInv, LinksAgree
<1>8. row \in [Routers -> 0..Infinity]
  <2>1. ASSUME NEW v \in nodes, v \in adj_list[node]
        PROVE  edge_cost[<<node, v>>] \in 0..Infinity
    <3>1. edge_cost[<<node, v>>] \in Costs
      BY <1>1, <1>7, <2>1 DEF Network
    <3> QED BY <1>3, <3>1, CostType
  <2>2. 0 \in 0..Infinity /\ Infinity \in 0..Infinity
    OBVIOUS
  <2> QED BY <2>1, <2>2
<1>9. FirstRow(node, row, nextHops[node])
  <2>1. ASSUME NEW v \in nodes, NextTo(node, v) PROVE nextHops[node][v] = v
    BY <1>2, <1>3, <2>1 DEF TablesInv, LinkStateInv
  <2>2. ASSUME NEW v \in nodes
        PROVE  row[v] = IF v = node THEN 0
                    ELSE IF <<node, v>> \in DOMAIN edge_cost THEN LinkCost(node, v) ELSE Infinity
    BY <1>3, <1>7 DEF LinkCost
  <2> QED BY <2>1, <2>2 DEF FirstRow
<1> HIDE DEF row
<1>10. DijkstraRow(node, {node}, row, nextHops[node])
  BY <1>1, <1>3, <1>9, DijkstraBegins
<1>11. DoneInv'
  BY <1>2, <1>6, OtherRowsDone DEF network
<1>12. TablesType'
  <2>1. distance_vectors' \in [Routers -> [Routers -> 0..Infinity]]
    BY <1>4, <1>5, <1>8
  <2> QED BY <1>2, <1>3, <2>1 DEF TablesType, TablesInv
<1>13. LinkStateInv'
  <2>1. DijkstraRow(node, N, distance_vectors[node], nextHops[node])'
    BY <1>2, <1>6, <1>10, RowsSame
  <2>2. \A u, v \in nodes : u > node /\ NextTo(u, v) => nextHops[u][v] = v
    BY <1>2 DEF TablesInv, LinkStateInv
  <2>3. N' # {}
    BY <1>2
  <2> QED BY <1>2, <2>1, <2>2, <2>3 DEF LinkStateInv, NextTo
<1>14. DistVecInv'
  BY <1>2 DEF DistVecInv, TablesInv
<1> QED BY <1>1, <1>11, <1>12, <1>13, <1>14 DEF TablesInv

(* No node that is left has a lower cost than the one that is taken.       *)
LEMMA LowestCost ==
    ASSUME nodes \subseteq Routers, RowType(Row), NEW w \in findLowestCostNode, N # nodes,
           N \subseteq nodes
    PROVE  w \in nodes \ N /\ \A u \in nodes \ N : Row[w] <= Row[u]
<1> DEFINE left == nodes \ N
           least == {x \in left : Row[x] < Infinity /\ \A u \in left : Row[x] <= Row[u]}
           costs == {Row[x] : x \in left}
<1>1. \A x \in left : Row[x] \in Nat /\ Row[x] <= Infinity
  BY DEF RowType
<1>2. w \in IF least = {} THEN left ELSE {Min(least)}
  BY DEF findLowestCostNode
<1>3. least \subseteq left /\ left \subseteq nodes /\ left # {}
  OBVIOUS
<1>4. CASE least # {}
  <2>1. Min(least) \in least
    <3> HIDE DEF left, least
    <3> QED BY <1>3, <1>4, LeastNode
  <2> QED BY <1>2, <1>4, <2>1
<1>5. CASE least = {}
  <2>1. w \in left
    BY <1>2, <1>5
  <2>2. ASSUME NEW u \in left, Row[w] > Row[u] PROVE FALSE
    <3>1. costs \subseteq Nat /\ costs # {}
      BY <1>1, <2>1
    <3>2. PICK c \in costs : \A d \in costs : c <= d
      <4> HIDE DEF costs
      <4> QED BY <3>1, LeastNumber
    <3>3. PICK x \in left : c = Row[x]
      BY <3>2
    <3>4. \A y \in left : Row[x] <= Row[y]
      BY <3>2, <3>3
    <3>5. Row[x] < Infinity
      BY <1>1, <2>1, <2>2, <3>4
    <3> QED BY <1>5, <3>4, <3>5
  <2> QED BY <1>1, <2>1, <2>2
<1> QED BY <1>4, <1>5

LEMMA SettleDone ==
    ASSUME TablesInv, program = "linkstate", Settle, UNCHANGED <<program, i, todo>>
    PROVE  TablesInv'
<1>1. LinksInv' /\ Network' /\ Network
  BY NetworkSame DEF TablesInv, Settle
<1>2. /\ pc = "source" /\ pc' = pc /\ N # {} /\ N # nodes /\ node' = node
      /\ nodes' = nodes /\ edge_cost' = edge_cost
      /\ program' = "linkstate" /\ i' = i /\ todo' = todo /\ UNCHANGED network
  BY DEF Settle, network
<1>3. /\ node \in nodes /\ nodes \subseteq Routers /\ N \subseteq nodes
      /\ DijkstraRow(node, N, Row, nextHops[node])
  BY <1>2 DEF TablesInv, TablesType, DoneInv, LinkStateInv, Network, Row
<1>4. PICK w \in findLowestCostNode :
          LET relaxed == adj_list[w] \ (N \cup {w})
          IN  /\ N' = N \cup {w}
              /\ distance_vectors' = [distance_vectors EXCEPT ![node] = [v \in Routers |->
                     IF v \in relaxed /\ BetterCost(w, v) THEN NewCost(w, v) ELSE Row[v]]]
              /\ nextHops' = [nextHops EXCEPT ![node] = [v \in Routers |->
                     IF v \in relaxed /\ BetterHop(w, v)
                     THEN nextHops[node][w] ELSE nextHops[node][v]]]
  BY DEF Settle
<1> DEFINE relaxed == adj_list[w] \ (N \cup {w})
           row == [v \in Routers |->
                     IF v \in relaxed /\ BetterCost(w, v) THEN NewCost(w, v) ELSE Row[v]]
           hops == [v \in Routers |->
                     IF v \in relaxed /\ BetterHop(w, v)
                     THEN nextHops[node][w] ELSE nextHops[node][v]]
<1>5. /\ N' = N \cup {w}
      /\ distance_vectors' = [distance_vectors EXCEPT ![node] = row]
      /\ nextHops' = [nextHops EXCEPT ![node] = hops]
  BY <1>4
<1>6. w \in nodes \ N /\ \A u \in nodes \ N : Row[w] <= Row[u]
  BY <1>2, <1>3, LowestCost DEF DijkstraRow
<1>7. \A v \in nodes : v \in relaxed <=> /\ <<w, v>> \in DOMAIN edge_cost
                                         /\ v \notin N /\ v # w
  BY <1>3, <1>6 DEF TablesInv, LinksInv, LinksAgree
<1>8. \A v \in nodes : Row[v] \in Nat /\ Row[v] <= Infinity
  BY <1>3 DEF DijkstraRow, RowType
<1>9. Row[w] = Cost(node, w)
  BY <1>1, <1>3, <1>6, LeastLeft
<1>10. ASSUME NEW v \in nodes, v \in relaxed
       PROVE  /\ LinkCost(w, v) \in Nat \ {0}
              /\ IF Row[w] = Infinity THEN NewCost(w, v) < 0
                 ELSE NewCost(w, v) = Row[w] + LinkCost(w, v)
  <2>1. <<w, v>> \in DOMAIN edge_cost /\ Row[w] \in Nat /\ Row[w] <= Infinity /\ node \in Routers
    BY <1>3, <1>6, <1>7, <1>8, <1>10
  <2>2. LinkCost(w, v) \in Nat \ {0}
    BY <1>1, <2>1, LinkType
  <2>3. CASE Row[w] = Infinity
    <3>1. Plus(Row[w], edge_cost[<<w, v>>]) < 0
      BY <1>1, <2>1, <2>3, PlusLink
    <3> QED BY <2>2, <2>3, <3>1 DEF NewCost
  <2>4. CASE Row[w] # Infinity
    <3>1. Cost(node, w) + LinkCost(w, v) < Infinity
      BY <1>1, <1>9, <2>1, <2>4, CostHasRoom
    <3>2. Row[w] + LinkCost(w, v) <= Infinity
      BY <1>9, <2>1, <2>2, <3>1
    <3>3. Plus(Row[w], edge_cost[<<w, v>>]) = Row[w] + LinkCost(w, v)
      BY <1>1, <2>1, <3>2, PlusLink
    <3> QED BY <2>2, <2>4, <3>3 DEF NewCost
  <2> QED BY <2>3, <2>4
<1>11. ASSUME NEW v \in nodes
       PROVE  /\ row[v] = IF v \in relaxed /\ BetterCost(w, v) THEN NewCost(w, v) ELSE Row[v]
              /\ hops[v] = IF v \in relaxed /\ BetterHop(w, v)
                           THEN nextHops[node][w] ELSE nextHops[node][v]
  BY <1>3
<1>12. row \in [Routers -> 0..Infinity]
  <2>1. ASSUME NEW v \in Routers, v \in relaxed, BetterCost(w, v)
        PROVE  NewCost(w, v) \in 0..Infinity
    <3>1. v \in nodes
      <4>1. <<w, v>> \in DOMAIN edge_cost
        BY <1>3, <1>6, <2>1 DEF TablesInv, LinksInv, LinksAgree
      <4> QED BY <1>1, <4>1, LinkType
    <3>2. Row[w] \in Nat /\ Row[v] \in Nat /\ Row[v] <= Infinity
      BY <1>6, <1>8, <3>1
    <3>3. NewCost(w, v) < Row[v] /\ NewCost(w, v) > 0
      BY <2>1 DEF BetterCost
    <3>4. NewCost(w, v) \in Int
      <4>1. LinkCost(w, v) \in Nat
        BY <1>10, <2>1, <3>1
      <4> QED BY <3>2, <4>1 DEF NewCost, Plus, LinkCost
    <3> QED BY <3>2, <3>3, <3>4
  <2>2. Row \in [Routers -> 0..Infinity]
    BY <1>3 DEF TablesInv, TablesType, Row
  <2> QED BY <2>1, <2>2
<1>13. hops \in [Routers -> Routers \cup {NoNode, NoHop}]
  <2>1. nextHops[node] \in [Routers -> Routers \cup {NoNode, NoHop}] /\ w \in Routers
    BY <1>3, <1>6 DEF TablesInv, TablesType
  <2> QED BY <2>1
<1> HIDE DEF row, hops, relaxed
<1>14. ASSUME NEW v \in nodes
       PROVE  \/ row[v] = Row[v] /\ hops[v] = nextHops[node][v]
              \/ /\ <<w, v>> \in DOMAIN edge_cost /\ v \notin N
                 /\ row[v] = Row[w] + LinkCost(w, v) /\ row[v] <= Row[v]
                 /\ hops[v] = nextHops[node][w]
  <2>1. CASE v \notin relaxed
    BY <1>11, <2>1
  <2>2. CASE v \in relaxed /\ Row[w] = Infinity
    <3>1. NewCost(w, v) < 0
      BY <1>10, <2>2
    <3>2. ~BetterCost(w, v) /\ ~BetterHop(w, v)
      <4>1. NewCost(w, v) \in Int
        BY <1>6, <1>8, <1>10, <2>2 DEF NewCost, Plus, LinkCost
      <4> QED BY <3>1, <4>1 DEF BetterCost, BetterHop
    <3> QED BY <1>11, <3>2
  <2>3. CASE v \in relaxed /\ Row[w] # Infinity
    <3>1. NewCost(w, v) = Row[w] + LinkCost(w, v) /\ LinkCost(w, v) \in Nat \ {0}
      BY <1>10, <2>3
    <3>2. <<w, v>> \in DOMAIN edge_cost /\ v \notin N
      BY <1>7, <2>3
    <3>3. Row[w] \in Nat /\ Row[v] \in Nat
      BY <1>6, <1>8
    <3>4. CASE NewCost(w, v) < Row[v]
      <4>1. BetterCost(w, v) /\ BetterHop(w, v)
        BY <3>1, <3>3, <3>4 DEF BetterCost, BetterHop
      <4>2. row[v] = NewCost(w, v) /\ hops[v] = nextHops[node][w]
        BY <1>11, <2>3, <4>1
      <4> QED BY <3>1, <3>2, <3>3, <3>4, <4>2
    <3>5. CASE ~(NewCost(w, v) < Row[v])
      <4>1. ~BetterCost(w, v) /\ (BetterHop(w, v) => NewCost(w, v) = Row[v])
        BY <3>5 DEF BetterCost, BetterHop
      <4>2. row[v] = Row[v]
        BY <1>11, <4>1
      <4> QED BY <1>11, <2>3, <3>1, <3>2, <3>3, <4>1, <4>2
    <3> QED BY <3>4, <3>5
  <2> QED BY <2>1, <2>2, <2>3
<1>15. ASSUME NEW v \in nodes \ N, <<w, v>> \in DOMAIN edge_cost
       PROVE  row[v] <= Row[w] + LinkCost(w, v)
  <2>1. Row[w] \in Nat /\ Row[v] \in Nat /\ Row[v] <= Infinity /\ LinkCost(w, v) \in Nat
    BY <1>1, <1>6, <1>8, <1>15, LinkType
  <2>2. CASE v = w
    <3>1. row[w] = Row[w]
      BY <1>6, <1>7, <1>11
    <3> QED BY <2>1, <2>2, <3>1
  <2>3. CASE v # w /\ Row[w] = Infinity
    <3>1. row[v] = Row[v] \/ row[v] = Row[w] + LinkCost(w, v)
      <4>1. v \in nodes
        OBVIOUS
      <4> QED BY <1>14, <4>1
    <3> QED BY <2>1, <2>3, <3>1
  <2>4. CASE v # w /\ Row[w] # Infinity
    <3>1. v \in relaxed
      BY <1>7, <1>15, <2>4
    <3>2. NewCost(w, v) = Row[w] + LinkCost(w, v) /\ LinkCost(w, v) \in Nat \ {0}
      BY <1>10, <2>4, <3>1
    <3>3. CASE NewCost(w, v) < Row[v]
      <4>1. BetterCost(w, v)
        BY <2>1, <3>2, <3>3 DEF BetterCost
      <4>2. row[v] = NewCost(w, v)
        BY <1>11, <3>1, <4>1
      <4> QED BY <2>1, <3>2, <4>2
    <3>4. CASE ~(NewCost(w, v) < Row[v])
      <4>1. row[v] = Row[v]
        BY <1>11, <3>4 DEF BetterCost
      <4> QED BY <2>1, <3>2, <3>4, <4>1
    <3> QED BY <3>3, <3>4
  <2> QED BY <2>2, <2>3, <2>4
<1>16. DijkstraRow(node, N \cup {w}, row, hops)
  BY <1>1, <1>3, <1>6, <1>14, <1>15, SettleRow
<1>17. /\ distance_vectors'[node] = row /\ nextHops'[node] = hops
       /\ \A u \in nodes : u # node => /\ distance_vectors'[u] = distance_vectors[u]
                                       /\ nextHops'[u] = nextHops[u]
  BY <1>3, <1>5 DEF TablesInv, TablesType
<1>18. DoneInv'
  BY <1>2, <1>17, OtherRowsDone
<1>19. TablesType'
  <2>1. distance_vectors' \in [Routers -> [Routers -> 0..Infinity]]
    BY <1>5, <1>12 DEF TablesInv, TablesType
  <2>2. nextHops' \in [Routers -> [Routers -> Routers \cup {NoNode, NoHop}]]
    BY <1>5, <1>13 DEF TablesInv, TablesType
  <2>3. N' \subseteq nodes'
    BY <1>2, <1>3, <1>5, <1>6
  <2> QED BY <1>2, <2>1, <2>2, <2>3 DEF TablesType, TablesInv
<1>20. LinkStateInv'
  <2>1. DijkstraRow(node, N, distance_vectors[node], nextHops[node])'
    BY <1>2, <1>5, <1>16, <1>17, RowsSame
  <2>2. ASSUME NEW u \in nodes, NEW v \in nodes, u > node, NextTo(u, v)
        PROVE  nextHops'[u][v] = v
    <3>1. u # node
      BY <1>3, <2>2
    <3>2. nextHops'[u] = nextHops[u] /\ nextHops[u][v] = v
      BY <1>2, <1>17, <2>2, <3>1 DEF TablesInv, LinkStateInv
    <3> QED BY <3>2
  <2>3. N' # {}
    BY <1>5
  <2> QED BY <1>2, <2>1, <2>2, <2>3 DEF LinkStateInv, NextTo
<1>21. DistVecInv'
  BY <1>2 DEF DistVecInv, TablesInv
<1> QED BY <1>1, <1>18, <1>19, <1>20, <1>21 DEF TablesInv

LEMMA SettleNoneDone ==
    ASSUME TablesInv, program = "linkstate", SettleNone, UNCHANGED <<program, i, todo>>
    PROVE  TablesInv'
<1>1. LinksInv' /\ Network' /\ Network
  BY NetworkSame DEF TablesInv, SettleNone
<1>2. /\ pc = "source" /\ pc' = pc /\ N # {} /\ N' = nodes /\ node' = node
      /\ nodes' = nodes /\ edge_cost' = edge_cost
      /\ distance_vectors' = distance_vectors /\ nextHops' = nextHops
      /\ program' = "linkstate" /\ i' = i /\ todo' = todo /\ UNCHANGED network
      /\ \A w \in nodes \ N : Row[w] = Infinity
  BY DEF SettleNone, network, tables
<1>3. node \in nodes /\ DijkstraRow(node, N, Row, nextHops[node])
  BY <1>2 DEF TablesInv, DoneInv, LinkStateInv, Row
<1>4. DijkstraRow(node, nodes, Row, nextHops[node])
  BY <1>1, <1>2, <1>3, SettleRest
<1>5. LinkStateInv'
  <2>1. DijkstraRow(node, N, distance_vectors[node], nextHops[node])'
    BY <1>2, <1>4, RowsSame DEF Row
  <2>2. N' # {}
    BY <1>2, <1>3
  <2>3. \A u, v \in nodes : u > node /\ NextTo(u, v) => nextHops[u][v] = v
    BY <1>2 DEF TablesInv, LinkStateInv
  <2> QED BY <1>2, <2>1, <2>2, <2>3 DEF LinkStateInv, NextTo
<1>6. DoneInv'
  BY <1>2, OtherRowsDone
<1>7. TablesType' /\ DistVecInv'
  BY <1>2 DEF TablesType, TablesInv, DistVecInv
<1> QED BY <1>1, <1>5, <1>6, <1>7 DEF TablesInv

LEMMA EndDijkstraDone ==
    ASSUME TablesInv, program = "linkstate", EndDijkstra, UNCHANGED <<program, i, todo>>
    PROVE  TablesInv'
<1>1. LinksInv' /\ Network' /\ Network /\ UNCHANGED <<network, tables>>
  BY NetworkSame DEF TablesInv, EndDijkstra
<1>2. /\ pc = "source" /\ N = nodes /\ N' = {} /\ N # {} /\ NextNode
      /\ nodes' = nodes /\ edge_cost' = edge_cost
      /\ distance_vectors' = distance_vectors /\ nextHops' = nextHops
      /\ program' = "linkstate" /\ i' = i /\ todo' = todo
  BY <1>1 DEF EndDijkstra, network, tables, Network
<1>3. node \in nodes /\ DijkstraRow(node, nodes, distance_vectors[node], nextHops[node])
  BY <1>2 DEF TablesInv, DoneInv, LinkStateInv
<1>4. DoneNode(node)
  BY <1>3, DijkstraEnds DEF DoneNode
<1>5. /\ DoneInv' /\ pc' \in {"source", "print"}
      /\ pc' = "source" => Later # {} /\ node' \in nodes /\ node' > node
      /\ node' \in Routers \cup {NoNode}
  BY <1>1, <1>2, <1>4, NextNodeDone
<1>6. TablesType'
  BY <1>2, <1>5 DEF TablesType, TablesInv
<1>7. LinkStateInv'
  <2>1. ASSUME pc' = "source", NEW u \in nodes, NEW v \in nodes,
               u > node' \/ u = node', NextTo(u, v)
        PROVE  nextHops[u][v] = v
    <3>1. u > node
      <4>1. u \in Nat /\ node \in Nat /\ node' \in Nat /\ node' > node
        BY <1>3, <1>5, <2>1 DEF TablesInv, Network
      <4> QED BY <2>1, <4>1
    <3> QED BY <1>2, <2>1, <3>1 DEF TablesInv, LinkStateInv
  <2> QED BY <1>2, <2>1 DEF LinkStateInv, NextTo
<1>8. DistVecInv'
  BY <1>2 DEF DistVecInv, TablesInv
<1> QED BY <1>1, <1>5, <1>6, <1>7, <1>8 DEF TablesInv

LEMMA InitDistanceVectorsDone ==
    ASSUME TablesInv, program = "distvec", InitDistanceVectors, UNCHANGED <<program, N>>
    PROVE  TablesInv'
<1>1. LinksInv' /\ Network' /\ Network /\ UNCHANGED network
  BY NetworkSame DEF TablesInv, InitDistanceVectors
<1>2. /\ nodes' = nodes /\ edge_cost' = edge_cost /\ nodes \subseteq Routers /\ nodes # {}
      /\ pc' = "source" /\ i' = 0 /\ todo' = DOMAIN edge_cost /\ program' = "distvec"
      /\ N' = N
  BY <1>1 DEF InitDistanceVectors, network, Network
<1>3. node' \in nodes /\ \A u \in nodes : node' <= u
  BY <1>2, LeastNode DEF InitDistanceVectors
<1>4. \A u, v \in Routers : <<u, v>> \in DOMAIN edge_cost => edge_cost[<<u, v>>] \in 0..Infinity
  BY <1>1, CostType DEF Network
<1>5. distance_vectors' \in [Routers -> [Routers -> 0..Infinity]]
  <2>1. 0 \in 0..Infinity /\ Infinity \in 0..Infinity
    OBVIOUS
  <2> QED BY <1>4, <2>1 DEF InitDistanceVectors
<1>6. nextHops' \in [Routers -> [Routers -> Routers \cup {NoNode, NoHop}]]
  BY DEF InitDistanceVectors
<1>7. TablesType'
  BY <1>2, <1>3, <1>5, <1>6 DEF TablesType, TablesInv
<1>8. DoneInv'
  <2>1. \A u \in nodes : ~(u < node')
    BY <1>2, <1>3
  <2> QED BY <1>2, <1>3, <2>1 DEF DoneInv
<1>9. ASSUME NEW u \in nodes PROVE FirstRow(u, distance_vectors'[u], nextHops'[u])
  <2>1. ASSUME NEW v \in nodes
        PROVE  /\ {u, v} \cap nodes = {u, v}
               /\ u \in Routers /\ v \in Routers
    BY <1>2
  <2>2. ASSUME NEW v \in nodes
        PROVE  /\ distance_vectors'[u][v] = IF v = u THEN 0
                     ELSE IF <<u, v>> \in DOMAIN edge_cost THEN LinkCost(u, v) ELSE Infinity
               /\ NextTo(u, v) => nextHops'[u][v] = v
    BY <2>1 DEF InitDistanceVectors, LinkCost, NextTo
  <2> QED BY <2>2 DEF FirstRow
<1>10. FordRow(node', 0, DOMAIN edge_cost, distance_vectors'[node'], nextHops'[node'])
  BY <1>1, <1>3, <1>9, FordBegins
<1>11. DistVecInv'
  <2>1. FordRow(node, i, todo, distance_vectors[node], nextHops[node])'
    BY <1>2, <1>10, RowsSame
  <2>2. ASSUME NEW u \in nodes PROVE FirstRow(u, distance_vectors[u], nextHops[u])'
    BY <1>2, <1>9, RowsSame
  <2> QED BY <1>2, <2>1, <2>2 DEF DistVecInv
<1>12. LinkStateInv'
  BY <1>2 DEF LinkStateInv, TablesInv, NextTo
<1> QED BY <1>1, <1>7, <1>8, <1>11, <1>12 DEF TablesInv

LEMMA NextEdgeDone ==
    ASSUME TablesInv, program = "distvec", NextEdge, UNCHANGED <<program, N>>
    PROVE  TablesInv'
<1>1. LinksInv' /\ Network' /\ Network
  BY NetworkSame DEF TablesInv, NextEdge
<1>2. /\ pc = "source" /\ pc' = pc /\ node' = node /\ i' = i /\ UNCHANGED network
      /\ nodes' = nodes /\ edge_cost' = edge_cost /\ program' = "distvec" /\ N' = N
  BY DEF NextEdge, network
<1>3. /\ node \in nodes /\ nodes \subseteq Routers /\ todo \subseteq DOMAIN edge_cost /\ i \in Nat
      /\ FordRow(node, i, todo, Row, nextHops[node])
      /\ distance_vectors \in [Routers -> [Routers -> 0..Infinity]]
      /\ nextHops \in [Routers -> [Routers -> Routers \cup {NoNode, NoHop}]]
  BY <1>2 DEF TablesInv, TablesType, DoneInv, DistVecInv, Network, Row
<1>4. PICK p \in todo : todo' = todo \ {p} /\ UpdateDistanceVector(p[1], p[2])
  BY DEF NextEdge
<1>5. PICK u \in nodes, v \in nodes : p = <<u, v>> /\ p[1] = u /\ p[2] = v
  BY <1>1, <1>3 DEF Network
<1>6. /\ <<u, v>> \in DOMAIN edge_cost /\ todo' = todo \ {<<u, v>>}
      /\ UpdateDistanceVector(u, v)
  BY <1>3, <1>4, <1>5
<1>7. /\ \A x \in nodes : Row[x] \in Nat /\ Row[x] <= Infinity
      /\ RowType(Row) /\ RowBound(Row)
  BY <1>3 DEF FordRow, RowType
<1>8. ASSUME Row[u] # Infinity
      PROVE  /\ Plus(Row[u], edge_cost[<<u, v>>]) = Row[u] + LinkCost(u, v)
             /\ Row[u] + LinkCost(u, v) \in 0..Infinity
  <2>1. /\ Row[u] + LinkCost(u, v) <= Infinity
        /\ Row[u] \in Nat /\ LinkCost(u, v) \in Nat \ {0}
    BY <1>1, <1>6, <1>7, <1>8, FordRoom
  <2>2. Row[u] <= Infinity
    BY <1>7
  <2>3. Plus(Row[u], edge_cost[<<u, v>>]) = Row[u] + LinkCost(u, v)
    BY <1>1, <1>6, <2>1, <2>2, PlusLink
  <2> QED BY <2>1, <2>3
<1>9. CASE Row[u] # Infinity /\ Row[u] + LinkCost(u, v) < Row[v]
  <2> DEFINE cost == Plus(Row[u], edge_cost[<<u, v>>])
  <2>1. cost = Row[u] + LinkCost(u, v) /\ cost \in 0..Infinity
    BY <1>8, <1>9
  <2>2. cost \in Int /\ Row[v] \in Int /\ Row[v] > cost
    BY <1>7, <1>9, <2>1
  <2>3. /\ distance_vectors' = [distance_vectors EXCEPT ![node][v] = cost]
        /\ nextHops' = [nextHops EXCEPT ![node][v] = nextHops[node][u]]
    BY <1>6, <1>9, <2>2 DEF UpdateDistanceVector, HopOver
  <2> HIDE DEF cost
  <2>4. /\ distance_vectors'[node] = [Row EXCEPT ![v] = cost]
        /\ nextHops'[node] = [nextHops[node] EXCEPT ![v] = nextHops[node][u]]
        /\ \A x \in nodes : x # node => /\ distance_vectors'[x] = distance_vectors[x]
                                        /\ nextHops'[x] = nextHops[x]
    BY <1>3, <2>3 DEF Row
  <2>5. Improved(Row, nextHops[node], u, v, distance_vectors'[node], nextHops'[node])
    <3>1. Row \in [Routers -> 0..Infinity]
          /\ nextHops[node] \in [Routers -> Routers \cup {NoNode, NoHop}]
      BY <1>3 DEF Row
    <3> QED BY <1>3, <2>1, <2>4, <3>1 DEF Improved
  <2>6. FordRow(node, i, todo \ {<<u, v>>}, distance_vectors'[node], nextHops'[node])
    BY <1>1, <1>3, <1>6, <1>9, <2>5, FordEdge
  <2>7. distance_vectors' \in [Routers -> [Routers -> 0..Infinity]]
    BY <1>3, <2>1, <2>3
  <2>8. nextHops' \in [Routers -> [Routers -> Routers \cup {NoNode, NoHop}]]
    BY <1>3, <2>3
  <2>9. TablesType'
    BY <1>2, <1>3, <1>6, <2>7, <2>8 DEF TablesType, TablesInv
  <2>10. DoneInv'
    BY <1>2, <2>4, OtherRowsDone
  <2>11. DistVecInv'
    <3>1. FordRow(node, i, todo, distance_vectors[node], nextHops[node])'
      BY <1>2, <1>6, <2>6, RowsSame
    <3>2. ASSUME NEW x \in nodes, x > node
          PROVE  FirstRow(x, distance_vectors[x], nextHops[x])'
      <4>1. x # node
        BY <1>3, <3>2
      <4>2. FirstRow(x, distance_vectors[x], nextHops[x])
        BY <1>2, <3>2 DEF TablesInv, DistVecInv
      <4>3. FirstRow(x, distance_vectors'[x], nextHops'[x])
        BY <2>4, <4>1, <4>2
      <4> QED BY <1>2, <4>3, RowsSame
    <3> QED BY <1>2, <3>1, <3>2 DEF DistVecInv
  <2>12. LinkStateInv'
    BY <1>2 DEF LinkStateInv, TablesInv, NextTo
  <2> QED BY <1>1, <2>9, <2>10, <2>11, <2>12 DEF TablesInv
<1>10. CASE Row[u] = Infinity \/ ~(Row[u] + LinkCost(u, v) < Row[v])
  <2>1. distance_vectors' = distance_vectors /\ nextHops' = nextHops
    <3>1. CASE Row[u] = Infinity
      BY <1>6, <3>1 DEF UpdateDistanceVector, tables
    <3>2. CASE Row[u] # Infinity
      <4>1. ~(Row[v] > Plus(Row[u], edge_cost[<<u, v>>]))
        <5>1. Plus(Row[u], edge_cost[<<u, v>>]) = Row[u] + LinkCost(u, v)
              /\ Row[u] + LinkCost(u, v) \in Int /\ Row[v] \in Int
          BY <1>7, <1>8, <3>2
        <5> QED BY <1>10, <3>2, <5>1
      <4> QED BY <1>6, <4>1 DEF UpdateDistanceVector, tables
    <3> QED BY <3>1, <3>2
  <2>2. Row[u] = Infinity \/ Row[u] + LinkCost(u, v) >= Row[v]
    <3>1. LinkCost(u, v) \in Nat /\ Row[u] \in Nat /\ Row[v] \in Nat
      BY <1>1, <1>6, <1>7, LinkType
    <3> QED BY <1>10, <3>1
  <2>3. FordRow(node, i, todo \ {<<u, v>>}, Row, nextHops[node])
    BY <1>1, <1>3, <1>6, <2>2, FordEdge
  <2>4. TablesType'
    BY <1>2, <1>3, <1>6, <2>1 DEF TablesType, TablesInv
  <2>5. DoneInv'
    BY <1>2, <2>1, OtherRowsDone
  <2>6. DistVecInv'
    <3>1. FordRow(node, i, todo, distance_vectors[node], nextHops[node])'
      BY <1>2, <1>6, <2>1, <2>3, RowsSame DEF Row
    <3>2. ASSUME NEW x \in nodes, x > node
          PROVE  FirstRow(x, distance_vectors[x], nextHops[x])'
      <4>1. FirstRow(x, distance_vectors[x], nextHops[x])
        BY <1>2, <3>2 DEF TablesInv, DistVecInv
      <4> QED BY <1>2, <2>1, <4>1, RowsSame
    <3> QED BY <1>2, <3>1, <3>2 DEF DistVecInv
  <2>7. LinkStateInv'
    BY <1>2 DEF LinkStateInv, TablesInv, NextTo
  <2> QED BY <1>1, <2>4, <2>5, <2>6, <2>7 DEF TablesInv
<1> QED BY <1>9, <1>10

LEMMA NextRoundDone ==
    ASSUME TablesInv, program = "distvec", NextRound, UNCHANGED <<program, N>>
    PROVE  TablesInv'
<1>1. LinksInv' /\ Network' /\ Network
  BY NetworkSame DEF TablesInv, NextRound
<1>2. /\ pc = "source" /\ pc' = pc /\ node' = node /\ i' = i + 1 /\ UNCHANGED network
      /\ todo = {} /\ todo' = DOMAIN edge_cost /\ program' = "distvec" /\ N' = N
      /\ nodes' = nodes /\ edge_cost' = edge_cost
      /\ distance_vectors' = distance_vectors /\ nextHops' = nextHops
  BY DEF NextRound, network, tables
<1>3. /\ node \in nodes /\ i \in Nat /\ i + 1 \in Nat
      /\ FordRow(node, i, {}, distance_vectors[node], nextHops[node])
  <2>1. i \in Nat
    BY DEF TablesInv, TablesType
  <2> QED BY <1>2, <2>1 DEF TablesInv, DoneInv, DistVecInv
<1>4. FordRow(node, i + 1, DOMAIN edge_cost, distance_vectors[node], nextHops[node])
  BY <1>1, <1>3, FordRound
<1>5. DistVecInv'
  <2>1. FordRow(node, i, todo, distance_vectors[node], nextHops[node])'
    BY <1>2, <1>4, RowsSame
  <2>2. ASSUME NEW x \in nodes, x > node
        PROVE  FirstRow(x, distance_vectors[x], nextHops[x])'
    <3>1. FirstRow(x, distance_vectors[x], nextHops[x])
      BY <1>2, <2>2 DEF TablesInv, DistVecInv
    <3> QED BY <1>2, <3>1, RowsSame
  <2> QED BY <1>2, <2>1, <2>2 DEF DistVecInv
<1>6. DoneInv'
  BY <1>2, OtherRowsDone
<1>7. TablesType' /\ LinkStateInv'
  BY <1>2, <1>3 DEF TablesType, TablesInv, LinkStateInv
<1> QED BY <1>1, <1>5, <1>6, <1>7 DEF TablesInv

LEMMA EndUpdateDone ==
    ASSUME TablesInv, program = "distvec", EndUpdate, UNCHANGED <<program, N>>
    PROVE  TablesInv'
<1>1. LinksInv' /\ Network' /\ Network /\ UNCHANGED <<network, tables>>
  BY NetworkSame DEF TablesInv, EndUpdate
<1>2. /\ pc = "source" /\ NextNode /\ i' = 0 /\ i + 1 >= Cardinality(nodes) - 1
      /\ todo' = IF Later = {} THEN {} ELSE DOMAIN edge_cost
      /\ nodes' = nodes /\ edge_cost' = edge_cost
      /\ distance_vectors' = distance_vectors /\ nextHops' = nextHops
      /\ program' = "distvec" /\ N' = N
  BY <1>1 DEF EndUpdate, network, tables, Rounds
<1>3. /\ node \in nodes /\ i \in Nat
      /\ FordRow(node, i, todo, distance_vectors[node], nextHops[node])
      /\ \A u \in nodes : u > node => FirstRow(u, distance_vectors[u], nextHops[u])
  BY <1>2 DEF TablesInv, TablesType, DoneInv, DistVecInv
<1>4. DoneNode(node)
  BY <1>1, <1>2, <1>3, FordEnds DEF DoneNode
<1>5. /\ DoneInv' /\ pc' \in {"source", "print"}
      /\ pc' = "source" => Later # {} /\ node' \in nodes /\ node' > node
      /\ pc' = "print" => Later = {}
      /\ node' \in Routers \cup {NoNode}
  BY <1>1, <1>2, <1>4, NextNodeDone
<1>6. TablesType'
  BY <1>2, <1>5 DEF TablesType, TablesInv
<1>7. DistVecInv'
  <2>1. CASE pc' = "source"
    <3>1. FirstRow(node', distance_vectors[node'], nextHops[node'])
      BY <1>3, <1>5, <2>1
    <3>2. FordRow(node', 0, DOMAIN edge_cost, distance_vectors[node'], nextHops[node'])
      BY <1>1, <1>5, <2>1, <3>1, FordBegins
    <3>3. FordRow(node', i', todo', distance_vectors'[node'], nextHops'[node'])
      BY <1>2, <1>5, <2>1, <3>2
    <3>4. FordRow(node, i, todo, distance_vectors[node], nextHops[node])'
      BY <1>2, <3>3, RowsSame
    <3>5. ASSUME NEW u \in nodes, u > node'
          PROVE  FirstRow(u, distance_vectors[u], nextHops[u])'
      <4>1. u \in Nat /\ node \in Nat /\ node' \in Nat /\ node' > node
        BY <1>3, <1>5, <2>1 DEF TablesInv, Network
      <4>2. u > node
        BY <3>5, <4>1
      <4>3. FirstRow(u, distance_vectors[u], nextHops[u])
        BY <1>3, <4>2
      <4> QED BY <1>2, <4>3, RowsSame
    <3> QED BY <1>2, <2>1, <3>4, <3>5 DEF DistVecInv
  <2>2. CASE pc' = "print"
    BY <1>2, <1>5, <2>2 DEF DistVecInv
  <2> QED BY <1>5, <2>1, <2>2
<1>8. LinkStateInv'
  BY <1>2 DEF LinkStateInv, TablesInv, NextTo
<1> QED BY <1>1, <1>5, <1>6, <1>7, <1>8 DEF TablesInv

(* Steps that only print or send messages.                                 *)
LEMMA MessageStepDone ==
    ASSUME TablesInv, UNCHANGED <<program, network, tables, node, N, i, todo>>,
           pc' = pc \/ (pc \in {"print", "messages", "walk"} /\ pc' \in {"messages", "walk"})
    PROVE  TablesInv'
<1>1. LinksInv' /\ Network'
  BY NetworkSame DEF TablesInv
<1>2. /\ nodes' = nodes /\ edge_cost' = edge_cost /\ node' = node /\ N' = N
      /\ i' = i /\ todo' = todo /\ program' = program
      /\ distance_vectors' = distance_vectors /\ nextHops' = nextHops
  BY DEF network, tables
<1>3. \A u : DoneNode(u)' <=> DoneNode(u)
  BY <1>2, RowsSame DEF DoneNode
<1>4. DoneInv'
  BY <1>2, <1>3 DEF DoneInv, TablesInv
<1>5. TablesType'
  BY <1>2 DEF TablesType, TablesInv
<1>6. LinkStateInv'
  <2>1. DijkstraRow(node, N, distance_vectors[node], nextHops[node])'
          <=> DijkstraRow(node, N, distance_vectors[node], nextHops[node])
    BY <1>2, RowsSame
  <2> QED BY <1>2, <2>1 DEF LinkStateInv, TablesInv, NextTo
<1>7. DistVecInv'
  <2>1. FordRow(node, i, todo, distance_vectors[node], nextHops[node])'
          <=> FordRow(node, i, todo, distance_vectors[node], nextHops[node])
    BY <1>2, RowsSame
  <2>2. \A u : FirstRow(u, distance_vectors[u], nextHops[u])'
                 <=> FirstRow(u, distance_vectors[u], nextHops[u])
    BY <1>2, RowsSame
  <2> QED BY <1>2, <2>1, <2>2 DEF DistVecInv, TablesInv
<1> QED BY <1>1, <1>4, <1>5, <1>6, <1>7 DEF TablesInv

(* With no new nodes a change leaves the network among the nodes.          *)
LEMMA ChangeTopologyDone ==
    ASSUME TablesInv, ChangeTopology
    PROVE  TablesInv'
<1>1. PICK removable : Change(removable)
  BY DEF ChangeTopology
<1>2. LinksInv'
  BY <1>1, ChangeLinks DEF TablesInv
<1>3. PICK p \in Links : /\ {p[1], p[2]} \subseteq nodes
                         /\ RemoveLink(p) \/ \E c \in Costs : SetLink(p, c)
  BY <1>1 DEF Change, TablesInv
<1>4. p = <<p[1], p[2]>> /\ Reverse(p) = <<p[2], p[1]>> /\ {p, Reverse(p)} \subseteq nodes \X nodes
  BY <1>3, ReversedLink
<1>5. /\ pc = "messages" /\ pc' = "init" /\ nodes' = nodes /\ node' = node
      /\ distance_vectors' = distance_vectors /\ nextHops' = nextHops
      /\ program' = program /\ N' = N /\ i' = i /\ todo' = todo
  BY <1>1 DEF ChangeTopology, Change, tables
<1>6. /\ DOMAIN edge_cost' \subseteq nodes \X nodes
      /\ \A q \in DOMAIN edge_cost' : edge_cost'[q] \in Costs
  <2>1. CASE RemoveLink(p)
    <3>1. /\ DOMAIN edge_cost' = DOMAIN edge_cost \ {p, Reverse(p)}
          /\ \A q \in DOMAIN edge_cost' : edge_cost'[q] = edge_cost[q]
      BY <2>1 DEF RemoveLink
    <3> QED BY <3>1 DEF TablesInv, Network
  <2>2. ASSUME NEW c \in Costs, SetLink(p, c)
        PROVE  /\ DOMAIN edge_cost' \subseteq nodes \X nodes
               /\ \A q \in DOMAIN edge_cost' : edge_cost'[q] \in Costs
    <3>1. /\ DOMAIN edge_cost' = DOMAIN edge_cost \cup {p, Reverse(p)}
          /\ \A q \in DOMAIN edge_cost' :
                 edge_cost'[q] = IF q \in {p, Reverse(p)} THEN c ELSE edge_cost[q]
      BY <2>2 DEF SetLink
    <3> QED BY <1>4, <3>1 DEF TablesInv, Network
  <2> QED BY <1>3, <2>1, <2>2
<1>7. Network'
  BY <1>2, <1>5, <1>6 DEF Network, TablesInv, LinksInv, LinksAgree
<1>8. N = {} /\ i = 0 /\ todo = {}
  BY <1>5 DEF TablesInv, LinkStateInv, DistVecInv
<1>9. TablesType'
  BY <1>5, <1>8 DEF TablesType, TablesInv
<1> QED BY <1>2, <1>5, <1>7, <1>8, <1>9
        DEF TablesInv, DoneInv, LinkStateInv, DistVecInv

LEMMA NextTables ==
    ASSUME TablesInv, [Next]_vars
    PROVE  TablesInv'
<1>1. CASE ComputeLinkState
  <2>1. program = "linkstate" /\ LinkStateNext /\ UNCHANGED <<program, i, todo>>
    BY <1>1 DEF ComputeLinkState
  <2> QED BY <2>1, InitNextHopsDone, BeginDijkstraDone, SettleDone, SettleNoneDone,
             EndDijkstraDone DEF LinkStateNext
<1>2. CASE ComputeDistVec
  <2>1. program = "distvec" /\ DistVecNext /\ UNCHANGED <<program, N>>
    BY <1>2 DEF ComputeDistVec
  <2> QED BY <2>1, InitDistanceVectorsDone, NextEdgeDone, NextRoundDone, EndUpdateDone
          DEF DistVecNext
<1>3. CASE ChangeTopology
  BY <1>3, ChangeTopologyDone
<1>4. CASE StoreForwardingTable
  BY <1>4, MessageStepDone DEF StoreForwardingTable
<1>5. CASE ReadMessage \/ ResendMessage
  <2>1. /\ pc = "messages" /\ pc' \in {"messages", "walk"}
        /\ UNCHANGED <<program, network, tables, node, N, i, todo>>
    BY <1>5 DEF ReadMessage, ResendMessage, StartMessage
  <2> QED BY <2>1, MessageStepDone
<1>6. CASE Forward
  BY <1>6, MessageStepDone DEF Forward
<1>7. CASE Deliver
  BY <1>7, MessageStepDone DEF Deliver
<1>8. CASE UNCHANGED vars
  <2>1. /\ program' = program /\ network' = network /\ tables' = tables /\ node' = node
        /\ N' = N /\ i' = i /\ todo' = todo /\ pc' = pc
    BY <1>8 DEF vars, network, tables
  <2> QED BY <2>1, MessageStepDone
<1> QED BY <1>1, <1>2, <1>3, <1>4, <1>5, <1>6, <1>7, <1>8 DEF Next, Proceed

(* With a fixed set of nodes both algorithms, over every network and after *)
(* every sequence of changes, write out the costs of the shortest paths.   *)
THEOREM TablesHoldShortestCosts ==
    ASSUME NewRouters = {}
    PROVE  Spec => []CostsShortest
<1>1. Init => TablesInv
  BY InitTables
<1>2. TablesInv /\ [Next]_vars => TablesInv'
  BY NextTables
<1>3. TablesInv => CostsShortest
  BY DEF TablesInv, DoneInv, DoneNode, Done, CostsShortest
<1> QED BY <1>1, <1>2, <1>3, PTL DEF Spec

(* dijkstra takes a node into N only once its cost is final, and has for   *)
(* the others nothing below the cost of the shortest path.                 *)
THEOREM SettledNodesAreFinal ==
    ASSUME NewRouters = {}
    PROVE  Spec => []SettledIsFinal
<1>1. Init => TablesInv
  BY InitTables
<1>2. TablesInv /\ [Next]_vars => TablesInv'
  BY NextTables
<1>3. TablesInv => SettledIsFinal
  BY DEF TablesInv, LinkStateInv, DijkstraRow, SettledIsFinal, Row
<1> QED BY <1>1, <1>2, <1>3, PTL DEF Spec

(* A round of updateDistanceVector accounts for the paths of one link more *)
(* than the rounds before it, in whatever order it looks at the edges.     *)
THEOREM EachRoundAddsALink ==
    ASSUME NewRouters = {}
    PROVE  Spec => []RoundsAddLinks
<1>1. Init => TablesInv
  BY InitTables
<1>2. TablesInv /\ [Next]_vars => TablesInv'
  BY NextTables
<1>3. TablesInv => RoundsAddLinks
  <2> SUFFICES ASSUME TablesInv, program = "distvec", pc = "source", NEW v \in nodes
               PROVE  Row[v] \in Cost(node, v)..Service!Shortest(node, v, i + 1)
    BY DEF RoundsAddLinks
  <2>1. /\ FordRow(node, i, todo, Row, nextHops[node]) /\ Network /\ node \in nodes
        /\ i \in Nat /\ i + 1 \in Nat
    <3>1. i \in Nat
      BY DEF TablesInv, TablesType
    <3> QED BY <3>1 DEF TablesInv, DoneInv, DistVecInv, Row
  <2>2. /\ Row[v] \in Nat /\ Cost(node, v) <= Row[v] /\ Row[v] <= Best(node, v, i + 1)
    BY <2>1 DEF FordRow, RowType
  <2>3. Cost(node, v) \in Nat /\ Best(node, v, i + 1) \in Nat
    BY <2>1, NodeCost, NodeBest
  <2> QED BY <2>2, <2>3 DEF Best
<1> QED BY <1>1, <1>2, <1>3, PTL DEF Spec

-----------------------------------------------------------------------------
(* A message on its way from s to d has come over the nodes p[1] to p[n]:  *)
(* what it has cost and what is left add up, and each node is nearer to d. *)

OnTheWay(p, n, s, d) ==
    /\ n \in Nat \ {0} /\ p \in [1..n -> nodes] /\ s \in nodes /\ d \in nodes
    /\ p[1] = s /\ Linked(p, n)
    /\ Cost(s, d) # Infinity
    /\ WalkCost(p, n) + Cost(p[n], d) = Cost(s, d)
    /\ \A j, k \in 1..n : j < k => Cost(p[k], d) < Cost(p[j], d)

LEMMA WaySame ==
    ASSUME edge_cost' = edge_cost, nodes' = nodes, NEW p, NEW n, NEW s, NEW d
    PROVE  OnTheWay(p, n, s, d)' <=> OnTheWay(p, n, s, d)
<1>1. WalkCost(p, n)' = WalkCost(p, n) /\ (Linked(p, n)' <=> Linked(p, n))
  BY DEF WalkCost, Linked, LinkCost
<1> QED BY <1>1, CostSame DEF OnTheWay

LEMMA WayBegins ==
    ASSUME Network, NEW s \in nodes, NEW d \in nodes, Cost(s, d) # Infinity,
           NEW p \in [1..1 -> nodes], p[1] = s
    PROVE  OnTheWay(p, 1, s, d)
<1>1. Linked(p, 1)
  BY DEF Linked
<1>2. WalkCost(p, 1) + Cost(p[1], d) = Cost(s, d)
  BY WalkCostOne, NodeCost
<1> QED BY <1>1, <1>2 DEF OnTheWay

LEMMA WayCosts ==
    ASSUME Network, NEW p, NEW n, NEW s, NEW d, OnTheWay(p, n, s, d)
    PROVE  /\ n \in Nat \ {0} /\ n \in 1..n /\ p[n] \in nodes
           /\ WalkCost(p, n) \in Nat /\ Cost(p[n], d) \in Nat
           /\ Cost(p[n], d) # Infinity
           /\ \A k \in 1..n : Cost(p[k], d) \in Nat
<1>1. n \in Nat \ {0} /\ n \in 1..n /\ p[n] \in nodes /\ Linked(p, n) /\ d \in nodes /\ s \in nodes
  BY DEF OnTheWay
<1>2. WalkCost(p, n) \in Nat
  BY <1>1, WalkCostType
<1>3. \A k \in 1..n : p[k] \in nodes
  BY DEF OnTheWay
<1>4. \A k \in 1..n : Cost(p[k], d) \in Nat
  BY <1>1, <1>3, NodeCost
<1>5. Cost(s, d) \in Nat /\ Cost(s, d) <= Infinity
  BY <1>1, NodeCost
<1>6. WalkCost(p, n) + Cost(p[n], d) = Cost(s, d) /\ Cost(s, d) # Infinity
  BY DEF OnTheWay
<1> QED BY <1>1, <1>2, <1>4, <1>5, <1>6

(* One hop further, over a next hop that is right.                         *)
LEMMA WayOverHop ==
    ASSUME Network, NEW p, NEW n, NEW s, NEW d, OnTheWay(p, n, s, d),
           NEW h, <<p[n], h>> \in DOMAIN edge_cost,
           LinkCost(p[n], h) + Cost(h, d) <= Cost(p[n], d),
           NEW q \in [1..(n + 1) -> nodes], \A k \in 1..n : q[k] = p[k], q[n + 1] = h
    PROVE  OnTheWay(q, n + 1, s, d)
<1>1. /\ n \in Nat \ {0} /\ n \in 1..n /\ p[n] \in nodes
      /\ WalkCost(p, n) \in Nat /\ Cost(p[n], d) \in Nat
      /\ \A k \in 1..n : Cost(p[k], d) \in Nat
  BY WayCosts
<1>2. d \in nodes /\ s \in nodes /\ d \in Routers /\ p[n] \in Routers /\ p[1] = s /\ Linked(p, n)
      /\ Cost(s, d) # Infinity /\ WalkCost(p, n) + Cost(p[n], d) = Cost(s, d)
  BY <1>1 DEF OnTheWay, Network
<1>3. h \in nodes /\ h \in Routers /\ LinkCost(p[n], h) \in Nat \ {0}
      /\ <<h, p[n]>> \in DOMAIN edge_cost /\ LinkCost(h, p[n]) = LinkCost(p[n], h)
  BY LinkType
<1>4. Cost(p[n], d) = LinkCost(p[n], h) + Cost(h, d)
  <2>1. Cost(d, p[n]) <= Cost(d, h) + LinkCost(h, p[n])
    BY <1>2, <1>3, Triangle
  <2>2. Cost(d, p[n]) = Cost(p[n], d) /\ Cost(d, h) = Cost(h, d)
    BY <1>2, <1>3, CostSymmetric
  <2>3. Cost(h, d) \in Nat
    BY <1>2, <1>3, NodeCost
  <2>4. Cost(p[n], d) <= LinkCost(p[n], h) + Cost(h, d)
    BY <1>3, <2>1, <2>2, <2>3
  <2>5. Cost(p[n], d) \in Nat /\ LinkCost(p[n], h) \in Nat
    BY <1>1, <1>3
  <2> QED BY <2>3, <2>4, <2>5
<1>5. Cost(h, d) \in Nat /\ Cost(h, d) < Cost(p[n], d)
  <2>1. Cost(h, d) \in Nat
    BY <1>2, <1>3, NodeCost
  <2> QED BY <1>1, <1>3, <1>4, <2>1
<1>6. n + 1 \in Nat \ {0} /\ 1 \in 1..n /\ \A k \in 1..(n + 1) : k \in 1..n \/ k = n + 1
  BY <1>1
<1>7. Linked(q, n + 1)
  <2> SUFFICES ASSUME NEW k \in 1..((n + 1) - 1)
               PROVE  <<q[k], q[k + 1]>> \in DOMAIN edge_cost
    BY DEF Linked
  <2>1. CASE k = n
    BY <1>1, <2>1
  <2>2. CASE k # n
    <3>1. k \in 1..(n - 1) /\ k \in 1..n /\ k + 1 \in 1..n
      BY <1>1, <2>2
    <3> QED BY <1>2, <3>1 DEF Linked
  <2> QED BY <2>1, <2>2
<1>8. WalkCost(q, n + 1) = WalkCost(p, n) + LinkCost(q[n], q[n + 1])
  BY <1>1, <1>7, WalkStep
<1>9. WalkCost(q, n + 1) + Cost(q[n + 1], d) = Cost(s, d)
  <2>1. q[n] = p[n] /\ q[n + 1] = h
    BY <1>1
  <2>2. WalkCost(q, n + 1) = WalkCost(p, n) + LinkCost(p[n], h)
    BY <1>8, <2>1
  <2> QED BY <1>1, <1>2, <1>3, <1>4, <1>5, <2>1, <2>2
<1>10. ASSUME NEW j \in 1..(n + 1), NEW k \in 1..(n + 1), j < k
       PROVE  Cost(q[k], d) < Cost(q[j], d)
  <2>1. j \in 1..n /\ q[j] = p[j]
    BY <1>1, <1>10
  <2>2. CASE k \in 1..n
    BY <1>10, <2>1, <2>2 DEF OnTheWay
  <2>3. CASE k = n + 1
    <3>1. Cost(p[n], d) <= Cost(p[j], d)
      <4>1. CASE j = n
        BY <1>1, <4>1
      <4>2. CASE j # n
        <5>1. j < n
          BY <1>1, <2>1, <4>2
        <5>2. Cost(p[n], d) < Cost(p[j], d)
          BY <1>1, <2>1, <5>1 DEF OnTheWay
        <5> QED BY <1>1, <2>1, <5>2
      <4> QED BY <4>1, <4>2
    <3> QED BY <1>1, <1>5, <2>1, <2>3, <3>1
  <2> QED BY <1>6, <2>2, <2>3
<1> QED BY <1>2, <1>6, <1>7, <1>9, <1>10 DEF OnTheWay

(* At d the message has come over a shortest path.                         *)
LEMMA WayEnds ==
    ASSUME Network, NEW p, NEW n, NEW s, NEW d, OnTheWay(p, n, s, d), p[n] = d
    PROVE  Walk(p, n, s, d) /\ WalkCost(p, n) = Cost(s, d)
<1>1. /\ n \in Nat \ {0} /\ p \in [1..n -> nodes] /\ d \in Routers /\ nodes \subseteq Routers
      /\ WalkCost(p, n) + Cost(p[n], d) = Cost(s, d) /\ p[1] = s /\ Linked(p, n)
  BY DEF OnTheWay, Network
<1>2. WalkCost(p, n) = Cost(s, d)
  BY <1>1, CostOfItself, WayCosts
<1>3. ASSUME NEW a \in 1..n, NEW b \in 1..n, p[a] = p[b] PROVE a = b
  <2>1. Cost(p[a], d) \in Nat
    BY WayCosts
  <2>2. ~(Cost(p[a], d) < Cost(p[b], d)) /\ ~(Cost(p[b], d) < Cost(p[a], d))
    BY <1>3, <2>1
  <2>3. ~(a < b) /\ ~(b < a)
    BY <2>2 DEF OnTheWay
  <2> QED BY <1>1, <2>3
<1> QED BY <1>1, <1>2, <1>3 DEF Walk, Simple

-----------------------------------------------------------------------------
(* What has been read, printed and answered                                *)

AnswerType == [cost : 0..Infinity, hops : Seq(Routers)]

MessagesInv ==
    /\ messages \in Seq(nodes \X nodes) /\ message_file \in Seq(nodes \X nodes)
    /\ Len(message_file) <= Len(messages)
    /\ \A k \in 1..Len(message_file) : message_file[k] = messages[k]
    /\ answers \in Seq(AnswerType) /\ Len(answers) <= Len(message_file)
    /\ pc # "walk" => NoMessage
    /\ pc \in {"messages", "walk"} => table = UNION {RowsOf(u) : u \in nodes}
    /\ pc \notin {"messages", "walk"} => table = {} /\ answers = <<>>

WalkInv ==
    pc = "walk" =>
        /\ Len(answers) < Len(message_file)
        /\ message_file[Len(answers) + 1] = <<src, dest>>
        /\ path \in Seq(nodes) /\ curr \in nodes
        /\ OnTheWay(Append(path, curr), Len(path) + 1, src, dest)

ServiceInv == TablesInv /\ MessagesInv /\ WalkInv

LEMMA RowsOfSame ==
    ASSUME nodes' = nodes, distance_vectors' = distance_vectors, nextHops' = nextHops
    PROVE  (UNION {RowsOf(u) : u \in nodes})' = UNION {RowsOf(u) : u \in nodes}
BY DEF RowsOf

LEMMA InitMessages ==
    ASSUME NewRouters = {}, Init
    PROVE  MessagesInv /\ WalkInv
<1>1. nodes \subseteq Routers
  BY InitTables DEF TablesInv, Network
<1>2. /\ pc = "init" /\ messages = Messages[nodes] /\ message_file = <<>> /\ table = {}
      /\ answers = <<>> /\ NoMessage
  BY DEF Init, TopologyInit
<1>3. messages \in Seq(nodes \X nodes)
  BY <1>1, <1>2, MessagesAssumption
<1>4. <<>> \in Seq(nodes \X nodes) /\ <<>> \in Seq(AnswerType) /\ Len(<<>>) = 0
  OBVIOUS
<1>5. Len(messages) \in Nat
  BY <1>3, LenProperties
<1> QED BY <1>2, <1>3, <1>4, <1>5 DEF MessagesInv, WalkInv

(* While tables are computed nothing is printed and no message is sent.    *)
LEMMA ComputeMessages ==
    ASSUME ServiceInv, ComputeLinkState \/ ComputeDistVec
    PROVE  MessagesInv' /\ WalkInv'
<1>1. /\ pc \in {"init", "source"} /\ pc' \in {"source", "print"} /\ nodes' = nodes
      /\ UNCHANGED <<messages, message_file, output, walk>>
  <2>1. CASE ComputeLinkState
    BY <2>1 DEF ComputeLinkState, LinkStateNext, InitNextHops, BeginDijkstra, Settle,
                SettleNone, EndDijkstra, NextNode, network
  <2>2. CASE ComputeDistVec
    BY <2>2 DEF ComputeDistVec, DistVecNext, InitDistanceVectors, NextEdge, NextRound,
                EndUpdate, NextNode, network
  <2> QED BY <2>1, <2>2
<1>2. /\ messages' = messages /\ message_file' = message_file /\ table' = table
      /\ answers' = answers /\ src' = src /\ dest' = dest /\ curr' = curr /\ path' = path
  BY <1>1 DEF output, walk
<1>3. pc # "walk" /\ pc \notin {"messages", "walk"} /\ pc' # "walk" /\ pc' \notin {"messages", "walk"}
  BY <1>1
<1> QED BY <1>1, <1>2, <1>3 DEF ServiceInv, MessagesInv, WalkInv, NoMessage

LEMMA StoreMessages ==
    ASSUME ServiceInv, StoreForwardingTable
    PROVE  MessagesInv' /\ WalkInv'
<1>1. /\ pc = "print" /\ pc' = "messages" /\ table' = UNION {RowsOf(u) : u \in nodes}
      /\ nodes' = nodes /\ distance_vectors' = distance_vectors /\ nextHops' = nextHops
      /\ messages' = messages /\ message_file' = message_file /\ answers' = answers
      /\ src' = src /\ dest' = dest /\ curr' = curr /\ path' = path
  BY DEF StoreForwardingTable, network, tables, walk
<1>2. table' = (UNION {RowsOf(u) : u \in nodes})'
  BY <1>1, RowsOfSame
<1> QED BY <1>1, <1>2 DEF ServiceInv, MessagesInv, WalkInv, NoMessage

(* Both kinds of reading a message start the next one to be answered.      *)
LEMMA StartMessages ==
    ASSUME ServiceInv, pc = "messages", StartMessage(message_file'[Len(answers) + 1]),
           messages' = messages, message_file' \in Seq(nodes \X nodes),
           Len(message_file') <= Len(messages),
           \A k \in 1..Len(message_file') : message_file'[k] = messages[k],
           Len(answers) < Len(message_file')
    PROVE  MessagesInv' /\ WalkInv'
<1> DEFINE n == Len(answers) + 1
           m == message_file'[n]
<1>1. /\ nodes' = nodes /\ edge_cost' = edge_cost /\ table' = table
      /\ distance_vectors' = distance_vectors /\ nextHops' = nextHops
  BY DEF StartMessage, network, tables
<1>2. /\ answers \in Seq(AnswerType) /\ Len(answers) \in Nat /\ Len(message_file') \in Nat
      /\ table = UNION {RowsOf(u) : u \in nodes} /\ NoMessage
      /\ messages \in Seq(nodes \X nodes)
  BY LenProperties DEF ServiceInv, MessagesInv
<1>3. n \in 1..Len(message_file')
  BY <1>2
<1>4. /\ m[1] \in nodes /\ m[2] \in nodes /\ m = <<m[1], m[2]>>
  <2>1. m \in nodes \X nodes
    BY <1>3, ElementOfSeq
  <2> HIDE DEF m
  <2> QED BY <2>1
<1>5. table' = (UNION {RowsOf(u) : u \in nodes})'
  BY <1>1, <1>2, RowsOfSame
<1>6. /\ Network /\ nodes \subseteq Routers
      /\ \A u, v \in nodes : distance_vectors[u][v] = Cost(u, v)
  BY DEF ServiceInv, TablesInv, DoneInv, DoneNode, Done, Network
<1> HIDE DEF m
<1>7. CASE distance_vectors[m[1]][m[2]] = Infinity
  <2>1. /\ pc' = "messages" /\ src' = src /\ dest' = dest /\ curr' = curr /\ path' = path
        /\ answers' = Append(answers, [cost |-> Infinity, hops |-> <<>>])
    BY <1>7 DEF StartMessage, storeMessageOutput, walk, m
  <2>2. [cost |-> Infinity, hops |-> <<>>] \in AnswerType
    <3>1. <<>> \in Seq(Routers) /\ Infinity \in 0..Infinity
      OBVIOUS
    <3> QED BY <3>1 DEF AnswerType
  <2>3. answers' \in Seq(AnswerType) /\ Len(answers') = Len(answers) + 1
    BY <1>2, <2>1, <2>2, AppendProperties
  <2>4. Len(answers') <= Len(message_file')
    BY <1>2, <2>3
  <2> QED BY <1>1, <1>2, <1>5, <2>1, <2>3, <2>4 DEF MessagesInv, WalkInv, NoMessage
<1>8. CASE distance_vectors[m[1]][m[2]] # Infinity
  <2>1. /\ src' = m[1] /\ dest' = m[2] /\ curr' = m[1] /\ path' = <<>>
        /\ pc' = "walk" /\ answers' = answers
    BY <1>8 DEF StartMessage, m
  <2>2. Cost(m[1], m[2]) # Infinity
    BY <1>4, <1>6, <1>8
  <2>3. /\ Append(path', curr') \in [1..1 -> nodes] /\ Append(path', curr')[1] = m[1]
        /\ Len(path') + 1 = 1 /\ path' \in Seq(nodes)
    <3>1. path' \in Seq(nodes) /\ Len(path') = 0
      BY <2>1
    <3>2. Append(path', curr') \in Seq(nodes) /\ Len(Append(path', curr')) = 1
      BY <1>4, <2>1, <3>1, AppendProperties
    <3>3. Append(path', curr') \in [1..1 -> nodes]
      BY <3>2, LenProperties
    <3>4. Append(path', curr')[1] = m[1]
      BY <2>1
    <3> QED BY <3>1, <3>3, <3>4
  <2>4. OnTheWay(Append(path', curr'), 1, m[1], m[2])
    BY <1>4, <1>6, <2>2, <2>3, WayBegins
  <2>5. OnTheWay(Append(path', curr'), Len(path') + 1, src', dest')
    BY <2>1, <2>3, <2>4
  <2>6. OnTheWay(Append(path, curr), Len(path) + 1, src, dest)'
    BY <1>1, <2>5, WaySame
  <2>7. message_file'[Len(answers') + 1] = <<src', dest'>>
    BY <1>4, <2>1 DEF m
  <2>8. WalkInv'
    BY <1>1, <1>4, <2>1, <2>3, <2>6, <2>7 DEF WalkInv
  <2>9. Len(answers') <= Len(message_file')
    BY <1>2, <2>1
  <2>10. MessagesInv'
    BY <1>1, <1>2, <1>5, <2>1, <2>9 DEF MessagesInv
  <2> QED BY <2>8, <2>10
<1> QED BY <1>7, <1>8

LEMMA ReadMessages ==
    ASSUME ServiceInv, ReadMessage \/ ResendMessage
    PROVE  MessagesInv' /\ WalkInv'
<1>1. /\ messages \in Seq(nodes \X nodes) /\ message_file \in Seq(nodes \X nodes)
      /\ Len(messages) \in Nat /\ Len(message_file) \in Nat /\ Len(answers) \in Nat
      /\ Len(message_file) <= Len(messages)
      /\ \A k \in 1..Len(message_file) : message_file[k] = messages[k]
  BY LenProperties DEF ServiceInv, MessagesInv
<1>2. CASE ReadMessage
  <2> DEFINE m == messages[Len(message_file) + 1]
  <2>1. /\ pc = "messages" /\ Len(answers) = Len(message_file)
        /\ Len(message_file) < Len(messages) /\ message_file' = Append(message_file, m)
        /\ StartMessage(m) /\ messages' = messages
    BY <1>2 DEF ReadMessage, StartMessage
  <2>2. m \in nodes \X nodes
    <3>1. Len(message_file) + 1 \in 1..Len(messages)
      BY <1>1, <2>1
    <3> QED BY <1>1, <3>1, ElementOfSeq
  <2> HIDE DEF m
  <2>3. /\ message_file' \in Seq(nodes \X nodes)
        /\ Len(message_file') = Len(message_file) + 1
        /\ \A k \in 1..Len(message_file) : message_file'[k] = message_file[k]
        /\ message_file'[Len(message_file) + 1] = m
    BY <1>1, <2>1, <2>2, AppendProperties
  <2>4. \A k \in 1..Len(message_file') : k \in 1..Len(message_file) \/ k = Len(message_file) + 1
    BY <1>1, <2>3
  <2>5. \A k \in 1..Len(message_file') : message_file'[k] = messages[k]
    BY <1>1, <2>3, <2>4 DEF m
  <2>6. Len(message_file') <= Len(messages) /\ Len(answers) < Len(message_file')
    BY <1>1, <2>1, <2>3
  <2>7. StartMessage(message_file'[Len(answers) + 1])
    BY <2>1, <2>3
  <2> QED BY <2>1, <2>3, <2>5, <2>6, <2>7, StartMessages
<1>3. CASE ResendMessage
  <2>1. /\ pc = "messages" /\ Len(answers) < Len(message_file)
        /\ StartMessage(message_file[Len(answers) + 1])
        /\ message_file' = message_file /\ messages' = messages
    BY <1>3 DEF ResendMessage, StartMessage
  <2>2. StartMessage(message_file'[Len(answers) + 1])
    BY <2>1
  <2> QED BY <1>1, <2>1, <2>2, StartMessages
<1> QED BY <1>2, <1>3

(* The node's next hop takes the message nearer to its destination.        *)
LEMMA ForwardMessage ==
    ASSUME ServiceInv, Forward
    PROVE  MessagesInv' /\ WalkInv'
<1> DEFINE n == Len(path) + 1
           p == Append(path, curr)
           h == nextHops[curr][dest]
           q == Append(p, h)
<1>1. /\ pc = "walk" /\ pc' = "walk" /\ curr # dest /\ path' = p /\ curr' = h
      /\ nodes' = nodes /\ edge_cost' = edge_cost /\ table' = table /\ answers' = answers
      /\ distance_vectors' = distance_vectors /\ nextHops' = nextHops
      /\ messages' = messages /\ message_file' = message_file /\ src' = src /\ dest' = dest
  BY DEF Forward, network, tables, output
<1>2. /\ path \in Seq(nodes) /\ curr \in nodes /\ OnTheWay(p, n, src, dest)
      /\ Len(answers) < Len(message_file) /\ message_file[Len(answers) + 1] = <<src, dest>>
  BY <1>1 DEF ServiceInv, WalkInv
<1>3. /\ Len(path) \in Nat /\ p \in Seq(nodes) /\ Len(p) = n /\ p[n] = curr
  BY <1>2, LenProperties, AppendProperties
<1>4. Network /\ dest \in nodes /\ DoneNode(curr)
  BY <1>1, <1>2 DEF ServiceInv, TablesInv, DoneInv, OnTheWay
<1> HIDE DEF p, n
<1>5. Cost(curr, dest) # Infinity
  BY <1>2, <1>3, <1>4, WayCosts
<1>6. <<curr, h>> \in DOMAIN edge_cost /\ LinkCost(curr, h) + Cost(h, dest) <= Cost(curr, dest)
  <2>1. distance_vectors[curr][dest] = Cost(curr, dest)
    BY <1>4 DEF DoneNode, Done
  <2>2. HopRight(curr, distance_vectors[curr], nextHops[curr], dest)
    BY <1>4 DEF DoneNode, Done, HopsRight
  <2> QED BY <1>1, <1>5, <2>1, <2>2 DEF HopRight
<1> HIDE DEF h
<1>7. h \in nodes
  BY <1>4, <1>6, LinkType
<1>8. /\ q \in Seq(nodes) /\ Len(q) = n + 1 /\ q[n + 1] = h
      /\ \A k \in 1..n : q[k] = p[k]
  BY <1>3, <1>7, AppendProperties
<1>9. q \in [1..(n + 1) -> nodes]
  BY <1>8, LenProperties
<1> HIDE DEF q
<1>10. OnTheWay(q, n + 1, src, dest)
  BY <1>2, <1>3, <1>4, <1>6, <1>8, <1>9, WayOverHop
<1>11. OnTheWay(Append(path', curr'), Len(path') + 1, src', dest')
  BY <1>1, <1>3, <1>10 DEF q
<1>12. OnTheWay(Append(path, curr), Len(path) + 1, src, dest)'
  BY <1>1, <1>11, WaySame
<1>13. WalkInv'
  BY <1>1, <1>2, <1>3, <1>7, <1>12 DEF WalkInv
<1>14. MessagesInv'
  <2>1. table' = (UNION {RowsOf(u) : u \in nodes})'
    BY <1>1, RowsOfSame DEF ServiceInv, MessagesInv
  <2> QED BY <1>1, <2>1 DEF ServiceInv, MessagesInv
<1> QED BY <1>13, <1>14

LEMMA DeliverMessage ==
    ASSUME ServiceInv, Deliver
    PROVE  MessagesInv' /\ WalkInv'
<1>1. /\ pc = "walk" /\ pc' = "messages" /\ NoMessage'
      /\ answers' = Append(answers, [cost |-> distance_vectors[src][dest], hops |-> path])
      /\ nodes' = nodes /\ edge_cost' = edge_cost /\ table' = table
      /\ distance_vectors' = distance_vectors /\ nextHops' = nextHops
      /\ messages' = messages /\ message_file' = message_file
  BY DEF Deliver, storeMessageOutput, getHops, network, tables, NoMessage
<1>2. /\ path \in Seq(nodes) /\ src \in nodes /\ dest \in nodes
      /\ Len(answers) < Len(message_file)
  BY <1>1 DEF ServiceInv, WalkInv, OnTheWay
<1>3. [cost |-> distance_vectors[src][dest], hops |-> path] \in AnswerType
  <2>1. nodes \subseteq Routers
    BY DEF ServiceInv, TablesInv, Network
  <2>2. path \in Seq(Routers)
    <3>1. path \in [1..Len(path) -> nodes] /\ Len(path) \in Nat
      BY <1>2, LenProperties
    <3>2. path \in [1..Len(path) -> Routers]
      BY <2>1, <3>1
    <3> QED BY <3>1, <3>2, SeqDef
  <2>3. distance_vectors[src][dest] \in 0..Infinity
    BY <1>2, <2>1 DEF ServiceInv, TablesInv, TablesType
  <2> QED BY <2>2, <2>3 DEF AnswerType
<1>4. /\ answers \in Seq(AnswerType) /\ Len(answers) \in Nat /\ Len(message_file) \in Nat
      /\ table = UNION {RowsOf(u) : u \in nodes}
  BY <1>1, LenProperties DEF ServiceInv, MessagesInv
<1>5. answers' \in Seq(AnswerType) /\ Len(answers') = Len(answers) + 1
  BY <1>1, <1>3, <1>4, AppendProperties
<1>6. Len(answers') <= Len(message_file)
  BY <1>2, <1>4, <1>5
<1>7. table' = (UNION {RowsOf(u) : u \in nodes})'
  BY <1>1, <1>4, RowsOfSame
<1> QED BY <1>1, <1>5, <1>6, <1>7 DEF ServiceInv, MessagesInv, WalkInv

LEMMA ChangeMessages ==
    ASSUME ServiceInv, ChangeTopology
    PROVE  MessagesInv' /\ WalkInv'
<1>1. /\ pc = "messages" /\ pc' = "init" /\ table' = {} /\ answers' = <<>> /\ nodes' = nodes
      /\ messages' = messages /\ message_file' = message_file
      /\ src' = src /\ dest' = dest /\ curr' = curr /\ path' = path
  BY DEF ChangeTopology, Change, walk
<1>2. answers' \in Seq(AnswerType) /\ Len(answers') = 0
  BY <1>1
<1>3. Len(message_file) \in Nat
  BY LenProperties DEF ServiceInv, MessagesInv
<1> QED BY <1>1, <1>2, <1>3 DEF ServiceInv, MessagesInv, WalkInv, NoMessage

LEMMA StutterMessages ==
    ASSUME ServiceInv, UNCHANGED vars
    PROVE  MessagesInv' /\ WalkInv'
<1>1. /\ pc' = pc /\ nodes' = nodes /\ edge_cost' = edge_cost
      /\ distance_vectors' = distance_vectors /\ nextHops' = nextHops
      /\ messages' = messages /\ message_file' = message_file
      /\ table' = table /\ answers' = answers
      /\ src' = src /\ dest' = dest /\ curr' = curr /\ path' = path
  BY DEF vars, network, tables, output, walk
<1>2. (UNION {RowsOf(u) : u \in nodes})' = UNION {RowsOf(u) : u \in nodes}
  BY <1>1, RowsOfSame
<1>3. OnTheWay(Append(path, curr), Len(path) + 1, src, dest)'
        <=> OnTheWay(Append(path, curr), Len(path) + 1, src, dest)
  BY <1>1, WaySame
<1> QED BY <1>1, <1>2, <1>3 DEF ServiceInv, MessagesInv, WalkInv, NoMessage

LEMMA InitService ==
    ASSUME NewRouters = {}, Init
    PROVE  ServiceInv
BY InitTables, InitMessages DEF ServiceInv

LEMMA NextService ==
    ASSUME ServiceInv, [Next]_vars
    PROVE  ServiceInv'
<1>1. TablesInv'
  BY NextTables DEF ServiceInv
<1>2. MessagesInv' /\ WalkInv'
  BY ComputeMessages, StoreMessages, ReadMessages, ForwardMessage, DeliverMessage,
     ChangeMessages, StutterMessages DEF Next, Proceed
<1> QED BY <1>1, <1>2 DEF ServiceInv

LEMMA TypesOfService ==
    ASSUME ServiceInv
    PROVE  TypeOK
<1>1. /\ nodes \subseteq Routers /\ DOMAIN edge_cost \subseteq nodes \X nodes
      /\ \A p \in DOMAIN edge_cost : edge_cost[p] \in Costs
      /\ adj_list \in [Routers -> SUBSET Routers] /\ TablesType
  BY DEF ServiceInv, TablesInv, LinksInv, Network
<1>2. DOMAIN edge_cost \subseteq Routers \X Routers
  BY <1>1
<1>3. {messages, message_file} \subseteq Seq(nodes \X nodes)
      /\ answers \in Seq([cost : 0..Infinity, hops : Seq(Routers)])
  BY DEF ServiceInv, MessagesInv, AnswerType
<1>4. {src, dest, curr} \subseteq Routers \cup {NoNode} /\ path \in Seq(Routers)
  <2>1. CASE pc = "walk"
    <3>1. {src, dest, curr} \subseteq nodes /\ path \in Seq(nodes)
      BY <2>1 DEF ServiceInv, WalkInv, OnTheWay
    <3>2. path \in [1..Len(path) -> nodes] /\ Len(path) \in Nat
      BY <3>1, LenProperties
    <3>3. path \in [1..Len(path) -> Routers]
      BY <1>1, <3>2
    <3>4. path \in Seq(Routers)
      BY <3>2, <3>3, SeqDef
    <3>5. {src, dest, curr} \subseteq Routers \cup {NoNode}
      BY <1>1, <3>1
    <3> QED BY <3>4, <3>5
  <2>2. CASE pc # "walk"
    <3>1. src = NoNode /\ dest = NoNode /\ curr = NoNode /\ path = <<>>
      BY <2>2 DEF ServiceInv, MessagesInv, NoMessage
    <3> QED BY <3>1
  <2> QED BY <2>1, <2>2
<1>5. table \subseteq [node : nodes, dest : nodes, cost : 0..Infinity,
                       next_hop : Routers \cup {NoNode, NoHop}]
  <2>1. CASE table = {}
    BY <2>1
  <2>2. CASE table = UNION {RowsOf(u) : u \in nodes}
    <3>1. ASSUME NEW u \in nodes, NEW v \in nodes
          PROVE  /\ distance_vectors[u][v] \in 0..Infinity
                 /\ nextHops[u][v] \in Routers \cup {NoNode, NoHop}
      <4>1. u \in Routers /\ v \in Routers
        BY <1>1
      <4> QED BY <1>1, <4>1 DEF TablesType
    <3>2. ASSUME NEW u \in nodes
          PROVE  RowsOf(u) \subseteq [node : nodes, dest : nodes, cost : 0..Infinity,
                                      next_hop : Routers \cup {NoNode, NoHop}]
      BY <3>1 DEF RowsOf
    <3> QED BY <2>2, <3>2
  <2> QED BY <2>1, <2>2 DEF ServiceInv, MessagesInv
<1> QED BY <1>1, <1>2, <1>3, <1>4, <1>5 DEF TypeOK, TablesType

(* Every variable of the two programs keeps its type; in particular no sum *)
(* of costs wraps.                                                         *)
THEOREM RoutingTypes ==
    ASSUME NewRouters = {}
    PROVE  Spec => []TypeOK
<1>1. Init => ServiceInv
  BY InitService
<1>2. ServiceInv /\ [Next]_vars => ServiceInv'
  BY NextService
<1>3. ServiceInv => TypeOK
  BY TypesOfService
<1> QED BY <1>1, <1>2, <1>3, PTL DEF Spec

(* Wherever a message is, what it has cost so far and what the table of    *)
(* the node says of the rest are what the table of its source said.        *)
THEOREM MessagesTakeShortestWalks ==
    ASSUME NewRouters = {}
    PROVE  Spec => []WalksAreShortest
<1>1. Init => ServiceInv
  BY InitService
<1>2. ServiceInv /\ [Next]_vars => ServiceInv'
  BY NextService
<1>3. ServiceInv => WalksAreShortest
  <2> SUFFICES ASSUME ServiceInv, pc = "walk"
               PROVE  /\ curr \in nodes
                      /\ Service!IsLinked(Append(path, curr))
                      /\ Service!PathCost(Append(path, curr)) + distance_vectors[curr][dest]
                           = distance_vectors[src][dest]
    BY DEF WalksAreShortest
  <2> DEFINE p == Append(path, curr)
             n == Len(path) + 1
  <2>1. /\ path \in Seq(nodes) /\ curr \in nodes /\ OnTheWay(p, n, src, dest)
    BY DEF ServiceInv, WalkInv
  <2>2. Len(p) = n /\ p[n] = curr /\ n \in Nat
    BY <2>1, LenProperties, AppendProperties
  <2> HIDE DEF p, n
  <2>3. /\ Linked(p, n) /\ WalkCost(p, n) + Cost(p[n], dest) = Cost(src, dest)
        /\ src \in nodes /\ dest \in nodes
    BY <2>1 DEF OnTheWay
  <2>4. Service!IsLinked(p) /\ Service!PathCost(p) = WalkCost(p, n)
    BY <2>2, <2>3, PathCostDef DEF Service!IsLinked, Linked, WalkCost
  <2>5. \A u, v \in nodes : distance_vectors[u][v] = Cost(u, v)
    BY DEF ServiceInv, TablesInv, DoneInv, DoneNode, Done
  <2> QED BY <2>1, <2>2, <2>3, <2>4, <2>5 DEF p
<1> QED BY <1>1, <1>2, <1>3, PTL DEF Spec

(* A message visits no node twice: each hop is nearer to the destination   *)
(* than the one before, whatever ties the tables have broken.              *)
THEOREM MessagesDoNotLoop ==
    ASSUME NewRouters = {}
    PROVE  Spec => []WalksDoNotLoop
<1>1. Init => ServiceInv
  BY InitService
<1>2. ServiceInv /\ [Next]_vars => ServiceInv'
  BY NextService
<1>3. ServiceInv => WalksDoNotLoop
  <2> SUFFICES ASSUME ServiceInv, pc = "walk"
               PROVE  IsInjective(Append(path, curr))
    BY DEF WalksDoNotLoop
  <2> DEFINE p == Append(path, curr)
             n == Len(path) + 1
  <2>1. OnTheWay(p, n, src, dest) /\ Network
    BY DEF ServiceInv, WalkInv, TablesInv
  <2> HIDE DEF p, n
  <2>2. DOMAIN p = 1..n
    BY <2>1 DEF OnTheWay
  <2>3. ASSUME NEW a \in 1..n, NEW b \in 1..n, p[a] = p[b] PROVE a = b
    <3>1. Cost(p[a], dest) \in Nat /\ n \in Nat
      BY <2>1, WayCosts
    <3>2. ~(Cost(p[a], dest) < Cost(p[b], dest)) /\ ~(Cost(p[b], dest) < Cost(p[a], dest))
      BY <2>3, <3>1
    <3>3. ~(a < b) /\ ~(b < a)
      BY <2>1, <3>2 DEF OnTheWay
    <3> QED BY <3>1, <3>3
  <2> QED BY <2>2, <2>3 DEF IsInjective, p
<1> QED BY <1>1, <1>2, <1>3, PTL DEF Spec

-----------------------------------------------------------------------------
(* The two programs implement the service                                  *)

(* With a next hop that is right there is a shortest path that begins with *)
(* it: back from v to the hop, on to s, and the other way round.           *)
BestOver(p, n, s, v, h) == Walk(p, n, s, v) /\ WalkCost(p, n) = Cost(s, v) /\ p[2] = h

LEMMA WalkWithHop ==
    ASSUME Network, NEW s \in Routers, NEW v \in Routers, Cost(s, v) # Infinity,
           NEW h, <<s, h>> \in DOMAIN edge_cost, LinkCost(s, h) + Cost(h, v) <= Cost(s, v)
    PROVE  \E n \in Nat \ {0} : \E p : BestOver(p, n + 1, s, v, h)
<1>1. /\ h \in Routers /\ LinkCost(s, h) \in Nat \ {0}
      /\ <<h, s>> \in DOMAIN edge_cost /\ LinkCost(h, s) = LinkCost(s, h)
  BY LinkType
<1>2. /\ Cost(s, v) \in Nat /\ Cost(s, v) <= Infinity /\ Cost(h, v) \in Nat
      /\ Cost(h, v) = Cost(v, h) /\ Cost(s, v) = Cost(v, s)
  BY <1>1, CostParts, CostSymmetric
<1>3. Cost(h, v) < Cost(s, v) /\ Cost(v, h) # Infinity
  BY <1>1, <1>2
<1>4a. PICK n \in Nat \ {0} : \E q : Walk(q, n, v, h) /\ Cost(v, h) = WalkCost(q, n)
  BY <1>1, <1>3, CostParts
<1>4. PICK q : Walk(q, n, v, h) /\ Cost(v, h) = WalkCost(q, n)
  BY <1>4a
<1>5. ASSUME NEW k \in 1..n PROVE q[k] # s
  <2> SUFFICES ASSUME q[k] = s PROVE FALSE
    OBVIOUS
  <2>1. k \in Nat \ {0}
    OBVIOUS
  <2>2. PICK r : /\ Walk(r, k, v, q[k]) /\ WalkCost(r, k) = WalkCost(q, k)
                 /\ WalkCost(r, k) <= WalkCost(q, n)
    BY <1>4, CutWalk
  <2>3. Cost(v, s) <= WalkCost(r, k)
    BY <2>1, <2>2, CostParts
  <2>4. WalkCost(r, k) \in Nat
    BY <2>1, <2>2, WalkCostType DEF Walk
  <2> QED BY <1>2, <1>3, <1>4, <2>2, <2>3, <2>4
<1>6. PICK r : Walk(r, n + 1, v, s) /\ Onward(r, q, n, h, s)
  BY <1>1, <1>4, <1>5, ExtendWalk
<1>7. n + 1 \in Nat \ {0}
  OBVIOUS
<1>8. PICK p : Walk(p, n + 1, s, v) /\ Back(p, r, n + 1)
  BY <1>6, <1>7, WalkReversed
<1>9. p[2] = h
  <2>1. 2 \in 1..(n + 1) /\ ((n + 1) + 1) - 2 = n /\ n \in 1..n
    OBVIOUS
  <2>2. p[2] = r[n]
    BY <1>8, <2>1 DEF Back
  <2> QED BY <1>4, <1>6, <2>1, <2>2 DEF Onward, Walk
<1>10. WalkCost(p, n + 1) = Cost(h, v) + LinkCost(s, h)
  BY <1>1, <1>2, <1>4, <1>6, <1>8 DEF Back, Onward
<1>11. Cost(s, v) <= WalkCost(p, n + 1)
  BY <1>7, <1>8, CostParts
<1>12. WalkCost(p, n + 1) = Cost(s, v)
  BY <1>1, <1>2, <1>10, <1>11
<1>13. BestOver(p, n + 1, s, v, h)
  BY <1>8, <1>9, <1>12 DEF BestOver
<1> QED BY <1>13

(* A node's route to itself.                                               *)
LEMMA RouteToItself ==
    ASSUME Network, NEW u \in Routers
    PROVE  \E p : IsRoute(p, u, u) /\ Len(p) = 1 /\ Service!PathCost(p) = 0
<1> DEFINE p == [k \in 1..1 |-> u]
<1>1. Simple(p, 1) /\ p[1] = u
  BY DEF Simple
<1> HIDE DEF p
<1>2. Linked(p, 1)
  BY DEF Linked
<1>3. WalkCost(p, 1) = 0
  BY WalkCostOne
<1>4. IsRoute(p, u, u) /\ Service!PathCost(p) = WalkCost(p, 1) /\ Len(p) = 1
  <2>1. 1 \in Nat \ {0}
    OBVIOUS
  <2> QED BY <1>1, <1>2, <2>1, RouteIff
<1> QED BY <1>3, <1>4

LEMMA RowIsRight ==
    ASSUME Network, NEW u \in nodes, DoneNode(u), NEW r \in RowsOf(u)
    PROVE  Service!RightRow(r)
<1>1. PICK v \in nodes : /\ r = [node |-> u, dest |-> v, next_hop |-> nextHops[u][v],
                                 cost |-> distance_vectors[u][v]]
                         /\ distance_vectors[u][v] # Infinity
  BY DEF RowsOf
<1>2. /\ r.node = u /\ r.dest = v /\ r.next_hop = nextHops[u][v]
      /\ r.cost = distance_vectors[u][v]
  BY <1>1
<1>3. u \in Routers /\ v \in Routers
  BY DEF Network
<1>4. r.cost = Cost(u, v) /\ Cost(u, v) # Infinity
  BY <1>1, <1>2 DEF DoneNode, Done
<1>5. CASE u = v
  <2>1. PICK p : IsRoute(p, u, v) /\ Len(p) = 1 /\ Service!PathCost(p) = 0
    BY <1>3, <1>5, RouteToItself
  <2>2. Cost(u, v) = 0
    BY <1>3, <1>5, CostOfItself
  <2>3. nextHops[u][v] = v
    BY <1>5 DEF DoneNode, Done, HopsRight
  <2> QED BY <1>2, <1>4, <2>1, <2>2, <2>3 DEF Service!RightRow, IsRoute, Cost
<1>6. CASE u # v
  <2> DEFINE h == nextHops[u][v]
  <2>1. <<u, h>> \in DOMAIN edge_cost /\ LinkCost(u, h) + Cost(h, v) <= Cost(u, v)
    <3>1. HopRight(u, distance_vectors[u], nextHops[u], v)
      BY DEF DoneNode, Done, HopsRight
    <3> QED BY <1>1, <1>2, <1>4, <1>6, <3>1 DEF HopRight
  <2> HIDE DEF h
  <2>2a. PICK n \in Nat \ {0} : \E p : BestOver(p, n + 1, u, v, h)
    BY <1>3, <1>4, <2>1, WalkWithHop
  <2>2. PICK p : BestOver(p, n + 1, u, v, h)
    BY <2>2a
  <2>3. n + 1 \in Nat \ {0} /\ n + 1 # 1
    OBVIOUS
  <2>4. IsRoute(p, u, v) /\ Service!PathCost(p) = Cost(u, v) /\ Len(p) = n + 1
    BY <1>3, <2>2, <2>3, RouteIff DEF BestOver, Walk
  <2>5. r.next_hop = p[2]
    BY <1>2, <2>2 DEF BestOver, h
  <2> QED BY <1>2, <1>4, <2>3, <2>4, <2>5 DEF Service!RightRow, IsRoute, Cost
<1> QED BY <1>5, <1>6


AllRows == UNION {RowsOf(u) : u \in nodes}

(* The table of a node has one row for each node it can reach.             *)
LEMMA RowsOfNode ==
    ASSUME Network, \A u \in nodes : DoneNode(u)
    PROVE  /\ AllRows # {}
           /\ \A u, v \in nodes : Cost(u, v) < Infinity =>
                 \E r : {x \in AllRows : x.node = u /\ x.dest = v} = {r}
<1> DEFINE row(u, v) == [node |-> u, dest |-> v, next_hop |-> nextHops[u][v],
                         cost |-> distance_vectors[u][v]]
<1>1. \A u, v \in nodes : distance_vectors[u][v] = Cost(u, v)
  BY DEF DoneNode, Done
<1>2. \A r : r \in AllRows <=>
         \E u, v \in nodes : r = row(u, v) /\ distance_vectors[u][v] # Infinity
  BY DEF AllRows, RowsOf
<1>3. \A u, v : row(u, v).node = u /\ row(u, v).dest = v
  OBVIOUS
<1> HIDE DEF row
<1>4. ASSUME NEW u \in nodes, NEW v \in nodes, Cost(u, v) < Infinity
      PROVE  {x \in AllRows : x.node = u /\ x.dest = v} = {row(u, v)}
  <2>1. distance_vectors[u][v] # Infinity
    BY <1>1, <1>4, NodeCost
  <2>2. row(u, v) \in AllRows
    BY <1>2, <2>1
  <2>3. ASSUME NEW x \in AllRows, x.node = u, x.dest = v PROVE x = row(u, v)
    <3>1. PICK a \in nodes, b \in nodes : x = row(a, b)
      BY <1>2
    <3>2. a = u /\ b = v
      BY <1>3, <2>3, <3>1
    <3> QED BY <3>1, <3>2
  <2> QED BY <1>3, <2>2, <2>3
<1>5. AllRows # {}
  <2>1. PICK u \in nodes : TRUE
    BY DEF Network
  <2>2. Cost(u, u) = 0
    BY CostOfItself DEF Network
  <2>3. distance_vectors[u][u] # Infinity
    BY <1>1, <2>2, InfinityIsPositive
  <2> QED BY <1>2, <2>3
<1> QED BY <1>4, <1>5

LEMMA StoreIsPrint ==
    ASSUME ServiceInv, StoreForwardingTable
    PROVE  Service!PrintTable
<1>1. Network /\ (\A u \in nodes : DoneNode(u)) /\ table = {}
  BY DEF ServiceInv, TablesInv, DoneInv, MessagesInv, StoreForwardingTable
<1>2. /\ table' = UNION {RowsOf(u) : u \in nodes}
      /\ UNCHANGED <<nodes, edge_cost, messages, answers>>
  BY DEF StoreForwardingTable, network
<1>3. /\ table' # {}
      /\ \A u, v \in nodes : Cost(u, v) < Infinity =>
            \E r : {x \in table' : x.node = u /\ x.dest = v} = {r}
  <2>1. table' = AllRows
    BY <1>2 DEF AllRows
  <2>2. AllRows # {}
    BY <1>1, RowsOfNode
  <2>3. ASSUME NEW u \in nodes, NEW v \in nodes, Cost(u, v) < Infinity
        PROVE  \E r : {x \in table' : x.node = u /\ x.dest = v} = {r}
    <3>1. PICK r : {x \in AllRows : x.node = u /\ x.dest = v} = {r}
      BY <1>1, <2>3, RowsOfNode
    <3>2. {x \in table' : x.node = u /\ x.dest = v} = {r}
      BY <2>1, <3>1
    <3> QED BY <3>2
  <2> QED BY <2>1, <2>2, <2>3
<1>4. \A r \in table' : Service!RightRow(r)
  BY <1>1, <1>2, RowIsRight
<1>5. ASSUME NEW u \in nodes, NEW v \in nodes, Service!Cost(u, v) < Infinity
      PROVE  Service!Cardinality({r \in table' : r.node = u /\ r.dest = v}) = 1
  <2> DEFINE S == {r \in table' : r.node = u /\ r.dest = v}
  <2>1. PICK r : S = {r}
    BY <1>3, <1>5 DEF Cost
  <2> HIDE DEF S
  <2>2. Cardinality(S) = 1
    BY <2>1, FS_Singleton
  <2>3. Service!Cardinality(S) = 1
    BY <2>2 DEF Service!Cardinality, Cardinality
  <2> QED BY <2>3 DEF S
<1> QED BY <1>1, <1>2, <1>3, <1>4, <1>5 DEF Service!PrintTable

(* While messages are sent the table is there.                             *)
LEMMA TableIsThere ==
    ASSUME ServiceInv, pc \in {"messages", "walk"}
    PROVE  table # {}
<1>1. Network /\ \A u \in nodes : DoneNode(u)
  BY DEF ServiceInv, TablesInv, DoneInv
<1>2. table = AllRows
  BY DEF ServiceInv, MessagesInv, AllRows
<1> QED BY <1>1, <1>2, RowsOfNode

(* One line more.                                                          *)
LEMMA OneAnswer ==
    ASSUME ServiceInv, pc \in {"messages", "walk"}, Len(answers) < Len(messages),
           NEW a, answers' = Append(answers, a),
           Service!RightAnswer(messages[Len(answers) + 1], a),
           UNCHANGED <<nodes, edge_cost, messages, table>>
    PROVE  Service!Answer
<1>1. answers \in Seq(AnswerType)
  BY DEF ServiceInv, MessagesInv
<1>2. /\ Len(answers') = Len(answers) + 1 /\ answers'[Len(answers) + 1] = a
      /\ \A k \in DOMAIN answers : answers'[k] = answers[k]
  <2>1. answers \in Seq(AnswerType \cup {a}) /\ DOMAIN answers = 1..Len(answers)
    <3>1. answers \in [1..Len(answers) -> AnswerType] /\ Len(answers) \in Nat
      BY <1>1, LenProperties
    <3>2. answers \in [1..Len(answers) -> AnswerType \cup {a}]
      BY <3>1
    <3> QED BY <3>1, <3>2, SeqDef
  <2> QED BY <2>1, AppendProperties
<1> QED BY <1>2, TableIsThere DEF Service!Answer

(* A message that cannot be delivered is answered at once.                 *)
LEMMA ReadIsAnswer ==
    ASSUME ServiceInv, ReadMessage \/ ResendMessage
    PROVE  Service!Answer \/ UNCHANGED <<nodes, edge_cost, messages, table, answers>>
<1> DEFINE m == messages[Len(answers) + 1]
<1>1. /\ messages \in Seq(nodes \X nodes) /\ Len(messages) \in Nat
      /\ Len(message_file) \in Nat /\ Len(answers) \in Nat
      /\ Len(message_file) <= Len(messages)
      /\ \A k \in 1..Len(message_file) : message_file[k] = messages[k]
  BY LenProperties DEF ServiceInv, MessagesInv
<1>2. pc = "messages" /\ StartMessage(m) /\ Len(answers) < Len(messages)
  <2>1. CASE ReadMessage
    BY <2>1 DEF ReadMessage
  <2>2. CASE ResendMessage
    <3>1. /\ pc = "messages" /\ Len(answers) < Len(message_file)
          /\ StartMessage(message_file[Len(answers) + 1])
      BY <2>2 DEF ResendMessage
    <3>2. Len(answers) + 1 \in 1..Len(message_file)
      BY <1>1, <3>1
    <3> QED BY <1>1, <3>1, <3>2
  <2> QED BY <2>1, <2>2
<1>3. m[1] \in nodes /\ m[2] \in nodes
  <2>1. Len(answers) + 1 \in 1..Len(messages)
    BY <1>1, <1>2
  <2>2. m \in nodes \X nodes
    BY <1>1, <2>1, ElementOfSeq
  <2> HIDE DEF m
  <2> QED BY <2>2
<1> HIDE DEF m
<1>4. UNCHANGED <<nodes, edge_cost, messages, table>>
  BY <1>2 DEF StartMessage, network
<1>5. CASE distance_vectors[m[1]][m[2]] # Infinity
  BY <1>2, <1>4, <1>5 DEF StartMessage
<1>6. CASE distance_vectors[m[1]][m[2]] = Infinity
  <2>1. answers' = Append(answers, [cost |-> Infinity, hops |-> <<>>])
    BY <1>2, <1>6 DEF StartMessage, storeMessageOutput
  <2>2. Cost(m[1], m[2]) = Infinity
    BY <1>2, <1>3, <1>6 DEF ServiceInv, TablesInv, DoneInv, DoneNode, Done
  <2>3. Service!RightAnswer(m, [cost |-> Infinity, hops |-> <<>>])
    BY <2>2 DEF Service!RightAnswer, Cost
  <2> QED BY <1>2, <1>4, <2>1, <2>3, OneAnswer DEF m
<1> QED BY <1>5, <1>6

LEMMA DeliverIsAnswer ==
    ASSUME ServiceInv, Deliver
    PROVE  Service!Answer
<1> DEFINE n == Len(path) + 1
           p == Append(path, curr)
           a == [cost |-> distance_vectors[src][dest], hops |-> path]
<1>1. /\ pc = "walk" /\ curr = dest /\ answers' = Append(answers, a)
      /\ UNCHANGED <<nodes, edge_cost, messages, table>>
  BY DEF Deliver, storeMessageOutput, getHops, network
<1>2. /\ path \in Seq(nodes) /\ curr \in nodes /\ OnTheWay(p, n, src, dest)
      /\ Len(answers) < Len(message_file) /\ message_file[Len(answers) + 1] = <<src, dest>>
  BY <1>1 DEF ServiceInv, WalkInv
<1>3. p = Append(path, dest) /\ p[n] = dest
  BY <1>1, <1>2, AppendProperties
<1>4. /\ Network /\ src \in nodes /\ dest \in nodes /\ src \in Routers /\ dest \in Routers
      /\ DoneNode(src) /\ n \in Nat \ {0}
  BY <1>1, <1>2 DEF ServiceInv, TablesInv, DoneInv, OnTheWay, Network
<1>5. a.cost = Cost(src, dest) /\ a.hops = path
  BY <1>4 DEF DoneNode, Done
<1> HIDE DEF p, n, a
<1>6. Walk(p, n, src, dest) /\ WalkCost(p, n) = Cost(src, dest)
  <2>1. OnTheWay(p, n, src, dest)
    BY <1>2
  <2>2. p[n] = dest
    BY <1>3
  <2>3. Network
    BY <1>4
  <2> QED BY <2>1, <2>2, <2>3, WayEnds
<1>7. IsRoute(p, src, dest) /\ Service!PathCost(p) = Cost(src, dest)
  BY <1>4, <1>6, RouteIff DEF Walk
<1>8. Service!RightAnswer(<<src, dest>>, a)
  <2> DEFINE m == <<src, dest>>
  <2>1. m[1] = src /\ m[2] = dest
    OBVIOUS
  <2> HIDE DEF m
  <2>2. Service!RightAnswer(m, a)
    BY <1>3, <1>5, <1>7, <2>1 DEF Service!RightAnswer, IsRoute, Cost
  <2> QED BY <2>2 DEF m
<1>9. Len(answers) < Len(messages) /\ messages[Len(answers) + 1] = <<src, dest>>
  <2>1. /\ Len(messages) \in Nat /\ Len(message_file) \in Nat /\ Len(answers) \in Nat
        /\ Len(message_file) <= Len(messages)
        /\ \A k \in 1..Len(message_file) : message_file[k] = messages[k]
    BY LenProperties DEF ServiceInv, MessagesInv
  <2>2. Len(answers) + 1 \in 1..Len(message_file)
    BY <1>2, <2>1
  <2> QED BY <1>2, <2>1, <2>2
<1> QED BY <1>1, <1>8, <1>9, OneAnswer

LEMMA ChangeIsChange ==
    ASSUME ServiceInv, ChangeTopology
    PROVE  Service!Change
<1>1. /\ pc = "messages" /\ message_file = messages /\ Len(answers) = Len(messages)
      /\ table' = {} /\ answers' = <<>> /\ nodes' = nodes /\ messages' = messages
  BY DEF ChangeTopology, Change
<1>2. PICK p \in Links : RemoveLink(p) \/ \E c \in Costs : SetLink(p, c)
  BY DEF ChangeTopology, Change
<1>3. /\ p = <<p[1], p[2]>> /\ p[1] \in Routers /\ p[2] \in Routers
      /\ Reverse(p) = <<p[2], p[1]>>
  BY ReversedLink
<1>4. ASSUME NEW q \in DOMAIN edge_cost \cup DOMAIN edge_cost', q \notin {p, Reverse(p)}
      PROVE  q \in DOMAIN edge_cost \cap DOMAIN edge_cost' /\ edge_cost'[q] = edge_cost[q]
  BY <1>2, <1>4 DEF RemoveLink, SetLink
<1>5. Service!IsNetwork(edge_cost')
  <2>1. LinksInv
    BY DEF ServiceInv, TablesInv
  <2>2. LinksInv'
    BY <2>1, ChangeLinks DEF ChangeTopology
  <2>3. DOMAIN edge_cost' \subseteq Routers \X Routers
    BY <2>2 DEF LinksInv
  <2>4. ASSUME NEW q \in DOMAIN edge_cost'
        PROVE  <<q[2], q[1]>> \in DOMAIN edge_cost' /\ edge_cost'[<<q[2], q[1]>>] = edge_cost'[q]
    <3>1. q[1] \in Routers /\ q[2] \in Routers /\ q = <<q[1], q[2]>>
      BY <2>3
    <3> QED BY <2>2, <3>1 DEF LinksInv, LinksAgree
  <2> QED BY <2>3, <2>4 DEF Service!IsNetwork
<1>6. \E u, v \in Routers : \A q \in DOMAIN edge_cost \cup DOMAIN edge_cost' :
          \/ q \in {<<u, v>>, <<v, u>>}
          \/ q \in DOMAIN edge_cost \cap DOMAIN edge_cost' /\ edge_cost'[q] = edge_cost[q]
  BY <1>3, <1>4
<1>7. table # {}
  BY <1>1, TableIsThere
<1> QED BY <1>1, <1>5, <1>6, <1>7 DEF Service!Change


LEMMA InitIsInit ==
    ASSUME NewRouters = {}, Init
    PROVE  Service!Init
<1>1. LinksInv /\ nodes \subseteq Routers
  BY InitTables DEF TablesInv, Network
<1>2. Service!IsNetwork(edge_cost)
  <2>1. DOMAIN edge_cost \subseteq Routers \X Routers
    BY <1>1 DEF LinksInv
  <2>2. ASSUME NEW q \in DOMAIN edge_cost
        PROVE  <<q[2], q[1]>> \in DOMAIN edge_cost /\ edge_cost[<<q[2], q[1]>>] = edge_cost[q]
    <3>1. q[1] \in Routers /\ q[2] \in Routers /\ q = <<q[1], q[2]>>
      BY <2>1
    <3> QED BY <1>1, <3>1 DEF LinksInv, LinksAgree
  <2> QED BY <2>1, <2>2 DEF Service!IsNetwork
<1>3. messages \in Seq(nodes \X nodes) /\ table = {} /\ answers = <<>>
  BY InitMessages DEF MessagesInv, Init
<1> QED BY <1>1, <1>2, <1>3 DEF Service!Init

LEMMA StepIsStep ==
    ASSUME ServiceInv, [Next]_vars
    PROVE  [Service!Next]_<<nodes, edge_cost, messages, table, answers>>
<1>1. CASE UNCHANGED vars
  BY <1>1 DEF vars, network, output
<1>2. CASE ComputeLinkState
  BY <1>2 DEF ComputeLinkState, LinkStateNext, InitNextHops, BeginDijkstra, Settle,
              SettleNone, EndDijkstra, network, output
<1>3. CASE ComputeDistVec
  BY <1>3 DEF ComputeDistVec, DistVecNext, InitDistanceVectors, NextEdge, NextRound,
              EndUpdate, network, output
<1>4. CASE StoreForwardingTable
  BY <1>4, StoreIsPrint DEF Service!Next
<1>5. CASE ReadMessage \/ ResendMessage
  BY <1>5, ReadIsAnswer DEF Service!Next
<1>6. CASE Forward
  BY <1>6 DEF Forward, network, output
<1>7. CASE Deliver
  BY <1>7, DeliverIsAnswer DEF Service!Next
<1>8. CASE ChangeTopology
  BY <1>8, ChangeIsChange DEF Service!Next
<1> QED BY <1>1, <1>2, <1>3, <1>4, <1>5, <1>6, <1>7, <1>8 DEF Next, Proceed

(* linkstate and distvec are what MessageService promises: for each state  *)
(* of the network one table of shortest paths with next hops on them, and  *)
(* one right answer to every message, in the order of the file.            *)
THEOREM RoutingIsService ==
    ASSUME NewRouters = {}
    PROVE  Spec => IsService
<1>1. Init => ServiceInv
  BY InitService
<1>2. ServiceInv /\ [Next]_vars => ServiceInv'
  BY NextService
<1>3. Init => Service!Init
  BY InitIsInit
<1>4. ServiceInv /\ [Next]_vars
        => [Service!Next]_<<nodes, edge_cost, messages, table, answers>>
  BY StepIsStep
<1> QED BY <1>1, <1>2, <1>3, <1>4, PTL DEF Spec, IsService, Service!Spec


=============================================================================
