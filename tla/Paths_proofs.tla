---------------------------- MODULE Paths_proofs ----------------------------
(* Shortest paths in the network that linkstate and distvec keep: what the *)
(* costs that MessageService finds by looking at all paths have to do with *)
(* each other, link by link.  The tables are computed by the latter.       *)
EXTENDS Routing, Sums_proofs, SequenceTheorems

(* Most facts need no bound on the costs.                                  *)
LEMMA Constants ==
    /\ Routers \subseteq Nat \ {0} /\ IsFiniteSet(Routers) /\ NewRouters \subseteq Routers
    /\ Costs \subseteq Nat \ {0}
    /\ Infinity \in Nat
BY TopologyAssumption

LEMMA InfinityIsPositive == Infinity # 0
BY TopologyAssumption

USE Constants

(* The network between two changes, if these name no new nodes.            *)
Network ==
    /\ nodes \subseteq Routers /\ nodes # {}
    /\ DOMAIN edge_cost \subseteq nodes \X nodes
    /\ \A p \in DOMAIN edge_cost : edge_cost[p] \in Costs
    /\ \A u, v \in Routers : <<u, v>> \in DOMAIN edge_cost =>
          /\ <<v, u>> \in DOMAIN edge_cost
          /\ edge_cost[<<u, v>>] = edge_cost[<<v, u>>]

Size == Cardinality(Routers)

IsRoute(p, u, v) == p \in Service!LinkedRoutes(u, v)

LinkCost(u, v) == edge_cost[<<u, v>>]

(* The service's own instance of the counting of sets.                     *)
LEMMA SizeDef == Service!Cardinality(Routers) = Size
BY DEF Service!Cardinality, Cardinality, Size

LEMMA CostDef ==
    ASSUME NEW u, NEW v
    PROVE  Cost(u, v) = Service!Shortest(u, v, Size)
BY SizeDef DEF Cost, Service!Cost

LEMMA RouteDef ==
    ASSUME NEW u \in Routers, NEW v \in Routers, NEW p
    PROVE  IsRoute(p, u, v) <=>
              /\ \E n \in 1..Size : p \in [1..n -> Routers]
              /\ p[1] = u /\ p[Len(p)] = v
              /\ \A a, b \in DOMAIN p : p[a] = p[b] => a = b
              /\ Service!IsLinked(p)
<1>1. <<u, v>> \in Routers \X Routers
  OBVIOUS
<1> QED BY <1>1, SizeDef DEF IsRoute, Service!LinkedRoutes, Service!Routes, Service!IsInjective

(* The cost of a sequence of nodes, by the facts about sums.               *)
LEMMA PathCostDef ==
    ASSUME NEW p
    PROVE  Service!PathCost(p)
             = SumFunctionOnSet([k \in 1..(Len(p) - 1) |-> LinkCost(p[k], p[k + 1])], 1..(Len(p) - 1))
BY DEF Service!PathCost, LinkCost, Service!SumFunction, Service!SumFunctionOnSet,
       Service!FoldFunctionOnSet, Service!MapThenFoldSet,
       SumFunctionOnSet, FoldFunctionOnSet, MapThenFoldSet

LEMMA ShortestDef ==
    ASSUME NEW u \in Routers, NEW v \in Routers, NEW n
    PROVE  LET costs == {Infinity} \cup {Service!PathCost(p) :
                             p \in {p \in Service!LinkedRoutes(u, v) : Len(p) <= n + 1}}
           IN  Service!Shortest(u, v, n) = CHOOSE x \in costs : \A y \in costs : x =< y
BY DEF Service!Shortest, Service!Min

-----------------------------------------------------------------------------
(* Walks over links                                                        *)

Linked(p, n) == \A k \in 1..(n - 1) : <<p[k], p[k + 1]>> \in DOMAIN edge_cost

WalkCost(p, n) ==
    SumFunctionOnSet([k \in 1..(n - 1) |-> LinkCost(p[k], p[k + 1])], 1..(n - 1))

LEMMA SizeType == Size \in Nat /\ IsFiniteSet(Routers)
BY FS_CardinalityType DEF Size

LEMMA LinkType ==
    ASSUME Network, NEW u, NEW v, <<u, v>> \in DOMAIN edge_cost
    PROVE  /\ u \in nodes /\ v \in nodes /\ u \in Routers /\ v \in Routers
           /\ LinkCost(u, v) \in Nat \ {0} /\ LinkCost(u, v) \in Costs
           /\ <<v, u>> \in DOMAIN edge_cost /\ LinkCost(v, u) = LinkCost(u, v)
BY DEF Network, LinkCost

LEMMA Steps == ASSUME NEW n \in Int PROVE IsFiniteSet(1..(n - 1))
BY FS_Interval

LEMMA LinkOfWalk ==
    ASSUME Network, NEW p, NEW n \in Int, Linked(p, n), NEW k \in 1..(n - 1)
    PROVE  /\ <<p[k], p[k + 1]>> \in DOMAIN edge_cost
           /\ LinkCost(p[k], p[k + 1]) \in Nat \ {0}
           /\ LinkCost(p[k], p[k + 1]) \in Int
<1>1. <<p[k], p[k + 1]>> \in DOMAIN edge_cost
  BY DEF Linked
<1>2. LinkCost(p[k], p[k + 1]) \in Nat \ {0}
  BY <1>1, LinkType
<1> QED BY <1>1, <1>2

LEMMA WalkCostOne == ASSUME NEW p PROVE WalkCost(p, 1) = 0
<1>1. 1..(1 - 1) = {}
  OBVIOUS
<1> QED BY <1>1, SumEmpty DEF WalkCost

(* One link more.                                                          *)
LEMMA WalkStep ==
    ASSUME Network, NEW p, NEW q, NEW n \in Nat \ {0}, Linked(q, n + 1),
           \A k \in 1..n : q[k] = p[k]
    PROVE  WalkCost(q, n + 1) = WalkCost(p, n) + LinkCost(q[n], q[n + 1])
<1> DEFINE fq == [k \in 1..((n + 1) - 1) |-> LinkCost(q[k], q[k + 1])]
           fp == [k \in 1..(n - 1) |-> LinkCost(p[k], p[k + 1])]
<1>1. (n + 1) - 1 = n /\ 1..n = 1..(n - 1) \cup {n} /\ n \notin 1..(n - 1)
  OBVIOUS
<1>2. \A k \in 1..n : fq[k] \in Int /\ fq[k] = LinkCost(q[k], q[k + 1])
  <2> TAKE k \in 1..n
  <2>1. k \in 1..((n + 1) - 1) /\ n + 1 \in Int
    BY <1>1
  <2>2. LinkCost(q[k], q[k + 1]) \in Int
    BY <2>1, LinkOfWalk
  <2> QED BY <2>1, <2>2
<1>3. \A k \in 1..(n - 1) : fq[k] = fp[k]
  <2> TAKE k \in 1..(n - 1)
  <2>1. k \in 1..n /\ k + 1 \in 1..n
    OBVIOUS
  <2> QED BY <1>2, <2>1
<1> HIDE DEF fq, fp
<1>4. SumFunctionOnSet(fq, 1..(n - 1) \cup {n}) = fq[n] + SumFunctionOnSet(fq, 1..(n - 1))
  <2>1. \A k \in 1..(n - 1) : fq[k] \in Int
    BY <1>2
  <2>2. fq[n] \in Int
    <3>1. n \in 1..n
      OBVIOUS
    <3> QED BY <1>2, <3>1
  <2>3. IsFiniteSet(1..(n - 1)) /\ n \notin 1..(n - 1)
    BY Steps
  <2> QED BY <2>1, <2>2, <2>3, SumAddElement
<1>5. SumFunctionOnSet(fq, 1..(n - 1)) = SumFunctionOnSet(fp, 1..(n - 1))
      /\ SumFunctionOnSet(fq, 1..(n - 1)) \in Int
  <2>1. \A k \in 1..(n - 1) : fq[k] \in Int /\ fq[k] = fp[k]
    BY <1>2, <1>3
  <2> QED BY <2>1, Steps, SumEqual, SumType
<1>6. WalkCost(q, n + 1) = SumFunctionOnSet(fq, 1..(n - 1) \cup {n})
  BY <1>1 DEF WalkCost, fq
<1>7. WalkCost(p, n) = SumFunctionOnSet(fp, 1..(n - 1))
  BY DEF WalkCost, fp
<1>8. n \in 1..n
  OBVIOUS
<1> QED BY <1>2, <1>4, <1>5, <1>6, <1>7, <1>8

LEMMA WalkCostType ==
    ASSUME Network, NEW p, NEW n \in Nat \ {0}, Linked(p, n)
    PROVE  WalkCost(p, n) \in Nat
<1> DEFINE f == [k \in 1..(n - 1) |-> LinkCost(p[k], p[k + 1])]
           zero == [k \in 1..(n - 1) |-> 0]
<1>1. \A k \in 1..(n - 1) : /\ f[k] \in Int /\ zero[k] \in Int /\ zero[k] <= f[k]
                            /\ zero[k] = 0
  <2> TAKE k \in 1..(n - 1)
  <2>1. LinkCost(p[k], p[k + 1]) \in Nat \ {0}
    <3>1. n \in Int
      OBVIOUS
    <3> QED BY <3>1, LinkOfWalk
  <2>2. f[k] = LinkCost(p[k], p[k + 1]) /\ zero[k] = 0
    OBVIOUS
  <2> HIDE DEF f, zero
  <2> QED BY <2>1, <2>2
<1> HIDE DEF zero
<1>2. SumFunctionOnSet(zero, 1..(n - 1)) = 0 * Cardinality(1..(n - 1))
  <2>1. 0 \in Int /\ \A k \in 1..(n - 1) : zero[k] = 0
    BY <1>1
  <2> QED BY <2>1, Steps, SumConstant
<1>3. SumFunctionOnSet(zero, 1..(n - 1)) = 0
  BY <1>2, Steps, FS_CardinalityType
<1>4. SumFunctionOnSet(zero, 1..(n - 1)) <= WalkCost(p, n) /\ WalkCost(p, n) \in Int
  <2> HIDE DEF f
  <2>1. SumFunctionOnSet(zero, 1..(n - 1)) <= SumFunctionOnSet(f, 1..(n - 1))
    BY <1>1, Steps, SumMonotonic
  <2>2. SumFunctionOnSet(f, 1..(n - 1)) \in Int
    BY <1>1, Steps, SumType
  <2> QED BY <2>1, <2>2 DEF WalkCost, f
<1> QED BY <1>3, <1>4

(* What a walk costs at most, when no link costs more than c.              *)
LEMMA WalkCostBound ==
    ASSUME Network, NEW p, NEW n \in Nat \ {0}, Linked(p, n),
           NEW c \in Nat, \A e \in DOMAIN edge_cost : edge_cost[e] <= c
    PROVE  WalkCost(p, n) <= c * (n - 1)
<1> DEFINE f == [k \in 1..(n - 1) |-> LinkCost(p[k], p[k + 1])]
           const == [k \in 1..(n - 1) |-> c]
<1>1. \A k \in 1..(n - 1) : /\ f[k] \in Int /\ const[k] \in Int /\ f[k] <= const[k]
                            /\ const[k] = c
  <2> TAKE k \in 1..(n - 1)
  <2>1. /\ <<p[k], p[k + 1]>> \in DOMAIN edge_cost /\ LinkCost(p[k], p[k + 1]) \in Int
    BY LinkOfWalk
  <2>2. LinkCost(p[k], p[k + 1]) <= c
    BY <2>1 DEF LinkCost
  <2> QED BY <2>1, <2>2
<1> HIDE DEF const
<1>2. SumFunctionOnSet(const, 1..(n - 1)) = c * Cardinality(1..(n - 1))
  <2>1. c \in Int /\ \A k \in 1..(n - 1) : const[k] = c
    BY <1>1
  <2> QED BY <2>1, Steps, SumConstant
<1>3. Cardinality(1..(n - 1)) = n - 1
  BY FS_Interval
<1>4. WalkCost(p, n) <= SumFunctionOnSet(const, 1..(n - 1))
  <2> HIDE DEF f
  <2>1. SumFunctionOnSet(f, 1..(n - 1)) <= SumFunctionOnSet(const, 1..(n - 1))
    BY <1>1, Steps, SumMonotonic
  <2> QED BY <2>1 DEF WalkCost, f
<1> QED BY <1>2, <1>3, <1>4

(* A part from the beginning costs no more.                                *)
LEMMA WalkPrefix ==
    ASSUME Network, NEW p, NEW n \in Nat \ {0}, Linked(p, n), NEW k \in 1..n
    PROVE  Linked(p, k) /\ WalkCost(p, k) <= WalkCost(p, n)
<1> DEFINE G == {m \in Nat : k + m <= n => WalkCost(p, k) <= WalkCost(p, k + m)}
<1>1. \A m \in 1..n : Linked(p, m)
  BY DEF Linked
<1>2. 0 \in G
  <2>1. WalkCost(p, k) \in Nat /\ k + 0 = k
    BY <1>1, WalkCostType
  <2> QED BY <2>1
<1>3. ASSUME NEW m \in Nat, m \in G PROVE m + 1 \in G
  <2> SUFFICES ASSUME k + (m + 1) <= n PROVE WalkCost(p, k) <= WalkCost(p, k + (m + 1))
    OBVIOUS
  <2>1. /\ k + m \in 1..n /\ (k + m) + 1 \in 1..n /\ k + (m + 1) = (k + m) + 1
        /\ k + m \in Nat \ {0} /\ k + m <= n
    OBVIOUS
  <2>2. WalkCost(p, (k + m) + 1) = WalkCost(p, k + m) + LinkCost(p[k + m], p[(k + m) + 1])
    BY <1>1, <2>1, WalkStep
  <2>3. LinkCost(p[k + m], p[(k + m) + 1]) \in Nat
    <3>1. k + m \in 1..(n - 1) /\ n \in Int
      BY <2>1
    <3>2. LinkCost(p[k + m], p[(k + m) + 1]) \in Nat \ {0}
      BY <3>1, LinkOfWalk
    <3> QED BY <3>2
  <2>4. WalkCost(p, k) <= WalkCost(p, k + m)
    BY <1>3, <2>1
  <2>5. WalkCost(p, k) \in Nat /\ WalkCost(p, k + m) \in Nat
    BY <1>1, <2>1, WalkCostType
  <2> HIDE DEF G
  <2> QED BY <2>1, <2>2, <2>3, <2>4, <2>5
<1>4. n - k \in G
  <2>1. Nat \subseteq G
    <3> HIDE DEF G
    <3> QED BY <1>2, <1>3, NumberInduction
  <2> QED BY <2>1
<1>5. k + (n - k) = n /\ k + (n - k) <= n
  OBVIOUS
<1> QED BY <1>1, <1>4, <1>5

(* The way back costs the same.                                            *)
LEMMA WalkBack ==
    ASSUME Network, NEW p, NEW q, NEW n \in Nat \ {0}, Linked(p, n),
           \A k \in 1..n : q[k] = p[(n + 1) - k]
    PROVE  Linked(q, n) /\ WalkCost(q, n) = WalkCost(p, n)
<1> DEFINE D == 1..(n - 1)
           fp == [k \in D |-> LinkCost(p[k], p[k + 1])]
           fq == [k \in D |-> LinkCost(q[k], q[k + 1])]
           h == [k \in D |-> n - k]
<1>0. n \in Int
  OBVIOUS
<1>1. ASSUME NEW k \in D
      PROVE  /\ n - k \in D
             /\ <<q[k], q[k + 1]>> \in DOMAIN edge_cost
             /\ LinkCost(q[k], q[k + 1]) = LinkCost(p[n - k], p[(n - k) + 1])
  <2>1. n - k \in D /\ k \in 1..n /\ k + 1 \in 1..n
        /\ (n + 1) - (k + 1) = n - k /\ (n + 1) - k = (n - k) + 1
    OBVIOUS
  <2>2. q[k] = p[(n - k) + 1] /\ q[k + 1] = p[n - k]
    <3>1. q[k] = p[(n + 1) - k] /\ q[k + 1] = p[(n + 1) - (k + 1)]
      BY <2>1
    <3> QED BY <2>1, <3>1
  <2>3. <<p[n - k], p[(n - k) + 1]>> \in DOMAIN edge_cost
    BY <1>0, <2>1, LinkOfWalk
  <2>4. /\ <<p[(n - k) + 1], p[n - k]>> \in DOMAIN edge_cost
        /\ LinkCost(p[(n - k) + 1], p[n - k]) = LinkCost(p[n - k], p[(n - k) + 1])
    BY <2>3, LinkType
  <2> QED BY <2>1, <2>2, <2>4
<1>2. Linked(q, n)
  BY <1>1 DEF Linked
<1>3. \A k \in D : fp[h[k]] \in Int /\ fq[k] = fp[h[k]]
  <2> TAKE k \in D
  <2>1. h[k] = n - k /\ n - k \in D
    BY <1>1
  <2>2. LinkCost(p[n - k], p[(n - k) + 1]) \in Int
    BY <1>0, <2>1, LinkOfWalk
  <2>3. fp[n - k] = LinkCost(p[n - k], p[(n - k) + 1]) /\ fq[k] = LinkCost(q[k], q[k + 1])
    BY <2>1
  <2> HIDE DEF fp, fq, h
  <2> QED BY <1>1, <2>1, <2>2, <2>3
<1>4. \A k, m \in D : h[k] = h[m] => k = m
  OBVIOUS
<1>5. {h[k] : k \in D} = D
  <2>1. \A k \in D : h[k] \in D
    BY <1>1
  <2>2. \A k \in D : n - k \in D /\ h[n - k] = k
    BY <1>1
  <2> HIDE DEF D, h
  <2> QED BY <2>1, <2>2
<1>6. IsFiniteSet(D)
  BY <1>0, Steps
<1>7. SumFunctionOnSet(fp, {h[k] : k \in D}) = SumFunctionOnSet(fq, D)
  <2> HIDE DEF D, fp, fq, h
  <2> QED BY <1>3, <1>4, <1>6, SumImage
<1> QED BY <1>2, <1>5, <1>7 DEF WalkCost

-----------------------------------------------------------------------------
(* Routes: walks that visit no node twice                                  *)

Simple(p, n) ==
    /\ p \in [1..n -> Routers]
    /\ \A a, b \in 1..n : p[a] = p[b] => a = b

LEMMA LenOfRoute ==
    ASSUME NEW n \in Nat, NEW p \in [1..n -> Routers]
    PROVE  Len(p) = n
<1>1. p \in Seq(Routers)
  BY SeqDef
<1>2. DOMAIN p = 1..Len(p) /\ Len(p) \in Nat
  BY <1>1, LenProperties
<1>3. 1..n = 1..Len(p)
  BY <1>2
<1> QED BY <1>2, <1>3

(* No more nodes than there are in S.                                      *)
LEMMA SimpleLength ==
    ASSUME NEW S, IsFiniteSet(S), NEW n \in Nat, NEW p \in [1..n -> S],
           \A a, b \in 1..n : p[a] = p[b] => a = b
    PROVE  n <= Cardinality(S)
<1>1. p \in Injection(1..n, S)
  BY DEF Injection, IsInjective
<1>2. Cardinality(1..n) <= Cardinality(S)
  BY <1>1, FS_Injection
<1>3. Cardinality(1..n) = n
  BY FS_Interval
<1> QED BY <1>2, <1>3

LEMMA RouteIff ==
    ASSUME NEW u \in Routers, NEW v \in Routers, NEW n \in Nat \ {0}, NEW p, Simple(p, n)
    PROVE  /\ IsRoute(p, u, v) <=> p[1] = u /\ p[n] = v /\ Linked(p, n)
           /\ Service!PathCost(p) = WalkCost(p, n)
           /\ Len(p) = n /\ n <= Size
<1>1. Len(p) = n
  BY LenOfRoute DEF Simple
<1>2. n \in 1..Size
  <2>1. n <= Size
    BY SizeType, SimpleLength DEF Simple, Size
  <2> QED BY <2>1, SizeType
<1>3. DOMAIN p = 1..n /\ p \in [1..n -> Routers] /\ \A a, b \in DOMAIN p : p[a] = p[b] => a = b
  BY DEF Simple
<1>4. Service!IsLinked(p) <=> Linked(p, n)
  BY <1>1 DEF Service!IsLinked, Linked
<1>5. IsRoute(p, u, v) <=> p[1] = u /\ p[n] = v /\ Linked(p, n)
  BY <1>1, <1>2, <1>3, <1>4, RouteDef
<1>6. Service!PathCost(p) = WalkCost(p, n)
  BY <1>1, PathCostDef DEF WalkCost
<1> QED BY <1>1, <1>2, <1>5, <1>6

LEMMA RouteParts ==
    ASSUME NEW u \in Routers, NEW v \in Routers, NEW p, IsRoute(p, u, v)
    PROVE  \E n \in Nat \ {0} :
              /\ n <= Size /\ Len(p) = n /\ Simple(p, n) /\ Linked(p, n)
              /\ p[1] = u /\ p[n] = v
              /\ Service!PathCost(p) = WalkCost(p, n)
<1>1. PICK n \in 1..Size : p \in [1..n -> Routers]
  BY RouteDef
<1>2. n \in Nat \ {0} /\ n <= Size
  BY SizeType
<1>3. DOMAIN p = 1..n
  BY <1>1
<1>4. \A a, b \in 1..n : p[a] = p[b] => a = b
  BY <1>3, RouteDef
<1>5. Simple(p, n)
  BY <1>1, <1>4 DEF Simple
<1> QED BY <1>2, <1>5, RouteIff

-----------------------------------------------------------------------------
(* The cost of the best route of at most m links                           *)

Walk(p, n, u, v) == Simple(p, n) /\ Linked(p, n) /\ p[1] = u /\ p[n] = v

Best(u, v, m) == Service!Shortest(u, v, m)

LEMMA BestParts ==
    ASSUME Network, NEW u \in Routers, NEW v \in Routers, NEW m \in Nat
    PROVE  /\ Best(u, v, m) \in Nat /\ Best(u, v, m) <= Infinity
           /\ \A n \in Nat \ {0} : \A p :
                 n <= m + 1 /\ Walk(p, n, u, v) => Best(u, v, m) <= WalkCost(p, n)
           /\ Best(u, v, m) # Infinity =>
                 \E n \in Nat \ {0} : \E p :
                    /\ n <= m + 1 /\ n <= Size /\ Walk(p, n, u, v)
                    /\ Best(u, v, m) = WalkCost(p, n)
<1> DEFINE short == {p \in Service!LinkedRoutes(u, v) : Len(p) <= m + 1}
           costs == {Infinity} \cup {Service!PathCost(p) : p \in short}
<1>1. ASSUME NEW p \in short
      PROVE  \E n \in Nat \ {0} :
                /\ n <= m + 1 /\ n <= Size /\ Walk(p, n, u, v)
                /\ Service!PathCost(p) = WalkCost(p, n) /\ WalkCost(p, n) \in Nat
  <2>1. IsRoute(p, u, v) /\ Len(p) <= m + 1
    BY DEF IsRoute
  <2>2. PICK n \in Nat \ {0} :
              /\ n <= Size /\ Len(p) = n /\ Simple(p, n) /\ Linked(p, n)
              /\ p[1] = u /\ p[n] = v
              /\ Service!PathCost(p) = WalkCost(p, n)
    BY <2>1, RouteParts
  <2>3. WalkCost(p, n) \in Nat
    BY <2>2, WalkCostType
  <2> QED BY <2>1, <2>2, <2>3 DEF Walk
<1>2. ASSUME NEW n \in Nat \ {0}, NEW p, n <= m + 1, Walk(p, n, u, v)
      PROVE  WalkCost(p, n) \in costs
  <2>1. IsRoute(p, u, v) /\ Len(p) = n /\ Service!PathCost(p) = WalkCost(p, n)
    BY <1>2, RouteIff DEF Walk
  <2>2. p \in short
    BY <1>2, <2>1 DEF IsRoute
  <2> QED BY <2>1, <2>2
<1>3. costs \subseteq Nat /\ costs # {}
  <2>1. \A p \in short : Service!PathCost(p) \in Nat
    BY <1>1
  <2> QED BY <2>1
<1>4. Best(u, v, m) = CHOOSE x \in costs : \A y \in costs : x =< y
  BY ShortestDef DEF Best
<1> HIDE DEF costs
<1>5. \E x \in costs : \A y \in costs : x =< y
  BY <1>3, LeastNumber
<1>6. Best(u, v, m) \in costs /\ \A y \in costs : Best(u, v, m) <= y
  BY <1>4, <1>5
<1>7. Infinity \in costs
  BY DEF costs
<1>8. ASSUME Best(u, v, m) # Infinity
      PROVE  \E n \in Nat \ {0} : \E p :
                    /\ n <= m + 1 /\ n <= Size /\ Walk(p, n, u, v)
                    /\ Best(u, v, m) = WalkCost(p, n)
  <2>1. PICK p \in short : Best(u, v, m) = Service!PathCost(p)
    BY <1>6, <1>8 DEF costs
  <2> HIDE DEF short
  <2> QED BY <1>1, <2>1
<1> QED BY <1>2, <1>3, <1>6, <1>7, <1>8

LEMMA CostIsBest ==
    ASSUME NEW u, NEW v
    PROVE  Cost(u, v) = Best(u, v, Size)
BY CostDef DEF Best

(* What Cost is, with no bound on the length.                              *)
LEMMA CostParts ==
    ASSUME Network, NEW u \in Routers, NEW v \in Routers
    PROVE  /\ Cost(u, v) \in Nat /\ Cost(u, v) <= Infinity
           /\ \A n \in Nat \ {0} : \A p : Walk(p, n, u, v) => Cost(u, v) <= WalkCost(p, n)
           /\ Cost(u, v) # Infinity =>
                 \E n \in Nat \ {0} : \E p :
                    n <= Size /\ Walk(p, n, u, v) /\ Cost(u, v) = WalkCost(p, n)
<1>1. Size \in Nat
  BY SizeType
<1>2. ASSUME NEW n \in Nat \ {0}, NEW p, Walk(p, n, u, v)
      PROVE  n <= Size + 1
  <2>1. n <= Size
    BY <1>2, RouteIff DEF Walk
  <2> QED BY <1>1, <2>1
<1>3. PICK c : c = Best(u, v, Size) /\ Cost(u, v) = c
  BY CostIsBest
<1>4. /\ c \in Nat /\ c <= Infinity
      /\ \A n \in Nat \ {0} : \A p : n <= Size + 1 /\ Walk(p, n, u, v) => c <= WalkCost(p, n)
      /\ c # Infinity =>
            \E n \in Nat \ {0} : \E p :
               n <= Size /\ Walk(p, n, u, v) /\ c = WalkCost(p, n)
  <2>1. Best(u, v, Size) \in Nat /\ Best(u, v, Size) <= Infinity
    BY <1>1, BestParts
  <2>2. \A n \in Nat \ {0} : \A p :
           n <= Size + 1 /\ Walk(p, n, u, v) => Best(u, v, Size) <= WalkCost(p, n)
    BY <1>1, BestParts
  <2>3. ASSUME Best(u, v, Size) # Infinity
        PROVE  \E n \in Nat \ {0} : \E p :
                  n <= Size /\ Walk(p, n, u, v) /\ Best(u, v, Size) = WalkCost(p, n)
    <3>1. \E n \in Nat \ {0} : \E p :
             /\ n <= Size + 1 /\ n <= Size /\ Walk(p, n, u, v)
             /\ Best(u, v, Size) = WalkCost(p, n)
      BY <1>1, <2>3, BestParts
    <3> QED BY <3>1
  <2> QED BY <1>3, <2>1, <2>2, <2>3
<1> QED BY <1>2, <1>3, <1>4

LEMMA BestAboveCost ==
    ASSUME Network, NEW u \in Routers, NEW v \in Routers, NEW m \in Nat
    PROVE  Cost(u, v) <= Best(u, v, m)
<1>1. /\ Best(u, v, m) \in Nat /\ Best(u, v, m) <= Infinity
      /\ Cost(u, v) \in Nat /\ Cost(u, v) <= Infinity
  BY BestParts, CostParts
<1>2. CASE Best(u, v, m) = Infinity
  BY <1>1, <1>2
<1>3. CASE Best(u, v, m) # Infinity
  <2>0. PICK n \in Nat \ {0} : \E p : Walk(p, n, u, v) /\ Best(u, v, m) = WalkCost(p, n)
    BY <1>3, BestParts
  <2>1. PICK p : Walk(p, n, u, v) /\ Best(u, v, m) = WalkCost(p, n)
    BY <2>0
  <2> QED BY <2>1, CostParts
<1> QED BY <1>2, <1>3

(* A route without links.                                                  *)
LEMMA CostOfItself ==
    ASSUME Network, NEW u \in Routers
    PROVE  Cost(u, u) = 0
<1> DEFINE p == [k \in 1..1 |-> u]
<1>1. Walk(p, 1, u, u)
  <2>1. Simple(p, 1)
    BY DEF Simple
  <2>2. Linked(p, 1)
    BY DEF Linked
  <2> QED BY <2>1, <2>2 DEF Walk
<1>2. WalkCost(p, 1) = 0
  BY WalkCostOne
<1> HIDE DEF p
<1>3. Cost(u, u) <= 0
  BY <1>1, <1>2, CostParts
<1> QED BY <1>3, CostParts

(* A route is as good in the other direction.                              *)
Back(q, p, n) ==
    WalkCost(q, n) = WalkCost(p, n) /\ \A k \in 1..n : q[k] = p[(n + 1) - k]

LEMMA WalkReversed ==
    ASSUME Network, NEW u, NEW v, NEW n \in Nat \ {0}, NEW p, Walk(p, n, u, v)
    PROVE  \E q : Walk(q, n, v, u) /\ Back(q, p, n)
<1> DEFINE q == [k \in 1..n |-> p[(n + 1) - k]]
<1>1. \A k \in 1..n : q[k] = p[(n + 1) - k] /\ (n + 1) - k \in 1..n
  OBVIOUS
<1>2. Linked(q, n) /\ WalkCost(q, n) = WalkCost(p, n)
  <2>1. \A k \in 1..n : q[k] = p[(n + 1) - k]
    OBVIOUS
  <2> HIDE DEF q
  <2> QED BY <2>1, WalkBack DEF Walk
<1>3. q \in [1..n -> Routers]
  BY <1>1 DEF Walk, Simple
<1>4. ASSUME NEW a \in 1..n, NEW b \in 1..n, q[a] = q[b] PROVE a = b
  <2>1. p[(n + 1) - a] = p[(n + 1) - b] /\ (n + 1) - a \in 1..n /\ (n + 1) - b \in 1..n
    BY <1>1, <1>4
  <2>2. (n + 1) - a = (n + 1) - b
    BY <2>1 DEF Walk, Simple
  <2> QED BY <2>2
<1>5. q[1] = v /\ q[n] = u
  <2>1. 1 \in 1..n /\ n \in 1..n /\ (n + 1) - 1 = n /\ (n + 1) - n = 1
    OBVIOUS
  <2> QED BY <1>1, <2>1 DEF Walk
<1>6. Walk(q, n, v, u)
  BY <1>2, <1>3, <1>4, <1>5 DEF Walk, Simple
<1>7. Back(q, p, n)
  BY <1>1, <1>2 DEF Back
<1> HIDE DEF q
<1> QED BY <1>6, <1>7

LEMMA CostSymmetric ==
    ASSUME Network, NEW u \in Routers, NEW v \in Routers
    PROVE  Cost(u, v) = Cost(v, u)
<1>1. ASSUME NEW x \in Routers, NEW y \in Routers
      PROVE  Cost(x, y) <= Cost(y, x)
  <2>1. /\ Cost(x, y) \in Nat /\ Cost(x, y) <= Infinity
        /\ Cost(y, x) \in Nat /\ Cost(y, x) <= Infinity
    BY CostParts
  <2>2. CASE Cost(y, x) # Infinity
    <3>0. PICK n \in Nat \ {0} : \E p : Walk(p, n, y, x) /\ Cost(y, x) = WalkCost(p, n)
      BY <2>2, CostParts
    <3>1. PICK p : Walk(p, n, y, x) /\ Cost(y, x) = WalkCost(p, n)
      BY <3>0
    <3>2. PICK q : Walk(q, n, x, y) /\ Back(q, p, n)
      BY <3>1, WalkReversed
    <3>3. Cost(x, y) <= WalkCost(q, n)
      BY <3>2, CostParts
    <3> QED BY <3>1, <3>2, <3>3 DEF Back
  <2> QED BY <2>1, <2>2
<1>2. Cost(u, v) <= Cost(v, u) /\ Cost(v, u) <= Cost(u, v)
  BY <1>1
<1>3. Cost(u, v) \in Nat /\ Cost(v, u) \in Nat
  BY CostParts
<1> QED BY <1>2, <1>3

-----------------------------------------------------------------------------
(* Routes and their last links                                             *)

LEMMA WalkSame ==
    ASSUME NEW p, NEW q, NEW n \in Nat \ {0}, \A k \in 1..n : q[k] = p[k]
    PROVE  /\ Linked(p, n) => Linked(q, n)
           /\ WalkCost(q, n) = WalkCost(p, n)
<1>1. \A k \in 1..(n - 1) : q[k] = p[k] /\ q[k + 1] = p[k + 1]
  <2> TAKE k \in 1..(n - 1)
  <2>1. k \in 1..n /\ k + 1 \in 1..n
    OBVIOUS
  <2> QED BY <2>1
<1>2. [k \in 1..(n - 1) |-> LinkCost(q[k], q[k + 1])]
        = [k \in 1..(n - 1) |-> LinkCost(p[k], p[k + 1])]
  BY <1>1
<1> QED BY <1>1, <1>2 DEF Linked, WalkCost

(* The beginning of a route is a route.                                    *)
LEMMA CutWalk ==
    ASSUME Network, NEW u, NEW v, NEW n \in Nat \ {0}, NEW p, Walk(p, n, u, v), NEW k \in 1..n
    PROVE  \E q : /\ Walk(q, k, u, p[k]) /\ WalkCost(q, k) = WalkCost(p, k)
                  /\ WalkCost(q, k) <= WalkCost(p, n)
<1> DEFINE q == [j \in 1..k |-> p[j]]
<1>1. k \in Nat \ {0} /\ 1 \in 1..k /\ k \in 1..k /\ \A j \in 1..k : j \in 1..n /\ q[j] = p[j]
  OBVIOUS
<1>2. Simple(q, k)
  BY <1>1 DEF Walk, Simple
<1> HIDE DEF q
<1>3. Linked(p, k) /\ WalkCost(p, k) <= WalkCost(p, n)
  BY WalkPrefix DEF Walk
<1>4. Linked(q, k) /\ WalkCost(q, k) = WalkCost(p, k)
  BY <1>1, <1>3, WalkSame
<1>5. Walk(q, k, u, p[k])
  BY <1>1, <1>2, <1>4 DEF Walk
<1> QED BY <1>3, <1>4, <1>5

(* A route and one more link, if this comes to a new node.                 *)
Onward(q, p, n, v, w) ==
    /\ WalkCost(q, n + 1) = WalkCost(p, n) + LinkCost(v, w)
    /\ \A k \in 1..n : q[k] = p[k]

LEMMA ExtendWalk ==
    ASSUME Network, NEW u, NEW v, NEW n \in Nat \ {0}, NEW p, Walk(p, n, u, v),
           NEW w, <<v, w>> \in DOMAIN edge_cost, \A k \in 1..n : p[k] # w
    PROVE  \E q : Walk(q, n + 1, u, w) /\ Onward(q, p, n, v, w)
<1> DEFINE q == [k \in 1..(n + 1) |-> IF k <= n THEN p[k] ELSE w]
<1>1. /\ \A k \in 1..n : q[k] = p[k] /\ k \in 1..(n + 1)
      /\ q[n + 1] = w /\ n + 1 \in Nat \ {0} /\ 1 \in 1..n /\ n \in 1..n
      /\ \A k \in 1..(n + 1) : k \in 1..n \/ k = n + 1
  OBVIOUS
<1>2. w \in Routers
  BY LinkType
<1>3. q \in [1..(n + 1) -> Routers]
  BY <1>2 DEF Walk, Simple
<1> HIDE DEF q
<1>4. ASSUME NEW a \in 1..(n + 1), NEW b \in 1..(n + 1), q[a] = q[b] PROVE a = b
  BY <1>1, <1>4 DEF Walk, Simple
<1>5. Linked(q, n + 1)
  <2> SUFFICES ASSUME NEW k \in 1..((n + 1) - 1)
               PROVE  <<q[k], q[k + 1]>> \in DOMAIN edge_cost
    BY DEF Linked
  <2>1. CASE k = n
    BY <1>1, <2>1 DEF Walk
  <2>2. CASE k # n
    <3>1. k \in 1..(n - 1) /\ k \in 1..n /\ k + 1 \in 1..n
      BY <2>2
    <3> QED BY <1>1, <3>1 DEF Walk, Linked
  <2> QED BY <2>1, <2>2
<1>6. WalkCost(q, n + 1) = WalkCost(p, n) + LinkCost(q[n], q[n + 1])
  <2>1. \A k \in 1..n : q[k] = p[k]
    BY <1>1
  <2> QED BY <1>5, <2>1, WalkStep
<1>7. q[1] = u /\ q[n] = v
  BY <1>1 DEF Walk
<1>8. Walk(q, n + 1, u, w)
  BY <1>1, <1>3, <1>4, <1>5, <1>7 DEF Walk, Simple
<1>9. Onward(q, p, n, v, w)
  BY <1>1, <1>6, <1>7 DEF Onward
<1> QED BY <1>8, <1>9

(* A walk that comes back to one of its nodes may leave out the way back.  *)
LEMMA WalkOver ==
    ASSUME Network, NEW s, NEW u, NEW n \in Nat \ {0}, NEW p, Walk(p, n, s, u),
           NEW v, <<u, v>> \in DOMAIN edge_cost
    PROVE  \E m \in Nat \ {0} : \E q :
              /\ m <= n + 1 /\ Walk(q, m, s, v)
              /\ WalkCost(q, m) <= WalkCost(p, n) + LinkCost(u, v)
<1>1. WalkCost(p, n) \in Nat /\ LinkCost(u, v) \in Nat
  BY WalkCostType, LinkType DEF Walk
<1>2. CASE \E k \in 1..n : p[k] = v
  <2>1. PICK k \in 1..n : p[k] = v
    BY <1>2
  <2>2. PICK q : /\ Walk(q, k, s, p[k]) /\ WalkCost(q, k) = WalkCost(p, k)
                 /\ WalkCost(q, k) <= WalkCost(p, n)
    BY CutWalk
  <2>3. k \in Nat \ {0} /\ k <= n + 1
    OBVIOUS
  <2>4. WalkCost(q, k) \in Nat
    BY <2>2, <2>3, WalkCostType DEF Walk
  <2>5. WalkCost(q, k) <= WalkCost(p, n) + LinkCost(u, v)
    BY <1>1, <2>2, <2>4
  <2> QED BY <2>1, <2>2, <2>3, <2>5
<1>3. CASE \A k \in 1..n : p[k] # v
  <2>1. PICK q : Walk(q, n + 1, s, v) /\ Onward(q, p, n, u, v)
    BY <1>3, ExtendWalk
  <2>2. n + 1 \in Nat \ {0} /\ n + 1 <= n + 1 /\ WalkCost(q, n + 1) <= WalkCost(p, n) + LinkCost(u, v)
    BY <1>1, <2>1 DEF Onward
  <2> QED BY <2>1, <2>2
<1> QED BY <1>2, <1>3

(* The last link of a route.                                               *)
LastStep(q, p, n, u, v) ==
    <<u, v>> \in DOMAIN edge_cost /\ WalkCost(p, n) = WalkCost(q, n - 1) + LinkCost(u, v)

LEMMA LastLink ==
    ASSUME Network, NEW s, NEW v, NEW n \in Nat \ {0}, NEW p, Walk(p, n, s, v), s # v
    PROVE  /\ n - 1 \in Nat \ {0}
           /\ \E u, q : Walk(q, n - 1, s, u) /\ LastStep(q, p, n, u, v)
<1>1. n # 1
  BY DEF Walk
<1>2. PICK m \in Nat \ {0} : m = n - 1 /\ m + 1 = n /\ m \in 1..(n - 1) /\ m \in 1..n
  <2>1. n - 1 \in Nat \ {0}
    BY <1>1
  <2>2. /\ (n - 1) + 1 = n /\ n - 1 \in 1..(n - 1) /\ n - 1 \in 1..n
    BY <2>1
  <2> QED BY <2>1, <2>2
<1>3. PICK q : /\ Walk(q, m, s, p[m]) /\ WalkCost(q, m) = WalkCost(p, m)
               /\ WalkCost(q, m) <= WalkCost(p, n)
  BY <1>2, CutWalk
<1>4. <<p[m], p[m + 1]>> \in DOMAIN edge_cost
  <2>1. Linked(p, n) /\ n \in Int
    BY DEF Walk
  <2> QED BY <1>2, <2>1, LinkOfWalk
<1>5. WalkCost(p, m + 1) = WalkCost(p, m) + LinkCost(p[m], p[m + 1])
  <2>1. Linked(p, m + 1) /\ \A k \in 1..m : p[k] = p[k]
    BY <1>2 DEF Walk
  <2> QED BY <2>1, WalkStep
<1>6. p[m + 1] = v
  BY <1>2 DEF Walk
<1>7. Walk(q, n - 1, s, p[m]) /\ LastStep(q, p, n, p[m], v)
  BY <1>2, <1>3, <1>4, <1>5, <1>6 DEF LastStep
<1>8. n - 1 \in Nat \ {0}
  BY <1>2
<1> QED BY <1>7, <1>8

-----------------------------------------------------------------------------
(* Shortest paths, link by link                                            *)

LEMMA BestTriangle ==
    ASSUME Network, NEW s \in Routers, NEW u, NEW v, <<u, v>> \in DOMAIN edge_cost, NEW m \in Nat
    PROVE  Best(s, v, m + 1) <= Best(s, u, m) + LinkCost(u, v)
<1>1. u \in Routers /\ v \in Routers /\ LinkCost(u, v) \in Nat /\ m + 1 \in Nat
  <2>1. u \in Routers /\ v \in Routers /\ LinkCost(u, v) \in Nat
    BY LinkType
  <2> QED BY <2>1
<1>2. /\ Best(s, u, m) \in Nat /\ Best(s, v, m + 1) \in Nat /\ Best(s, v, m + 1) <= Infinity
  BY <1>1, BestParts
<1>3. CASE Best(s, u, m) = Infinity
  BY <1>1, <1>2, <1>3
<1>4. CASE Best(s, u, m) # Infinity
  <2>0. PICK n \in Nat \ {0} : \E p :
            /\ n <= m + 1 /\ Walk(p, n, s, u) /\ Best(s, u, m) = WalkCost(p, n)
    BY <1>1, <1>4, BestParts
  <2>1. PICK p : /\ n <= m + 1 /\ Walk(p, n, s, u) /\ Best(s, u, m) = WalkCost(p, n)
    BY <2>0
  <2>2a. PICK k \in Nat \ {0} : \E q :
            /\ k <= n + 1 /\ Walk(q, k, s, v)
            /\ WalkCost(q, k) <= WalkCost(p, n) + LinkCost(u, v)
    BY <2>1, WalkOver
  <2>2. PICK q : /\ k <= n + 1 /\ Walk(q, k, s, v)
                 /\ WalkCost(q, k) <= WalkCost(p, n) + LinkCost(u, v)
    BY <2>2a
  <2>3. k <= (m + 1) + 1
    BY <2>1, <2>2
  <2>4. Best(s, v, m + 1) <= WalkCost(q, k)
    BY <1>1, <2>2, <2>3, BestParts
  <2>5. WalkCost(q, k) \in Nat
    BY <2>2, WalkCostType DEF Walk
  <2> QED BY <1>1, <1>2, <2>1, <2>2, <2>4, <2>5
<1> QED BY <1>3, <1>4

LEMMA Triangle ==
    ASSUME Network, NEW s \in Routers, NEW u, NEW v, <<u, v>> \in DOMAIN edge_cost
    PROVE  Cost(s, v) <= Cost(s, u) + LinkCost(u, v)
<1>1. u \in Routers /\ v \in Routers /\ LinkCost(u, v) \in Nat /\ Size \in Nat
  BY LinkType, SizeType
<1>2. Best(s, v, Size + 1) <= Best(s, u, Size) + LinkCost(u, v)
  BY <1>1, BestTriangle
<1>3. Cost(s, v) <= Best(s, v, Size + 1)
  BY <1>1, BestAboveCost
<1>4. Cost(s, v) \in Nat /\ Best(s, v, Size + 1) \in Nat /\ Best(s, u, Size) \in Nat
  <2>1. Size + 1 \in Nat
    BY <1>1
  <2>2. Cost(s, v) \in Nat
    BY <1>1, CostParts
  <2> QED BY <1>1, <2>1, <2>2, BestParts
<1>5. Cost(s, u) = Best(s, u, Size)
  BY CostIsBest
<1> QED BY <1>1, <1>2, <1>3, <1>4, <1>5

(* A best route of up to m + 1 links ends with a link from a best route of *)
(* up to m.                                                                *)
LEMMA BestLastLink ==
    ASSUME Network, NEW s \in Routers, NEW v \in Routers, s # v, NEW m \in Nat,
           Best(s, v, m + 1) # Infinity
    PROVE  \E u : /\ <<u, v>> \in DOMAIN edge_cost
                  /\ Best(s, u, m) + LinkCost(u, v) <= Best(s, v, m + 1)
<1>0. PICK n \in Nat \ {0} : \E p :
          /\ n <= (m + 1) + 1 /\ Walk(p, n, s, v)
          /\ Best(s, v, m + 1) = WalkCost(p, n)
  BY BestParts
<1>1. PICK p : /\ n <= (m + 1) + 1 /\ Walk(p, n, s, v)
               /\ Best(s, v, m + 1) = WalkCost(p, n)
  BY <1>0
<1>2. PICK u, q : Walk(q, n - 1, s, u) /\ LastStep(q, p, n, u, v)
  BY <1>1, LastLink
<1>3. n - 1 \in Nat \ {0} /\ n - 1 <= m + 1
  BY <1>1, LastLink
<1>4. u \in Routers /\ LinkCost(u, v) \in Nat
  BY <1>2, LinkType DEF LastStep
<1>5. Best(s, u, m) <= WalkCost(q, n - 1) /\ Best(s, u, m) \in Nat
  BY <1>2, <1>3, <1>4, BestParts
<1>6. WalkCost(q, n - 1) \in Nat
  BY <1>2, <1>3, WalkCostType DEF Walk
<1>7. Best(s, u, m) + LinkCost(u, v) <= Best(s, v, m + 1)
  BY <1>1, <1>2, <1>4, <1>5, <1>6 DEF LastStep
<1> QED BY <1>2, <1>7 DEF LastStep

(* The node before the last on a shortest path.                            *)
LEMMA Predecessor ==
    ASSUME Network, NEW s \in Routers, NEW v \in Routers, s # v, Cost(s, v) # Infinity
    PROVE  \E u : /\ <<u, v>> \in DOMAIN edge_cost
                  /\ Cost(s, u) + LinkCost(u, v) = Cost(s, v)
<1>0. PICK n \in Nat \ {0} : \E p : Walk(p, n, s, v) /\ Cost(s, v) = WalkCost(p, n)
  BY CostParts
<1>1. PICK p : Walk(p, n, s, v) /\ Cost(s, v) = WalkCost(p, n)
  BY <1>0
<1>2. PICK u, q : Walk(q, n - 1, s, u) /\ LastStep(q, p, n, u, v)
  BY <1>1, LastLink
<1>3. n - 1 \in Nat \ {0}
  BY <1>1, LastLink
<1>4. u \in Routers /\ LinkCost(u, v) \in Nat
  BY <1>2, LinkType DEF LastStep
<1>5. Cost(s, u) <= WalkCost(q, n - 1) /\ Cost(s, u) \in Nat /\ Cost(s, v) \in Nat
  BY <1>2, <1>3, <1>4, CostParts
<1>6. Cost(s, v) <= Cost(s, u) + LinkCost(u, v)
  BY <1>2, Triangle DEF LastStep
<1>7. WalkCost(q, n - 1) \in Nat
  BY <1>2, <1>3, WalkCostType DEF Walk
<1>8. Cost(s, u) + LinkCost(u, v) = Cost(s, v)
  BY <1>1, <1>2, <1>4, <1>5, <1>6, <1>7 DEF LastStep
<1> QED BY <1>2, <1>8 DEF LastStep

(* The most expensive link.                                                *)
LEMMA MaxLink ==
    ASSUME Network, DOMAIN edge_cost # {}
    PROVE  \E c \in Costs : /\ \A e \in DOMAIN edge_cost : edge_cost[e] <= c
                            /\ c \in Nat \ {0} /\ c * Size < Infinity
<1> DEFINE gaps == {Infinity - edge_cost[e] : e \in DOMAIN edge_cost}
<1>1. \E r \in Routers : TRUE
  BY DEF Network
<1>2. Size >= 1 /\ Size \in Nat
  BY <1>1, SizeType, FS_EmptySet DEF Size
<1>3. ASSUME NEW e \in DOMAIN edge_cost
      PROVE  /\ edge_cost[e] \in Nat \ {0} /\ edge_cost[e] * Size < Infinity
             /\ edge_cost[e] <= Infinity
  <2>1. edge_cost[e] \in Nat \ {0} /\ edge_cost[e] * Size < Infinity
    BY TopologyAssumption DEF Network, Size
  <2>2. PICK c \in Nat : c = edge_cost[e]
    BY <2>1
  <2>3. c <= c * Size
    <3>1. PICK k \in Nat : Size = k + 1
      <4>1. Size - 1 \in Nat /\ Size = (Size - 1) + 1
        BY <1>2
      <4> QED BY <4>1
    <3>2. c * (k + 1) = c * k + c * 1
      BY Distribute
    <3>3. c * k \in Nat
      OBVIOUS
    <3> QED BY <3>1, <3>2, <3>3
  <2>4. c * Size \in Int
    BY <1>2
  <2> QED BY <2>1, <2>2, <2>3, <2>4
<1>4. gaps \subseteq Nat /\ gaps # {}
  BY <1>3
<1>5. PICK g \in gaps : \A h \in gaps : g <= h
  <2> HIDE DEF gaps
  <2> QED BY <1>4, LeastNumber
<1>6. PICK e \in DOMAIN edge_cost : g = Infinity - edge_cost[e]
  BY <1>5
<1>7. ASSUME NEW d \in DOMAIN edge_cost PROVE edge_cost[d] <= edge_cost[e]
  <2>1. Infinity - edge_cost[e] <= Infinity - edge_cost[d]
    BY <1>5, <1>6
  <2>2. edge_cost[d] \in Nat /\ edge_cost[e] \in Nat
    BY <1>3
  <2> QED BY <2>1, <2>2
<1>8. edge_cost[e] \in Costs
  BY DEF Network
<1> QED BY <1>3, <1>7, <1>8

(* There is room for the cost of one more link in an int.                  *)
LEMMA CostHasRoom ==
    ASSUME Network, NEW s \in Routers, NEW u, NEW v, <<u, v>> \in DOMAIN edge_cost,
           Cost(s, u) # Infinity
    PROVE  Cost(s, u) + LinkCost(u, v) < Infinity
<1>1. u \in Routers /\ LinkCost(u, v) \in Nat
  BY LinkType
<1>2a. PICK n \in Nat \ {0} : \E p :
          /\ n <= Size /\ Walk(p, n, s, u) /\ Cost(s, u) = WalkCost(p, n)
  BY <1>1, CostParts
<1>2. PICK p : /\ n <= Size /\ Walk(p, n, s, u) /\ Cost(s, u) = WalkCost(p, n)
  BY <1>2a
<1>3. PICK c \in Nat \ {0} : /\ \A e \in DOMAIN edge_cost : edge_cost[e] <= c
                             /\ c * Size < Infinity
  <2>1. DOMAIN edge_cost # {}
    OBVIOUS
  <2> QED BY <2>1, MaxLink
<1>4. WalkCost(p, n) <= c * (n - 1) /\ WalkCost(p, n) \in Nat
  BY <1>2, <1>3, WalkCostBound, WalkCostType DEF Walk
<1>5. LinkCost(u, v) <= c
  BY <1>3 DEF LinkCost
<1>6. PICK a \in Nat, b \in Nat : n - 1 = a /\ Size = (a + 1) + b
  <2>1. n - 1 \in Nat /\ Size - n \in Nat /\ Size = ((n - 1) + 1) + (Size - n)
    BY <1>2, SizeType
  <2> QED BY <2>1
<1>7. c * ((a + 1) + b) = (c * a + c) + c * b /\ c * b \in Nat /\ c * a \in Nat
  <2>1. c * ((a + 1) + b) = c * (a + 1) + c * b /\ c * (a + 1) = c * a + c * 1
    BY Distribute
  <2> QED BY <2>1
<1>8. /\ WalkCost(p, n) <= c * a
      /\ (c * a + c) + c * b < Infinity
  BY <1>3, <1>4, <1>6, <1>7
<1> QED BY <1>1, <1>2, <1>4, <1>5, <1>7, <1>8

(* Routes stay within the nodes, and visit each once at most.              *)
LEMMA BestInNodes ==
    ASSUME Network, NEW s \in nodes, NEW v \in nodes, NEW m \in Nat, m + 1 >= Cardinality(nodes)
    PROVE  Best(s, v, m) = Cost(s, v)
<1>1. s \in Routers /\ v \in Routers /\ IsFiniteSet(nodes) /\ Cardinality(nodes) \in Nat
  BY SizeType, FS_Subset, FS_CardinalityType DEF Network
<1>2. /\ Best(s, v, m) \in Nat /\ Best(s, v, m) <= Infinity
      /\ Cost(s, v) \in Nat /\ Cost(s, v) <= Best(s, v, m)
  BY <1>1, BestParts, CostParts, BestAboveCost
<1>3. CASE Cost(s, v) # Infinity
  <2>0. PICK n \in Nat \ {0} : \E p : Walk(p, n, s, v) /\ Cost(s, v) = WalkCost(p, n)
    BY <1>1, <1>3, CostParts
  <2>1. PICK p : Walk(p, n, s, v) /\ Cost(s, v) = WalkCost(p, n)
    BY <2>0
  <2>2. ASSUME NEW k \in 1..n PROVE p[k] \in nodes
    <3>1. CASE k = 1
      BY <2>1, <3>1 DEF Walk
    <3>2. CASE k # 1
      <4>1. k - 1 \in 1..(n - 1) /\ (k - 1) + 1 = k
        BY <3>2
      <4>2. <<p[k - 1], p[(k - 1) + 1]>> \in DOMAIN edge_cost
        BY <2>1, <4>1 DEF Walk, Linked
      <4> QED BY <4>1, <4>2, LinkType
    <3> QED BY <3>1, <3>2
  <2>3. p \in [1..n -> nodes] /\ \A a, b \in 1..n : p[a] = p[b] => a = b
    BY <2>1, <2>2 DEF Walk, Simple
  <2>4. n <= Cardinality(nodes)
    BY <1>1, <2>3, SimpleLength
  <2>5. n <= m + 1
    BY <1>1, <2>4
  <2>6. Best(s, v, m) <= WalkCost(p, n)
    BY <1>1, <2>1, <2>5, BestParts
  <2> QED BY <1>2, <2>1, <2>6
<1>4. CASE Cost(s, v) = Infinity
  BY <1>2, <1>4
<1> QED BY <1>3, <1>4

(* A node is at no distance from itself, over any number of links, and     *)
(* nothing else is over none.                                              *)
LEMMA BestOfItself ==
    ASSUME Network, NEW s \in Routers, NEW m \in Nat
    PROVE  /\ Best(s, s, m) = 0
           /\ \A v \in Routers : v # s => Best(s, v, 0) = Infinity
<1> DEFINE p == [k \in 1..1 |-> s]
<1>1. Walk(p, 1, s, s)
  <2>1. Simple(p, 1)
    BY DEF Simple
  <2>2. Linked(p, 1)
    BY DEF Linked
  <2> QED BY <2>1, <2>2 DEF Walk
<1>2. WalkCost(p, 1) = 0
  BY WalkCostOne
<1> HIDE DEF p
<1>3. 1 <= m + 1 /\ 1 \in Nat \ {0}
  OBVIOUS
<1>4. Best(s, s, m) <= 0 /\ Best(s, s, m) \in Nat
  BY <1>1, <1>2, <1>3, BestParts
<1>5. ASSUME NEW v \in Routers, v # s, Best(s, v, 0) # Infinity PROVE FALSE
  <2>0. PICK n \in Nat \ {0} : \E q : n <= 0 + 1 /\ Walk(q, n, s, v)
    <3>1. 0 \in Nat
      OBVIOUS
    <3> QED BY <1>5, <3>1, BestParts
  <2>1. PICK q : n <= 0 + 1 /\ Walk(q, n, s, v)
    BY <2>0
  <2>2. n = 1
    BY <2>1
  <2> QED BY <1>5, <2>1, <2>2 DEF Walk
<1> QED BY <1>4, <1>5

=============================================================================
