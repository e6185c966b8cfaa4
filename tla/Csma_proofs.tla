---------------------------- MODULE Csma_proofs -----------------------------
(* Safety of the CSMA simulation for every number of stations, packet      *)
(* length, list of backoff ranges and number of slots.                     *)
EXTENDS Csma, Sums_proofs

(* What the constants that count are.                                      *)
LEMMA Counts == L \in Nat \ {0} /\ M \in Nat \ {0} /\ T \in Nat /\ None \notin Nodes
BY CsmaAssumption

USE Counts

(* The index of a backoff range of M or more entries.                      *)
LEMMA RangeOfIndex ==
    ASSUME NEW idx \in 0..(M - 1)
    PROVE  /\ R[idx + 1] \in Nat
           /\ Range0(idx) \subseteq Nat /\ 0 \in Range0(idx)
<1>1. idx + 1 \in 1..Len(R)
  BY CsmaAssumption
<1>2. R[idx + 1] \in Nat
  BY <1>1, CsmaAssumption
<1> QED BY <1>2 DEF Range0

(* A remainder of what is below the divisor.                               *)
LEMMA SmallRemainder ==
    ASSUME NEW a \in Nat, a < M
    PROVE  a % M = a
BY SMT

LEMMA OneReady ==
    ASSUME NEW n \in Nodes, nodeReady = {n}
    PROVE  Cardinality(nodeReady) = 1
BY FS_Singleton

-----------------------------------------------------------------------------
(* The inductive invariant: the properties, and what the second half of a  *)
(* pass may rely on after the first.                                       *)

PassInv ==
    phase = "channel" =>
        /\ slot < T
        /\ channelBusy => pkt_bits_sent < L

IInv ==
    /\ TypeOK
    /\ PassInv
    /\ SlotsAccounted
    /\ OneSender
    /\ RangeFollowsCollisions
    /\ BackoffInRange
    /\ AttemptsAccounted

LEMMA InitIInv == Init => IInv
<1> SUFFICES ASSUME Init PROVE IInv
  OBVIOUS
<1> USE DEF Init, Zero
<1>1. 0 \in 0..(M - 1) /\ 0 \in 0..L /\ 0 \in 0..T
  OBVIOUS
<1>2. backoffs \in [Nodes -> Nat]
  BY <1>1, RangeOfIndex
<1>3. TypeOK
  BY <1>1, <1>2 DEF TypeOK
<1>4. SlotsAccounted /\ OneSender /\ RangeFollowsCollisions /\ PassInv
  BY DEF SlotsAccounted, OneSender, RangeFollowsCollisions, PassInv
<1>5. BackoffInRange /\ AttemptsAccounted
  BY DEF BackoffInRange, AttemptsAccounted
<1> QED BY <1>3, <1>4, <1>5 DEF IInv

LEMMA CompleteStep ==
    ASSUME IInv, Complete
    PROVE  IInv'
<1> USE DEF IInv, TypeOK, Complete, Sent, FreeChannel, slotCounts
<1>1. channelBusy /\ node_sending \in Nodes
  BY DEF OneSender
<1>2. PICK b \in Range0(0) : backoffs' = [backoffs EXCEPT ![node_sending] = b]
  OBVIOUS
<1>3. 0 \in 0..(M - 1) /\ b \in Nat
  BY <1>2, RangeOfIndex
<1>4. TypeOK'
  <2>1. /\ backoffs' \in [Nodes -> Nat]
        /\ nodes_r_idx' \in [Nodes -> 0..(M - 1)]
        /\ collision_counts' \in [Nodes -> 0..(M - 1)]
        /\ good_transmissions' \in [Nodes -> Nat]
    BY <1>1, <1>2, <1>3
  <2>2. phase' = "channel" /\ channelBusy' = FALSE /\ pkt_bits_sent' = 0 /\ 0 \in 0..L
    OBVIOUS
  <2>3. node_sending' \in Nodes \cup {None}
    OBVIOUS
  <2>4. /\ slot' \in 0..T
        /\ utilized' \in Nat /\ idle' \in Nat /\ total_collisions' \in Nat
        /\ total_transmissions' \in [Nodes -> Nat]
        /\ collisions_per_node' \in [Nodes -> Nat]
    OBVIOUS
  <2> HIDE DEF Complete, IInv
  <2> QED BY <2>1, <2>2, <2>3, <2>4
<1>5. SlotsAccounted' /\ OneSender' /\ PassInv'
  BY DEF SlotsAccounted, OneSender, PassInv
<1>6. RangeFollowsCollisions'
  BY DEF RangeFollowsCollisions
<1>7. BackoffInRange'
  BY <1>1, <1>2 DEF BackoffInRange, Range0
<1>8. AttemptsAccounted'
  <2> SUFFICES ASSUME NEW n \in Nodes
               PROVE  total_transmissions'[n] = good_transmissions'[n]
    BY DEF AttemptsAccounted
  <2> QED BY <1>1 DEF AttemptsAccounted
<1> QED BY <1>4, <1>5, <1>6, <1>7, <1>8

LEMMA CollisionStep ==
    ASSUME IInv, Collision
    PROVE  IInv'
<1> USE DEF IInv, TypeOK, Collision, EndSlot, channel
<1>1. PICK b \in [nodeReady -> UNION {DrawRange(n) : n \in nodeReady}] :
        /\ \A n \in nodeReady : b[n] \in DrawRange(n)
        /\ backoffs' = [n \in Nodes |-> IF n \in nodeReady THEN b[n] ELSE backoffs[n]]
  OBVIOUS
<1>2. ASSUME NEW n \in Nodes
      PROVE  nextIdx(n) \in 0..(M - 1) /\ nextCount(n) = nextIdx(n)
  <2>1. nodes_r_idx[n] = collision_counts[n] /\ nodes_r_idx[n] \in 0..(M - 1)
    BY DEF RangeFollowsCollisions
  <2>2. CASE collision_counts[n] + 1 >= M
    BY <2>1, <2>2 DEF nextIdx, nextCount
  <2>3. CASE collision_counts[n] + 1 < M
    <3>1. (nodes_r_idx[n] + 1) % M = nodes_r_idx[n] + 1
      BY <2>1, <2>3, SmallRemainder
    <3> QED BY <2>1, <2>3, <3>1 DEF nextIdx, nextCount
  <2> QED BY <2>1, <2>2, <2>3
<1>3. \A n \in nodeReady : b[n] \in Range0(nextIdx(n)) /\ b[n] \in Nat
  BY <1>1, <1>2, RangeOfIndex DEF DrawRange, nodeReady
<1>4. nodeReady \subseteq Nodes
  BY DEF nodeReady
<1>5. TypeOK'
  <2>1. backoffs' \in [Nodes -> Nat]
    BY <1>1, <1>3
  <2>2. nodes_r_idx' \in [Nodes -> 0..(M - 1)]
    BY <1>2
  <2>3. collision_counts' \in [Nodes -> 0..(M - 1)]
    BY <1>2
  <2>4. collisions_per_node' \in [Nodes -> Nat]
    OBVIOUS
  <2>5. slot' \in 0..T
    BY DEF PassInv
  <2> QED BY <2>1, <2>2, <2>3, <2>4, <2>5
<1>6. SlotsAccounted' /\ PassInv'
  BY DEF SlotsAccounted, PassInv
<1>7. OneSender'
  BY DEF OneSender
<1>8. RangeFollowsCollisions'
  <2>1. ASSUME NEW n \in Nodes PROVE nodes_r_idx'[n] = collision_counts'[n]
    BY <1>2 DEF RangeFollowsCollisions
  <2>2. nodes_r_idx' \in [Nodes -> 0..(M - 1)] /\ collision_counts' \in [Nodes -> 0..(M - 1)]
    BY <1>5
  <2> QED BY <2>1, <2>2 DEF RangeFollowsCollisions
<1>9. BackoffInRange'
  <2> SUFFICES ASSUME NEW n \in Nodes
               PROVE  backoffs'[n] \in Range0(nodes_r_idx'[n])
    BY DEF BackoffInRange, Range0
  <2>1. CASE n \in nodeReady
    <3>1. backoffs'[n] = b[n] /\ nodes_r_idx'[n] = nextIdx(n)
      BY <2>1, <1>1
    <3> QED BY <2>1, <3>1, <1>3
  <2>2. CASE n \notin nodeReady
    <3>1. backoffs'[n] = backoffs[n] /\ nodes_r_idx'[n] = nodes_r_idx[n]
      BY <2>2, <1>1
    <3> QED BY <3>1 DEF BackoffInRange
  <2> QED BY <2>1, <2>2
<1>10. AttemptsAccounted'
  BY DEF AttemptsAccounted
<1> QED BY <1>5, <1>6, <1>7, <1>8, <1>9, <1>10

LEMMA IdleStep ==
    ASSUME IInv, IdleSlot
    PROVE  IInv'
<1> USE DEF IInv, TypeOK, IdleSlot, EndSlot, channel, nodeCounts
<1>1. \A n \in Nodes : backoffs[n] \in Nat \ {0}
  BY DEF nodeReady
<1>2. TypeOK'
  <2>1. backoffs' \in [Nodes -> Nat]
    BY <1>1
  <2>2. slot' \in 0..T
    BY DEF PassInv
  <2> QED BY <2>1, <2>2
<1>3. SlotsAccounted' /\ PassInv' /\ OneSender' /\ RangeFollowsCollisions'
  BY DEF SlotsAccounted, PassInv, OneSender, RangeFollowsCollisions
<1>4. BackoffInRange'
  <2> SUFFICES ASSUME NEW n \in Nodes
               PROVE  backoffs'[n] \in Range0(nodes_r_idx'[n])
    BY DEF BackoffInRange, Range0
  <2>1. backoffs'[n] = backoffs[n] - 1 /\ nodes_r_idx'[n] = nodes_r_idx[n]
    OBVIOUS
  <2>2. backoffs[n] \in Range0(nodes_r_idx[n]) /\ R[nodes_r_idx[n] + 1] \in Nat
    BY RangeOfIndex DEF BackoffInRange
  <2> QED BY <1>1, <2>1, <2>2 DEF Range0
<1>5. AttemptsAccounted'
  BY DEF AttemptsAccounted
<1> QED BY <1>2, <1>3, <1>4, <1>5

LEMMA OtherSteps ==
    ASSUME IInv, NotComplete \/ BusySlot \/ StartTransmission \/ Report
    PROVE  IInv'
<1> USE DEF IInv, TypeOK, EndSlot, contention, channel, slotCounts, nodeCounts
<1>1. CASE NotComplete
  BY <1>1 DEF NotComplete, Sent, PassInv, SlotsAccounted, OneSender, nodeReady,
              RangeFollowsCollisions, BackoffInRange, Range0, AttemptsAccounted
<1>2. CASE BusySlot
  BY <1>2 DEF BusySlot, PassInv, SlotsAccounted, OneSender, nodeReady,
              RangeFollowsCollisions, BackoffInRange, Range0, AttemptsAccounted
<1>3. CASE StartTransmission
  <2>1. PICK n \in Nodes :
          /\ nodeReady = {n}
          /\ node_sending' = n
          /\ total_transmissions' = [total_transmissions EXCEPT ![n] = @ + 1]
    BY <1>3 DEF StartTransmission
  <2>2. total_transmissions' \in [Nodes -> Nat]
    BY <2>1
  <2>3. TypeOK'
    BY <1>3, <2>1, <2>2 DEF StartTransmission, PassInv
  <2>4. OneSender'
    BY <1>3, <2>1 DEF StartTransmission, OneSender, nodeReady
  <2>5. (PassInv /\ SlotsAccounted /\ RangeFollowsCollisions /\ BackoffInRange)'
    BY <1>3 DEF StartTransmission, PassInv, SlotsAccounted,
                RangeFollowsCollisions, BackoffInRange, Range0
  <2>6. AttemptsAccounted'
    <3> SUFFICES ASSUME NEW k \in Nodes
                 PROVE  total_transmissions'[k] =
                            good_transmissions'[k] + (IF k = n THEN 1 ELSE 0)
      BY <2>1 DEF AttemptsAccounted
    <3>1. good_transmissions' = good_transmissions /\ node_sending = None
      BY <1>3 DEF StartTransmission, OneSender
    <3> QED BY <2>1, <3>1 DEF AttemptsAccounted
  <2> QED BY <2>3, <2>4, <2>5, <2>6
<1>4. CASE Report
  BY <1>4 DEF Report, PassInv, SlotsAccounted, OneSender, nodeReady,
              RangeFollowsCollisions, BackoffInRange, Range0, AttemptsAccounted
<1> QED BY <1>1, <1>2, <1>3, <1>4

LEMMA Invariance == Spec => []IInv
<1>1. Init => IInv
  BY InitIInv
<1>2. IInv /\ [Next]_vars => IInv'
  <2> SUFFICES ASSUME IInv, [Next]_vars PROVE IInv'
    OBVIOUS
  <2>1. CASE Next
    BY <2>1, CompleteStep, CollisionStep, IdleStep, OtherSteps DEF Next
  <2>2. CASE UNCHANGED vars
    BY <2>2 DEF vars, contention, channel, slotCounts, nodeCounts, IInv, TypeOK,
       PassInv, SlotsAccounted, OneSender, nodeReady, RangeFollowsCollisions,
       BackoffInRange, Range0, AttemptsAccounted
  <2> QED BY <2>1, <2>2
<1> QED BY <1>1, <1>2, PTL DEF Spec

-----------------------------------------------------------------------------
(* The theorems                                                            *)

(* Every variable of the simulation keeps its type; no backoff gets below  *)
(* zero.                                                                   *)
THEOREM TypeCorrect == Spec => []TypeOK
<1>1. IInv => TypeOK
  BY DEF IInv
<1> QED BY <1>1, Invariance, PTL

(* Every slot is one of utilized, idle and collision.                      *)
THEOREM SlotsAreAccounted == Spec => []SlotsAccounted
<1>1. IInv => SlotsAccounted
  BY DEF IInv
<1> QED BY <1>1, Invariance, PTL

(* The station that sends is the only one that is ready.                   *)
THEOREM OnlyOneSends == Spec => []OneSender
<1>1. IInv => OneSender
  BY DEF IInv
<1> QED BY <1>1, Invariance, PTL

(* The two resets agree: the range index is the collision count.           *)
THEOREM IndexIsCount == Spec => []RangeFollowsCollisions
<1>1. IInv => RangeFollowsCollisions
  BY DEF IInv
<1> QED BY <1>1, Invariance, PTL

(* Backoffs stay in the range of their station's collision count.          *)
THEOREM BackoffsInRange == Spec => []BackoffInRange
<1>1. IInv => BackoffInRange
  BY DEF IInv
<1> QED BY <1>1, Invariance, PTL

(* No attempt is lost or counted twice.                                    *)
THEOREM AttemptsAreAccounted == Spec => []AttemptsAccounted
<1>1. IInv => AttemptsAccounted
  BY DEF IInv
<1> QED BY <1>1, Invariance, PTL

-----------------------------------------------------------------------------
(* The statistics: sums over the stations                                  *)

LEMMA SumOverNodes ==
    ASSUME NEW vec, DOMAIN vec = Nodes, \A n \in Nodes : vec[n] \in Int
    PROVE  /\ SumFunction(vec) = SumFunctionOnSet(vec, Nodes)
           /\ SumFunction(vec) \in Int
<1>1. SumFunction(vec) = SumFunctionOnSet(vec, Nodes)
  BY DEF SumFunction
<1>2. SumFunctionOnSet(vec, Nodes) \in Int
  BY CsmaAssumption, SumType
<1> QED BY <1>1, <1>2

LEMMA NodesCounted == IsFiniteSet(Nodes) /\ Cardinality(Nodes) \in Nat
BY CsmaAssumption, FS_CardinalityType

LEMMA PairSquare ==
    ASSUME NEW a \in Int, NEW b \in Int
    PROVE  (a - b) * (a - b) = a * a + (((-2) * a) * b + b * b)
OBVIOUS

(* The squares of the differences from one value to all.                   *)
LEMMA SpreadOfRow ==
    ASSUME NEW vec, \A n \in Nodes : vec[n] \in Int, NEW a \in Int
    PROVE  SumFunctionOnSet([n \in Nodes |-> (a - vec[n]) * (a - vec[n])], Nodes)
             = (a * a) * Cardinality(Nodes)
               + (((-2) * a) * SumFunctionOnSet(vec, Nodes)
                  + SumFunctionOnSet([n \in Nodes |-> vec[n] * vec[n]], Nodes))
<1> DEFINE square == [n \in Nodes |-> vec[n] * vec[n]]
           const == [n \in Nodes |-> a * a]
           cross == [n \in Nodes |-> ((-2) * a) * vec[n]]
           rest == [n \in Nodes |-> ((-2) * a) * vec[n] + vec[n] * vec[n]]
           row == [n \in Nodes |-> (a - vec[n]) * (a - vec[n])]
<1>1. \A n \in Nodes : /\ square[n] \in Int /\ square[n] = vec[n] * vec[n]
                       /\ const[n] \in Int /\ const[n] = a * a
                       /\ cross[n] \in Int /\ cross[n] = ((-2) * a) * vec[n]
                       /\ rest[n] \in Int /\ rest[n] = cross[n] + square[n]
  OBVIOUS
<1>2. \A n \in Nodes : row[n] = const[n] + rest[n]
  BY PairSquare
<1>3. (-2) * a \in Int /\ a * a \in Int
  OBVIOUS
<1> HIDE DEF square, const, cross, rest, row
<1>4. SumFunctionOnSet(row, Nodes)
        = SumFunctionOnSet(const, Nodes) + SumFunctionOnSet(rest, Nodes)
  BY <1>1, <1>2, NodesCounted, SumPlus
<1>5. SumFunctionOnSet(rest, Nodes)
        = SumFunctionOnSet(cross, Nodes) + SumFunctionOnSet(square, Nodes)
  BY <1>1, NodesCounted, SumPlus
<1>6. SumFunctionOnSet(cross, Nodes) = ((-2) * a) * SumFunctionOnSet(vec, Nodes)
  BY <1>1, <1>3, NodesCounted, SumTimes
<1>7. SumFunctionOnSet(const, Nodes) = (a * a) * Cardinality(Nodes)
  BY <1>1, <1>3, NodesCounted, SumConstant
<1>8. SumFunctionOnSet(row, Nodes)
        = (a * a) * Cardinality(Nodes)
          + (((-2) * a) * SumFunctionOnSet(vec, Nodes) + SumFunctionOnSet(square, Nodes))
  BY <1>4, <1>5, <1>6, <1>7
<1> QED BY <1>8 DEF row, square

(* The sum of the squares of all values.                                   *)
SumOfSquares(vec) == SumFunctionOnSet([n \in Nodes |-> vec[n] * vec[n]], Nodes)

LEMMA SumOfSquaresType ==
    ASSUME NEW vec, \A n \in Nodes : vec[n] \in Int
    PROVE  SumOfSquares(vec) \in Int /\ SumFunctionOnSet(vec, Nodes) \in Int
<1>1. \A n \in Nodes : [k \in Nodes |-> vec[k] * vec[k]][n] \in Int
  OBVIOUS
<1> QED BY <1>1, NodesCounted, SumType DEF SumOfSquares

LEMMA SpreadOfPairs ==
    ASSUME NEW vec, \A n \in Nodes : vec[n] \in Int
    PROVE  SumFunction([p \in Nodes \X Nodes |-> (vec[p[1]] - vec[p[2]]) * (vec[p[1]] - vec[p[2]])])
             = Cardinality(Nodes) * SumOfSquares(vec)
               + (((-2) * SumFunctionOnSet(vec, Nodes)) * SumFunctionOnSet(vec, Nodes)
                  + SumOfSquares(vec) * Cardinality(Nodes))
<1> DEFINE f == [p \in Nodes \X Nodes |-> (vec[p[1]] - vec[p[2]]) * (vec[p[1]] - vec[p[2]])]
           row == [a \in Nodes |-> [b \in Nodes |-> (vec[a] - vec[b]) * (vec[a] - vec[b])]]
           rows == [a \in Nodes |-> SumFunctionOnSet(row[a], Nodes)]
           square == [n \in Nodes |-> vec[n] * vec[n]]
<1>1. PICK K \in Int, Q \in Int, S \in Int :
        /\ K = Cardinality(Nodes) /\ Q = SumOfSquares(vec) /\ S = SumFunctionOnSet(vec, Nodes)
  BY NodesCounted, SumOfSquaresType
<1>2. \A a, b \in Nodes : f[<<a, b>>] \in Int
                          /\ f[<<a, b>>] = (vec[a] - vec[b]) * (vec[a] - vec[b])
  OBVIOUS
<1>3. SumFunction(f) = SumFunctionOnSet(f, Nodes \X Nodes)
  BY DEF SumFunction
<1>4. SumFunctionOnSet(f, Nodes \X Nodes) = SumFunctionOnSet(rows, Nodes)
  <2>1. \A a \in Nodes : rows[a] = SumFunctionOnSet(row[a], Nodes)
    OBVIOUS
  <2>2. \A a \in Nodes : \A b \in Nodes : f[<<a, b>>] \in Int /\ row[a][b] = f[<<a, b>>]
    BY <1>2
  <2> HIDE DEF f, row, rows
  <2> QED BY <2>1, <2>2, NodesCounted, SumOfRows
<1>5. ASSUME NEW a \in Nodes
      PROVE  rows[a] = (vec[a] * vec[a]) * K + (((-2) * vec[a]) * S + Q)
  <2>1. row[a] = [n \in Nodes |-> (vec[a] - vec[n]) * (vec[a] - vec[n])]
    OBVIOUS
  <2>2. rows[a] = SumFunctionOnSet([n \in Nodes |-> (vec[a] - vec[n]) * (vec[a] - vec[n])], Nodes)
    BY <2>1
  <2> HIDE DEF f, row, rows
  <2> QED BY <1>1, <2>2, SpreadOfRow DEF SumOfSquares
<1> DEFINE scaled == [n \in Nodes |-> K * square[n]]
           cross == [n \in Nodes |-> ((-2) * S) * vec[n]]
           const == [n \in Nodes |-> Q]
           rest == [n \in Nodes |-> cross[n] + const[n]]
<1>6. \A n \in Nodes : /\ square[n] \in Int /\ square[n] = vec[n] * vec[n]
                       /\ scaled[n] \in Int /\ scaled[n] = K * square[n]
                       /\ cross[n] \in Int /\ cross[n] = ((-2) * S) * vec[n]
                       /\ const[n] \in Int /\ const[n] = Q
                       /\ rest[n] \in Int /\ rest[n] = cross[n] + const[n]
  OBVIOUS
<1>7. SumFunctionOnSet(square, Nodes) = Q
  BY <1>1 DEF SumOfSquares
<1> HIDE DEF f, row, rows, square, scaled, cross, const, rest
<1>8. \A n \in Nodes : rows[n] = scaled[n] + rest[n]
  <2> TAKE n \in Nodes
  <2>1. rows[n] = (vec[n] * vec[n]) * K + (((-2) * vec[n]) * S + Q)
    BY <1>5
  <2>2. scaled[n] = K * (vec[n] * vec[n]) /\ rest[n] = ((-2) * S) * vec[n] + Q
    BY <1>6
  <2> QED BY <1>1, <2>1, <2>2
<1>9. PICK c \in Int : c = (-2) * S
  BY <1>1
<1>10. /\ SumFunctionOnSet(rows, Nodes)
             = SumFunctionOnSet(scaled, Nodes) + SumFunctionOnSet(rest, Nodes)
       /\ SumFunctionOnSet(rest, Nodes)
             = SumFunctionOnSet(cross, Nodes) + SumFunctionOnSet(const, Nodes)
  BY <1>6, <1>8, NodesCounted, SumPlus
<1>11. SumFunctionOnSet(scaled, Nodes) = K * Q
  BY <1>1, <1>6, <1>7, NodesCounted, SumTimes
<1>12. SumFunctionOnSet(cross, Nodes) = ((-2) * S) * S
  <2>1. \A n \in Nodes : vec[n] \in Int /\ cross[n] = c * vec[n]
    BY <1>6, <1>9
  <2>2. SumFunctionOnSet(cross, Nodes) = c * SumFunctionOnSet(vec, Nodes)
    BY <2>1, NodesCounted, SumTimes
  <2> QED BY <1>1, <1>9, <2>2
<1>13. SumFunctionOnSet(const, Nodes) = Q * K
  BY <1>1, <1>6, NodesCounted, SumConstant
<1>14. SumFunction(f) = K * Q + (((-2) * S) * S + Q * K)
  BY <1>3, <1>4, <1>10, <1>11, <1>12, <1>13
<1> QED BY <1>1, <1>14 DEF f

LEMMA VarianceBySquares ==
    ASSUME NEW vec \in [Nodes -> Int]
    PROVE  calcVariance(vec)
             = (SumFunctionOnSet(vec, Nodes) * SumFunctionOnSet(vec, Nodes)) * Cardinality(Nodes)
               + (((-2) * SumFunctionOnSet(vec, Nodes))
                     * (Cardinality(Nodes) * SumFunctionOnSet(vec, Nodes))
                  + (Cardinality(Nodes) * Cardinality(Nodes)) * SumOfSquares(vec))
<1>1. PICK K \in Int, Q \in Int, S \in Int :
        /\ K = Cardinality(Nodes) /\ Q = SumOfSquares(vec) /\ S = SumFunctionOnSet(vec, Nodes)
  BY NodesCounted, SumOfSquaresType
<1> DEFINE scaled == [n \in Nodes |-> K * vec[n]]
           square == [n \in Nodes |-> vec[n] * vec[n]]
           scaledSquare == [n \in Nodes |-> scaled[n] * scaled[n]]
           row == [n \in Nodes |-> (S - scaled[n]) * (S - scaled[n])]
           deviation == [n \in Nodes |-> (K * vec[n] - S) * (K * vec[n] - S)]
<1>2. calcVariance(vec) = SumFunction(deviation)
  BY <1>1, SumOverNodes DEF calcVariance
<1>3. deviation = row
  <2>1. ASSUME NEW n \in Nodes PROVE deviation[n] = row[n]
    <3>1. K * vec[n] \in Int
      BY <1>1
    <3>2. (K * vec[n] - S) * (K * vec[n] - S) = (S - K * vec[n]) * (S - K * vec[n])
      BY <1>1, <3>1
    <3> QED BY <3>2
  <2> QED BY <2>1
<1>4. \A n \in Nodes : /\ vec[n] \in Int
                       /\ scaled[n] \in Int /\ scaled[n] = K * vec[n]
                       /\ square[n] \in Int /\ square[n] = vec[n] * vec[n]
                       /\ scaledSquare[n] = scaled[n] * scaled[n]
                       /\ row[n] \in Int
  BY <1>1
<1>5. DOMAIN row = Nodes
  OBVIOUS
<1>6. SumFunction(row) = (S * S) * Cardinality(Nodes)
                         + (((-2) * S) * SumFunctionOnSet(scaled, Nodes)
                            + SumFunctionOnSet(scaledSquare, Nodes))
  <2>1. SumFunction(row) = SumFunctionOnSet(row, Nodes)
    <3> HIDE DEF row
    <3> QED BY <1>4, <1>5, SumOverNodes
  <2>2. \A n \in Nodes : scaled[n] \in Int
    BY <1>4
  <2> HIDE DEF scaled
  <2> QED BY <1>1, <2>1, <2>2, SpreadOfRow
<1>7. SumFunctionOnSet(square, Nodes) = Q
  BY <1>1 DEF SumOfSquares
<1> HIDE DEF scaled, square, scaledSquare, row, deviation
<1>8. SumFunctionOnSet(scaled, Nodes) = K * S
  BY <1>1, <1>4, NodesCounted, SumTimes
<1>9. SumFunctionOnSet(scaledSquare, Nodes) = (K * K) * Q
  <2>1. \A n \in Nodes : scaledSquare[n] = (K * K) * square[n]
    <3> TAKE n \in Nodes
    <3>1. scaledSquare[n] = (K * vec[n]) * (K * vec[n]) /\ square[n] = vec[n] * vec[n] /\ vec[n] \in Int
      BY <1>4
    <3> QED BY <1>1, <3>1
  <2>2. PICK c \in Int : c = K * K
    BY <1>1
  <2>3. \A n \in Nodes : square[n] \in Int /\ scaledSquare[n] = c * square[n]
    BY <1>4, <2>1, <2>2
  <2>4. SumFunctionOnSet(scaledSquare, Nodes) = c * SumFunctionOnSet(square, Nodes)
    BY <2>3, NodesCounted, SumTimes
  <2> QED BY <1>7, <2>2, <2>4
<1>10. calcVariance(vec) = (S * S) * K + (((-2) * S) * (K * S) + (K * K) * Q)
  BY <1>1, <1>2, <1>3, <1>6, <1>8, <1>9
<1> QED BY <1>1, <1>10

(* The two formulas of a variance.                                         *)
LEMMA VarianceBySpread ==
    ASSUME NEW vec \in [Nodes -> Nat]
    PROVE  2 * calcVariance(vec) = Cardinality(Nodes) *
             SumFunction([p \in Nodes \X Nodes |-> (vec[p[1]] - vec[p[2]]) * (vec[p[1]] - vec[p[2]])])
<1>1. vec \in [Nodes -> Int] /\ \A n \in Nodes : vec[n] \in Int
  OBVIOUS
<1>2. PICK K \in Int, Q \in Int, S \in Int :
        /\ K = Cardinality(Nodes) /\ Q = SumOfSquares(vec) /\ S = SumFunctionOnSet(vec, Nodes)
  BY <1>1, NodesCounted, SumOfSquaresType
<1>3. calcVariance(vec) = (S * S) * K + (((-2) * S) * (K * S) + (K * K) * Q)
  BY <1>1, <1>2, VarianceBySquares
<1>4. SumFunction([p \in Nodes \X Nodes |-> (vec[p[1]] - vec[p[2]]) * (vec[p[1]] - vec[p[2]])])
        = K * Q + (((-2) * S) * S + Q * K)
  BY <1>1, <1>2, SpreadOfPairs
<1>5. 2 * ((S * S) * K + (((-2) * S) * (K * S) + (K * K) * Q))
        = K * (K * Q + (((-2) * S) * S + Q * K))
  BY <1>2
<1> QED BY <1>2, <1>3, <1>4, <1>5

-----------------------------------------------------------------------------
(* The invariant of the statistics, on top of the other one: the sums, and *)
(* that nothing moves any more once the report is written.                 *)

ReportInv ==
    report # None =>
        /\ phase = "complete" /\ slot = T
        /\ report = [utilized |-> utilized, idle |-> idle,
                     collisions |-> total_collisions,
                     successful_variance |-> calcVariance(good_transmissions),
                     collision_variance |-> calcVariance(collisions_per_node)]

StatInv == UtilizedByTransmissions /\ CollisionsShared /\ ReportInv

(* The number of ready stations in a collision.                            *)
LEMMA ReadyCounted ==
    /\ IsFiniteSet(nodeReady) /\ Cardinality(nodeReady) \in Nat
    /\ Cardinality(nodeReady) <= Cardinality(Nodes)
<1>1. nodeReady \in SUBSET Nodes
  BY DEF nodeReady
<1> QED BY <1>1, NodesCounted, FS_Subset, FS_CardinalityType

LEMMA SharesType ==
    ASSUME TypeOK
    PROVE  /\ SumFunction(good_transmissions) = SumFunctionOnSet(good_transmissions, Nodes)
           /\ SumFunction(good_transmissions) \in Int
           /\ SumFunction(collisions_per_node) = SumFunctionOnSet(collisions_per_node, Nodes)
           /\ SumFunction(collisions_per_node) \in Int
BY SumOverNodes DEF TypeOK

LEMMA InitStat == Init => StatInv
<1> SUFFICES ASSUME Init PROVE StatInv
  OBVIOUS
<1>1. SumFunction(Zero) = 0
  <2>1. DOMAIN Zero = Nodes /\ \A n \in Nodes : Zero[n] \in Int /\ Zero[n] = 0
    BY DEF Zero
  <2>2. SumFunctionOnSet(Zero, Nodes) = 0 * Cardinality(Nodes)
    BY <2>1, NodesCounted, SumConstant
  <2> QED BY <2>1, <2>2, NodesCounted, SumOverNodes
<1>2. UtilizedByTransmissions
  BY <1>1 DEF Init, UtilizedByTransmissions
<1>3. CollisionsShared
  BY <1>1, NodesCounted DEF Init, CollisionsShared
<1> QED BY <1>2, <1>3 DEF Init, StatInv, ReportInv

LEMMA CompleteStat ==
    ASSUME IInv, IInv', StatInv, Complete
    PROVE  StatInv'
<1> USE DEF StatInv
<1>1. channelBusy /\ node_sending \in Nodes /\ pkt_bits_sent = L /\ ~channelBusy'
  BY DEF IInv, OneSender, Complete, FreeChannel, Sent
<1>2. PICK S \in Int, after \in Int : S = SumFunction(good_transmissions)
                                      /\ after = SumFunction(good_transmissions')
  <2>1. good_transmissions' \in [Nodes -> Nat]
    BY DEF IInv, TypeOK
  <2>2. SumFunction(good_transmissions') \in Int
    BY <2>1, SumOverNodes
  <2> QED BY <2>2, SharesType DEF IInv
<1>3. after = S + 1
  <2>1. \A n \in Nodes : good_transmissions[n] \in Int
           /\ good_transmissions'[n] =
                IF n = node_sending THEN good_transmissions[n] + 1 ELSE good_transmissions[n]
    BY DEF IInv, TypeOK, Complete
  <2>2. SumFunctionOnSet(good_transmissions', Nodes)
          = SumFunctionOnSet(good_transmissions, Nodes) + 1
    BY <1>1, <2>1, NodesCounted, SumBump
  <2>3. /\ SumFunction(good_transmissions) = SumFunctionOnSet(good_transmissions, Nodes)
        /\ SumFunction(good_transmissions') = SumFunctionOnSet(good_transmissions', Nodes)
    <3>1. /\ good_transmissions \in [Nodes -> Nat] /\ good_transmissions' \in [Nodes -> Nat]
      BY DEF IInv, TypeOK
    <3> QED BY <3>1, SumOverNodes
  <2> QED BY <1>2, <2>2, <2>3
<1>4. UtilizedByTransmissions'
  <2>1. utilized = (L + 1) * S + (L + 1) /\ utilized' = utilized
    BY <1>1, <1>2 DEF UtilizedByTransmissions, Complete, slotCounts
  <2>2. (L + 1) * (S + 1) = (L + 1) * S + (L + 1) * 1
    BY <1>2, Distribute
  <2>3. utilized' = (L + 1) * after + 0
    BY <1>2, <1>3, <2>1, <2>2
  <2> QED BY <1>1, <1>2, <2>3 DEF UtilizedByTransmissions
<1>5. CollisionsShared'
  BY DEF CollisionsShared, Complete, slotCounts
<1>6. ReportInv'
  BY DEF ReportInv, Complete
<1> QED BY <1>4, <1>5, <1>6

LEMMA CollisionStat ==
    ASSUME IInv, IInv', StatInv, Collision
    PROVE  StatInv'
<1> USE DEF StatInv
<1>1. UtilizedByTransmissions'
  BY DEF UtilizedByTransmissions, Collision, channel
<1>2. ReportInv'
  BY DEF ReportInv, Collision, EndSlot
<1>3. PICK S \in Int, after \in Int, K \in Nat, c \in Nat :
        /\ S = SumFunction(collisions_per_node) /\ after = SumFunction(collisions_per_node')
        /\ K = Cardinality(Nodes) /\ c = Cardinality(nodeReady)
  <2>1. collisions_per_node' \in [Nodes -> Nat]
    BY DEF IInv, TypeOK
  <2>2. SumFunction(collisions_per_node') \in Int
    BY <2>1, SumOverNodes
  <2> QED BY <2>2, SharesType, NodesCounted, ReadyCounted DEF IInv
<1>4. c >= 2 /\ c <= K
  BY <1>3, ReadyCounted DEF Collision, Collides
<1>5. after = S + c
  <2> DEFINE one == [n \in Nodes |-> IF n \in nodeReady THEN 1 ELSE 0]
  <2>1. \A n \in Nodes : /\ collisions_per_node[n] \in Int /\ one[n] \in Int
                         /\ one[n] = (IF n \in nodeReady THEN 1 ELSE 0)
                         /\ collisions_per_node'[n] = collisions_per_node[n] + one[n]
    BY DEF IInv, TypeOK, Collision
  <2> HIDE DEF one
  <2>2. SumFunctionOnSet(collisions_per_node', Nodes)
          = SumFunctionOnSet(collisions_per_node, Nodes) + SumFunctionOnSet(one, Nodes)
    BY <2>1, NodesCounted, SumPlus
  <2>3. SumFunctionOnSet(one, Nodes) = Cardinality(Nodes \cap nodeReady)
    BY <2>1, NodesCounted, SumIndicator
  <2>4. Nodes \cap nodeReady = nodeReady
    BY DEF nodeReady
  <2>5. /\ SumFunction(collisions_per_node) = SumFunctionOnSet(collisions_per_node, Nodes)
        /\ SumFunction(collisions_per_node') = SumFunctionOnSet(collisions_per_node', Nodes)
    <3>1. /\ collisions_per_node \in [Nodes -> Nat] /\ collisions_per_node' \in [Nodes -> Nat]
      BY DEF IInv, TypeOK
    <3> QED BY <3>1, SumOverNodes
  <2> QED BY <1>3, <2>2, <2>3, <2>4, <2>5
<1>6. CollisionsShared'
  <2>1. PICK t \in Nat : t = total_collisions /\ total_collisions' = t + 1
    BY DEF IInv, TypeOK, Collision
  <2>2. S >= 2 * t /\ S <= K * t
    BY <1>3, <2>1 DEF CollisionsShared
  <2>3. K * (t + 1) = K * t + K * 1 /\ K * t \in Int
    BY <1>3, Distribute
  <2>4. after >= 2 * (t + 1) /\ after <= K * (t + 1)
    BY <1>3, <1>4, <1>5, <2>1, <2>2, <2>3
  <2> QED BY <1>3, <2>1, <2>4 DEF CollisionsShared
<1> QED BY <1>1, <1>2, <1>6

LEMMA OtherStat ==
    ASSUME IInv, StatInv, NotComplete \/ BusySlot \/ IdleSlot \/ StartTransmission \/ Report
    PROVE  StatInv'
<1> USE DEF StatInv, contention, channel, slotCounts, nodeCounts
<1>1. PICK base \in Int : base = (L + 1) * SumFunction(good_transmissions)
  BY SharesType DEF IInv
<1>2. pkt_bits_sent \in Nat /\ utilized \in Nat
  BY DEF IInv, TypeOK
<1>3. CASE NotComplete
  BY <1>3 DEF NotComplete, UtilizedByTransmissions, CollisionsShared, ReportInv
<1>4. CASE BusySlot
  <2>1. UtilizedByTransmissions'
    BY <1>1, <1>2, <1>4 DEF BusySlot, UtilizedByTransmissions
  <2> QED BY <1>4, <2>1 DEF BusySlot, EndSlot, CollisionsShared, ReportInv
<1>5. CASE IdleSlot
  BY <1>5 DEF IdleSlot, EndSlot, UtilizedByTransmissions, CollisionsShared, ReportInv
<1>6. CASE StartTransmission
  <2>1. pkt_bits_sent = 0
    BY <1>6 DEF StartTransmission, IInv, OneSender
  <2>2. UtilizedByTransmissions'
    BY <1>1, <1>2, <1>6, <2>1 DEF StartTransmission, UtilizedByTransmissions
  <2> QED BY <1>6, <2>2 DEF StartTransmission, EndSlot, CollisionsShared, ReportInv
<1>7. CASE Report
  <2>1. UtilizedByTransmissions' /\ CollisionsShared'
    BY <1>7 DEF Report, UtilizedByTransmissions, CollisionsShared
  <2>2. ReportInv'
    BY <1>7 DEF Report, ReportInv, calcVariance
  <2> QED BY <2>1, <2>2
<1> QED BY <1>3, <1>4, <1>5, <1>6, <1>7

LEMMA StatInvariance == Spec => []StatInv
<1>1. Init => StatInv
  BY InitStat
<1>2. IInv /\ IInv' /\ StatInv /\ [Next]_vars => StatInv'
  <2> SUFFICES ASSUME IInv, IInv', StatInv, [Next]_vars PROVE StatInv'
    OBVIOUS
  <2>1. CASE Next
    BY <2>1, CompleteStat, CollisionStat, OtherStat DEF Next
  <2>2. CASE UNCHANGED vars
    BY <2>2 DEF vars, channel, slotCounts, nodeCounts, StatInv,
                UtilizedByTransmissions, CollisionsShared, ReportInv, calcVariance
  <2> QED BY <2>1, <2>2
<1> QED BY <1>1, <1>2, Invariance, PTL DEF Spec

(* The utilized slots are L + 1 for each success and those of the          *)
(* transmission under way.                                                 *)
THEOREM UtilizedIsTransmissions == Spec => []UtilizedByTransmissions
<1>1. StatInv => UtilizedByTransmissions
  BY DEF StatInv
<1> QED BY <1>1, StatInvariance, PTL

(* Every collision is counted for two stations at least and for all at     *)
(* most.                                                                   *)
THEOREM CollisionsAreShared == Spec => []CollisionsShared
<1>1. StatInv => CollisionsShared
  BY DEF StatInv
<1> QED BY <1>1, StatInvariance, PTL

(* The figures of output.txt belong together, and each variance is what it *)
(* is by the differences of all pairs of stations.                         *)
THEOREM ReportIsConsistent == Spec => []ReportAddsUp
<1>1. IInv /\ StatInv => ReportAddsUp
  <2> SUFFICES ASSUME IInv, StatInv, report # None PROVE ReportAddsUp
    BY DEF ReportAddsUp
  <2>1. /\ slot = T /\ utilized + idle + total_collisions = slot
        /\ report.utilized = utilized /\ report.idle = idle
        /\ report.collisions = total_collisions
        /\ report.successful_variance = calcVariance(good_transmissions)
        /\ report.collision_variance = calcVariance(collisions_per_node)
    BY DEF IInv, SlotsAccounted, StatInv, ReportInv
  <2>2. good_transmissions \in [Nodes -> Nat] /\ collisions_per_node \in [Nodes -> Nat]
    BY DEF IInv, TypeOK
  <2> QED BY <2>1, <2>2, VarianceBySpread DEF ReportAddsUp
<1> QED BY <1>1, Invariance, StatInvariance, PTL

-----------------------------------------------------------------------------
(* The simulation implements Medium                                        *)

Held == IF channelBusy THEN pkt_bits_sent + 1 ELSE 0

(* The slots in which the channel stays with who has it.                   *)
LEMMA QuietSteps ==
    ASSUME NotComplete \/ Collision \/ IdleSlot \/ Report \/ UNCHANGED vars
    PROVE  UNCHANGED <<node_sending, Held, good_transmissions>>
BY DEF NotComplete, Collision, IdleSlot, Report, vars, channel, nodeCounts, Held

LEMMA MediumStep ==
    ASSUME IInv, [Next]_vars
    PROVE  [Channel!Next]_<<node_sending, Held, good_transmissions>>
<1> USE DEF IInv, TypeOK, Held
<1>1. CASE Complete
  <2>1. channelBusy /\ node_sending \in Nodes /\ pkt_bits_sent = L
    BY <1>1 DEF Complete, Sent, OneSender
  <2>2. Channel!Release
    BY <1>1, <2>1 DEF Complete, FreeChannel, Channel!Release
  <2> QED BY <2>2 DEF Channel!Next
<1>2. CASE BusySlot
  <2>1. channelBusy /\ node_sending \in Nodes /\ pkt_bits_sent < L
    BY <1>2 DEF BusySlot, EndSlot, PassInv, OneSender
  <2>2. Channel!Keep
    BY <1>2, <2>1 DEF BusySlot, nodeCounts, Channel!Keep
  <2> QED BY <2>2 DEF Channel!Next
<1>3. CASE StartTransmission
  <2>1. PICK n \in Nodes : node_sending' = n
    BY <1>3 DEF StartTransmission
  <2>2. node_sending = None /\ pkt_bits_sent = 0
    BY <1>3 DEF StartTransmission, OneSender
  <2>3. Channel!Acquire(n)
    BY <1>3, <2>1, <2>2 DEF StartTransmission, Channel!Acquire
  <2> QED BY <2>3 DEF Channel!Next
<1>4. CASE NotComplete \/ Collision \/ IdleSlot \/ Report \/ UNCHANGED vars
  BY <1>4, QuietSteps
<1> QED BY <1>1, <1>2, <1>3, <1>4 DEF Next

(* One station at a time holds the channel, for L + 1 slots, and counts a  *)
(* success at their end, whatever collides or waits in between.            *)
THEOREM ImplementsMedium == Spec => IsMedium
<1>1. Init => Channel!Init
  BY DEF Init, Channel!Init, Zero
<1>2. IInv /\ [Next]_vars => [Channel!Next]_<<node_sending, Held, good_transmissions>>
  BY MediumStep
<1> QED BY <1>1, <1>2, Invariance, PTL DEF Spec, IsMedium, Channel!Spec, Held

=============================================================================
