---------------------------- MODULE Sums_proofs -----------------------------
(* Facts about SumFunction and SumFunctionOnSet of module Functions, which *)
(* the statistics of csma.cpp and the costs of paths in mp3 are written    *)
(* with.  Both are folds, by a recursive function over the subsets of a    *)
(* finite set; the inductions are over a set of numbers or of subsets.     *)
EXTENDS Functions, FiniteSetTheorems, TLAPS

-----------------------------------------------------------------------------
(* Induction, first-order                                                  *)

LEMMA LeastNumber ==
    ASSUME NEW A, A \subseteq Nat, A # {}
    PROVE  \E n \in A : \A m \in A : n <= m
<1>1. \E x \in A : \A y \in A : <<y, x>> \notin OpToRel(<, Nat)
  BY WFMin, NatLessThanWellFounded
<1>2. PICK n \in A : \A y \in A : <<y, n>> \notin OpToRel(<, Nat)
  BY <1>1
<1>3. ASSUME NEW m \in A PROVE n <= m
  <2>1. m \in Nat /\ n \in Nat
    OBVIOUS
  <2>2. ~ (m < n)
    BY <1>2, <2>1 DEF OpToRel
  <2> QED BY <2>1, <2>2
<1> QED BY <1>3

(* A set of numbers that has 0 and, with a number, the next one.           *)
LEMMA NumberInduction ==
    ASSUME NEW G, 0 \in G, \A n \in Nat : n \in G => n + 1 \in G
    PROVE  Nat \subseteq G
<1> SUFFICES ASSUME Nat \ G # {} PROVE FALSE
  OBVIOUS
<1>1. PICK n \in Nat \ G : \A m \in Nat \ G : n <= m
  <2>1. Nat \ G \subseteq Nat
    OBVIOUS
  <2> QED BY <2>1, LeastNumber
<1>2. n - 1 \in Nat /\ (n - 1) + 1 = n
  <2>1. n # 0 /\ n \in Nat
    OBVIOUS
  <2> QED BY <2>1
<1>3. n - 1 \in G
  <2>1. ~ (n <= n - 1)
    BY <1>2
  <2> QED BY <1>1, <1>2, <2>1
<1> QED BY <1>2, <1>3

(* A set that has every subset of S whose smaller subsets it has.          *)
LEMMA SmallerSubsetInduction ==
    ASSUME NEW S, IsFiniteSet(S), NEW G,
           \A U \in SUBSET S : (\A V \in SUBSET U : V # U => V \in G) => U \in G
    PROVE  SUBSET S \subseteq G
<1> DEFINE B == (SUBSET S) \ G
<1> SUFFICES ASSUME B # {} PROVE FALSE
  OBVIOUS
<1>1. B \subseteq FiniteSubsetsOf(S)
  BY FS_FiniteSubsetsOfFinite
<1>2. PICK U \in B : \A V \in B : <<V, U>> \notin StrictSubsetOrdering(S)
  <2> HIDE DEF B
  <2> QED BY <1>1, WFMin, FS_StrictSubsetOrderingWellFounded
<1>3. U \in SUBSET S /\ U \notin G
  OBVIOUS
<1>4. ASSUME NEW V \in SUBSET U, V # U PROVE V \in G
  <2>1. V \in SUBSET S /\ <<V, U>> \in StrictSubsetOrdering(S)
    BY <1>3, <1>4 DEF StrictSubsetOrdering
  <2>2. V \notin B
    BY <1>2, <2>1
  <2> QED BY <2>1, <2>2
<1> QED BY <1>3, <1>4

(* A set that has {} and, with a subset of S, that subset and one more     *)
(* element of S.                                                           *)
LEMMA SubsetInduction ==
    ASSUME NEW S, IsFiniteSet(S), NEW G, {} \in G,
           \A U \in SUBSET S : \A x \in S \ U : U \in G => U \cup {x} \in G
    PROVE  S \in G
<1>1. ASSUME NEW U \in SUBSET S, \A V \in SUBSET U : V # U => V \in G
      PROVE  U \in G
  <2>1. CASE U # {}
    <3>1. PICK x \in U : TRUE
      BY <2>1
    <3>2. U \ {x} \in SUBSET S /\ U \ {x} # U /\ x \in S \ (U \ {x}) /\ (U \ {x}) \cup {x} = U
      OBVIOUS
    <3>3. U \ {x} \in G
      BY <1>1, <3>2
    <3> QED BY <3>2, <3>3
  <2> QED BY <2>1
<1> QED BY <1>1, SmallerSubsetInduction

-----------------------------------------------------------------------------
(* The recursive function behind a sum                                     *)

(* One more element, or nothing.                                           *)
SumStep(f, g, s) ==
    IF s = {} THEN 0 ELSE f[CHOOSE y \in s : TRUE] + g[s \ {CHOOSE y \in s : TRUE}]

PartialSums(f, S) == CHOOSE g : g = [s \in SUBSET S |-> SumStep(f, g, s)]

LEMMA SumIsPartialSum ==
    ASSUME NEW f, NEW S
    PROVE  SumFunctionOnSet(f, S) = PartialSums(f, S)[S]
BY DEF SumFunctionOnSet, FoldFunctionOnSet, MapThenFoldSet, PartialSums, SumStep

(* What is taken out of a set makes it smaller.                            *)
LEMMA TakeOut ==
    ASSUME NEW s, s # {}
    PROVE  (CHOOSE y \in s : TRUE) \in s
OBVIOUS

(* There is such a function: one that is right for the sets of up to n     *)
(* elements gives one that is right for those of n + 1.                    *)
LEMMA PartialSumsExist ==
    ASSUME NEW f, NEW S, IsFiniteSet(S)
    PROVE  \E g : g = [s \in SUBSET S |-> SumStep(f, g, s)]
<1> DEFINE Right(g, n) == \A s \in SUBSET S : Cardinality(s) <= n => g[s] = SumStep(f, g, s)
           G == {n \in Nat : \E g : Right(g, n)}
           Next(g) == [s \in SUBSET S |-> SumStep(f, g, s)]
<1>1. \A s \in SUBSET S : IsFiniteSet(s) /\ Cardinality(s) \in Nat /\ Cardinality(s) <= Cardinality(S)
  BY FS_Subset, FS_CardinalityType
<1>2. 0 \in G
  <2>1. \A s \in SUBSET S : Cardinality(s) <= 0 => s = {}
    BY <1>1, FS_EmptySet
  <2>2. Right([s \in SUBSET S |-> 0], 0)
    BY <2>1 DEF SumStep
  <2> QED BY <2>2
<1>3. ASSUME NEW n \in Nat, n \in G PROVE n + 1 \in G
  <2>1. PICK g : Right(g, n)
    BY <1>3
  <2>2. ASSUME NEW s \in SUBSET S, Cardinality(s) <= n + 1
        PROVE  Next(g)[s] = SumStep(f, Next(g), s)
    <3>1. CASE s = {}
      BY <3>1 DEF SumStep
    <3>2. CASE s # {}
      <4> DEFINE x == CHOOSE y \in s : TRUE
                 t == s \ {x}
      <4>1. x \in s
        BY <3>2
      <4>2. t \in SUBSET S
        OBVIOUS
      <4>3. Cardinality(t) = Cardinality(s) - 1
        BY <1>1, <4>1, FS_RemoveElement
      <4>4. Cardinality(t) <= n
        BY <1>1, <2>2, <4>3
      <4>5. Next(g)[t] = g[t]
        BY <2>1, <4>2, <4>4
      <4>6. Next(g)[s] = f[x] + g[t]
        BY <3>2 DEF SumStep
      <4>7. SumStep(f, Next(g), s) = f[x] + Next(g)[t]
        BY <3>2 DEF SumStep
      <4> QED BY <4>5, <4>6, <4>7
    <3> QED BY <3>1, <3>2
  <2>3. Right(Next(g), n + 1)
    BY <2>2
  <2>4. n + 1 \in Nat /\ \E h : Right(h, n + 1)
    <3> HIDE DEF Right, Next
    <3> QED BY <2>3
  <2> QED BY <2>4
<1>4. Cardinality(S) \in G
  <2>1. Nat \subseteq G
    <3> HIDE DEF G
    <3> QED BY <1>2, <1>3, NumberInduction
  <2> QED BY <2>1, FS_CardinalityType
<1>5. PICK g : Right(g, Cardinality(S))
  BY <1>4
<1>6. \A s \in SUBSET S : g[s] = SumStep(f, g, s)
  BY <1>1, <1>5
<1>7. ASSUME NEW s \in SUBSET S PROVE SumStep(f, Next(g), s) = SumStep(f, g, s)
  <2>1. \A t \in SUBSET S : Next(g)[t] = g[t]
    BY <1>6
  <2>2. s \ {CHOOSE y \in s : TRUE} \in SUBSET S
    OBVIOUS
  <2> QED BY <2>1, <2>2 DEF SumStep
<1>8. Next(g) = [s \in SUBSET S |-> SumStep(f, Next(g), s)]
  BY <1>7
<1> QED BY <1>8

LEMMA PartialSumsEquation ==
    ASSUME NEW f, NEW S, IsFiniteSet(S), NEW s \in SUBSET S
    PROVE  PartialSums(f, S)[s] = SumStep(f, PartialSums(f, S), s)
<1>1. PartialSums(f, S) = [t \in SUBSET S |-> SumStep(f, PartialSums(f, S), t)]
  BY PartialSumsExist DEF PartialSums
<1> QED BY <1>1

(* The sums of the subsets do not depend on the set they are taken from.   *)
LEMMA PartialSumsAgree ==
    ASSUME NEW f, NEW S, IsFiniteSet(S), NEW T \in SUBSET S
    PROVE  PartialSums(f, T)[T] = PartialSums(f, S)[T]
<1> DEFINE G == {s \in SUBSET T : PartialSums(f, T)[s] = PartialSums(f, S)[s]}
<1>1. IsFiniteSet(T)
  BY FS_Subset
<1>2. ASSUME NEW U \in SUBSET T, \A V \in SUBSET U : V # U => V \in G
      PROVE  U \in G
  <2>1. /\ PartialSums(f, T)[U] = SumStep(f, PartialSums(f, T), U)
        /\ PartialSums(f, S)[U] = SumStep(f, PartialSums(f, S), U)
    BY <1>1, PartialSumsEquation
  <2>2. CASE U = {}
    BY <2>1, <2>2 DEF SumStep
  <2>3. CASE U # {}
    <3>1. U \ {CHOOSE y \in U : TRUE} \in G
      BY <1>2, <2>3
    <3>2. SumStep(f, PartialSums(f, T), U) = SumStep(f, PartialSums(f, S), U)
      BY <2>3, <3>1 DEF SumStep
    <3> QED BY <2>1, <3>2
  <2> QED BY <2>2, <2>3
<1>3. SUBSET T \subseteq G
  <2> HIDE DEF G
  <2> QED BY <1>1, <1>2, SmallerSubsetInduction
<1> QED BY <1>3

-----------------------------------------------------------------------------
(* Sums over a set                                                         *)

LEMMA SumEmpty ==
    ASSUME NEW f
    PROVE  SumFunctionOnSet(f, {}) = 0
<1>1. IsFiniteSet({}) /\ {} \in SUBSET {}
  BY FS_EmptySet
<1>2. PartialSums(f, {})[{}] = SumStep(f, PartialSums(f, {}), {})
  BY <1>1, PartialSumsEquation
<1> QED BY <1>2, SumIsPartialSum DEF SumStep

(* The element that the recursion takes out.                               *)
LEMMA SumFirst ==
    ASSUME NEW f, NEW S, IsFiniteSet(S), S # {}
    PROVE  \E x \in S : SumFunctionOnSet(f, S) = f[x] + SumFunctionOnSet(f, S \ {x})
<1> DEFINE x == CHOOSE y \in S : TRUE
<1>1. PartialSums(f, S)[S] = f[x] + PartialSums(f, S)[S \ {x}]
  BY PartialSumsEquation DEF SumStep
<1>2. PartialSums(f, S \ {x})[S \ {x}] = PartialSums(f, S)[S \ {x}]
  BY PartialSumsAgree
<1>3. SumFunctionOnSet(f, S) = f[x] + SumFunctionOnSet(f, S \ {x})
  BY <1>1, <1>2, SumIsPartialSum
<1>4. x \in S
  BY TakeOut
<1> QED BY <1>3, <1>4

LEMMA SumType ==
    ASSUME NEW f, NEW S, IsFiniteSet(S), \A x \in S : f[x] \in Int
    PROVE  SumFunctionOnSet(f, S) \in Int
<1> DEFINE G == {U \in SUBSET S : SumFunctionOnSet(f, U) \in Int}
<1>1. ASSUME NEW U \in SUBSET S, \A V \in SUBSET U : V # U => V \in G
      PROVE  U \in G
  <2>1. CASE U = {}
    BY <2>1, SumEmpty
  <2>2. CASE U # {}
    <3>1. IsFiniteSet(U)
      BY FS_Subset
    <3>2. PICK x \in U : SumFunctionOnSet(f, U) = f[x] + SumFunctionOnSet(f, U \ {x})
      BY <2>2, <3>1, SumFirst
    <3>3. U \ {x} \in G /\ f[x] \in Int
      BY <1>1
    <3> QED BY <3>2, <3>3
  <2> QED BY <2>1, <2>2
<1>2. SUBSET S \subseteq G
  <2> HIDE DEF G
  <2> QED BY <1>1, SmallerSubsetInduction
<1> QED BY <1>2

(* Any element may be taken out: the order of a sum does not matter.       *)
LEMMA SumTakeOut ==
    ASSUME NEW f, NEW S, IsFiniteSet(S), \A x \in S : f[x] \in Int, NEW e \in S
    PROVE  SumFunctionOnSet(f, S) = f[e] + SumFunctionOnSet(f, S \ {e})
<1> DEFINE Any(U) == \A x \in U : SumFunctionOnSet(f, U) = f[x] + SumFunctionOnSet(f, U \ {x})
           G == {U \in SUBSET S : Any(U)}
<1>1. ASSUME NEW U \in SUBSET S, \A V \in SUBSET U : V # U => V \in G,
             NEW x \in U
      PROVE  SumFunctionOnSet(f, U) = f[x] + SumFunctionOnSet(f, U \ {x})
  <2>1. IsFiniteSet(U)
    BY FS_Subset
  <2>2. PICK c \in U : SumFunctionOnSet(f, U) = f[c] + SumFunctionOnSet(f, U \ {c})
    BY <2>1, SumFirst
  <2>3. CASE x # c
    <3>1. U \ {c} \in G /\ U \ {x} \in G
      BY <1>1
    <3>2. SumFunctionOnSet(f, U \ {c}) = f[x] + SumFunctionOnSet(f, (U \ {c}) \ {x})
      BY <2>3, <3>1
    <3>3. SumFunctionOnSet(f, U \ {x}) = f[c] + SumFunctionOnSet(f, (U \ {x}) \ {c})
      BY <2>3, <3>1
    <3>4. (U \ {c}) \ {x} = (U \ {x}) \ {c}
      OBVIOUS
    <3>5. IsFiniteSet((U \ {c}) \ {x})
      BY <2>1, FS_RemoveElement
    <3>6. PICK rest \in Int : rest = SumFunctionOnSet(f, (U \ {c}) \ {x})
      BY <3>5, SumType
    <3>7. f[x] \in Int /\ f[c] \in Int
      OBVIOUS
    <3>8. /\ SumFunctionOnSet(f, U) = f[c] + (f[x] + rest)
          /\ SumFunctionOnSet(f, U \ {x}) = f[c] + rest
      BY <2>2, <3>2, <3>3, <3>4, <3>6
    <3> HIDE DEF G
    <3> QED BY <3>6, <3>7, <3>8
  <2> QED BY <2>2, <2>3
<1>2. \A U \in SUBSET S : (\A V \in SUBSET U : V # U => V \in G) => U \in G
  BY <1>1
<1>3. SUBSET S \subseteq G
  <2> HIDE DEF G
  <2> QED BY <1>2, SmallerSubsetInduction
<1> QED BY <1>3

LEMMA SumAddElement ==
    ASSUME NEW f, NEW S, IsFiniteSet(S), NEW e, e \notin S,
           \A x \in S : f[x] \in Int, f[e] \in Int
    PROVE  SumFunctionOnSet(f, S \cup {e}) = f[e] + SumFunctionOnSet(f, S)
<1>1. IsFiniteSet(S \cup {e}) /\ (S \cup {e}) \ {e} = S
  BY FS_AddElement
<1>2. SumFunctionOnSet(f, S \cup {e}) = f[e] + SumFunctionOnSet(f, (S \cup {e}) \ {e})
  BY <1>1, SumTakeOut
<1> QED BY <1>1, <1>2

(* Only the summands matter.                                               *)
LEMMA SumEqual ==
    ASSUME NEW f, NEW g, NEW S, IsFiniteSet(S),
           \A x \in S : f[x] \in Int /\ f[x] = g[x]
    PROVE  SumFunctionOnSet(f, S) = SumFunctionOnSet(g, S)
<1> DEFINE G == {U \in SUBSET S : SumFunctionOnSet(f, U) = SumFunctionOnSet(g, U)}
<1>1. {} \in G
  BY SumEmpty
<1>2. ASSUME NEW U \in SUBSET S, NEW x \in S \ U, U \in G PROVE U \cup {x} \in G
  <2>1. IsFiniteSet(U)
    BY FS_Subset
  <2>2. /\ SumFunctionOnSet(f, U \cup {x}) = f[x] + SumFunctionOnSet(f, U)
        /\ SumFunctionOnSet(g, U \cup {x}) = g[x] + SumFunctionOnSet(g, U)
    BY <2>1, SumAddElement
  <2> QED BY <1>2, <2>2
<1>3. S \in G
  <2> HIDE DEF G
  <2> QED BY <1>1, <1>2, SubsetInduction
<1> QED BY <1>3

LEMMA SumPlus ==
    ASSUME NEW f, NEW g, NEW h, NEW S, IsFiniteSet(S),
           \A x \in S : f[x] \in Int /\ g[x] \in Int /\ h[x] = f[x] + g[x]
    PROVE  SumFunctionOnSet(h, S) = SumFunctionOnSet(f, S) + SumFunctionOnSet(g, S)
<1> DEFINE G == {U \in SUBSET S :
                   SumFunctionOnSet(h, U) = SumFunctionOnSet(f, U) + SumFunctionOnSet(g, U)}
<1>1. {} \in G
  BY SumEmpty
<1>2. ASSUME NEW U \in SUBSET S, NEW x \in S \ U, U \in G PROVE U \cup {x} \in G
  <2>1. IsFiniteSet(U)
    BY FS_Subset
  <2>2. /\ SumFunctionOnSet(f, U \cup {x}) = f[x] + SumFunctionOnSet(f, U)
        /\ SumFunctionOnSet(g, U \cup {x}) = g[x] + SumFunctionOnSet(g, U)
        /\ SumFunctionOnSet(h, U \cup {x}) = h[x] + SumFunctionOnSet(h, U)
    BY <2>1, SumAddElement
  <2>3. PICK a \in Int, b \in Int : a = SumFunctionOnSet(f, U) /\ b = SumFunctionOnSet(g, U)
    BY <2>1, SumType
  <2>4. SumFunctionOnSet(h, U \cup {x})
          = SumFunctionOnSet(f, U \cup {x}) + SumFunctionOnSet(g, U \cup {x})
    <3>1. f[x] \in Int /\ g[x] \in Int /\ h[x] = f[x] + g[x] /\ SumFunctionOnSet(h, U) = a + b
      BY <1>2, <2>3
    <3> HIDE DEF G
    <3> QED BY <2>2, <2>3, <3>1
  <2> QED BY <2>4
<1>3. S \in G
  <2> HIDE DEF G
  <2> QED BY <1>1, <1>2, SubsetInduction
<1> QED BY <1>3

LEMMA Distribute ==
    ASSUME NEW c \in Int, NEW a \in Int, NEW b \in Int
    PROVE  c * (a + b) = c * a + c * b
OBVIOUS

LEMMA SumTimes ==
    ASSUME NEW f, NEW h, NEW c \in Int, NEW S, IsFiniteSet(S),
           \A x \in S : f[x] \in Int /\ h[x] = c * f[x]
    PROVE  SumFunctionOnSet(h, S) = c * SumFunctionOnSet(f, S)
<1> DEFINE G == {U \in SUBSET S : SumFunctionOnSet(h, U) = c * SumFunctionOnSet(f, U)}
<1>1. {} \in G
  BY SumEmpty
<1>2. ASSUME NEW U \in SUBSET S, NEW x \in S \ U, U \in G PROVE U \cup {x} \in G
  <2>1. IsFiniteSet(U)
    BY FS_Subset
  <2>2. \A y \in S : h[y] \in Int
    OBVIOUS
  <2>3. /\ SumFunctionOnSet(f, U \cup {x}) = f[x] + SumFunctionOnSet(f, U)
        /\ SumFunctionOnSet(h, U \cup {x}) = h[x] + SumFunctionOnSet(h, U)
    BY <2>1, <2>2, SumAddElement
  <2>4. SumFunctionOnSet(f, U) \in Int
    BY <2>1, SumType
  <2>5. SumFunctionOnSet(h, U \cup {x}) = c * f[x] + c * SumFunctionOnSet(f, U)
    BY <1>2, <2>3
  <2>6. c * (f[x] + SumFunctionOnSet(f, U)) = c * f[x] + c * SumFunctionOnSet(f, U)
    BY <2>4, Distribute
  <2> QED BY <2>3, <2>5, <2>6
<1>3. S \in G
  <2> HIDE DEF G
  <2> QED BY <1>1, <1>2, SubsetInduction
<1> QED BY <1>3

LEMMA SumConstant ==
    ASSUME NEW f, NEW c \in Int, NEW S, IsFiniteSet(S), \A x \in S : f[x] = c
    PROVE  SumFunctionOnSet(f, S) = c * Cardinality(S)
<1> DEFINE G == {U \in SUBSET S : SumFunctionOnSet(f, U) = c * Cardinality(U)}
<1>1. {} \in G
  BY SumEmpty, FS_EmptySet
<1>2. ASSUME NEW U \in SUBSET S, NEW x \in S \ U, U \in G PROVE U \cup {x} \in G
  <2>1. IsFiniteSet(U) /\ Cardinality(U) \in Int
    BY FS_Subset, FS_CardinalityType
  <2>2. SumFunctionOnSet(f, U \cup {x}) = c + c * Cardinality(U)
    BY <1>2, <2>1, SumAddElement
  <2>3. Cardinality(U \cup {x}) = Cardinality(U) + 1
    BY <2>1, FS_AddElement
  <2>4. c * (Cardinality(U) + 1) = c * Cardinality(U) + c * 1
    BY <2>1, Distribute
  <2>5. c * 1 = c /\ c * Cardinality(U) \in Int
    BY <2>1
  <2>6. SumFunctionOnSet(f, U \cup {x}) = c * Cardinality(U \cup {x})
    BY <2>2, <2>3, <2>4, <2>5
  <2> QED BY <2>6
<1>3. S \in G
  <2> HIDE DEF G
  <2> QED BY <1>1, <1>2, SubsetInduction
<1> QED BY <1>3

LEMMA SumMonotonic ==
    ASSUME NEW f, NEW g, NEW S, IsFiniteSet(S),
           \A x \in S : f[x] \in Int /\ g[x] \in Int /\ f[x] <= g[x]
    PROVE  SumFunctionOnSet(f, S) <= SumFunctionOnSet(g, S)
<1> DEFINE G == {U \in SUBSET S : SumFunctionOnSet(f, U) <= SumFunctionOnSet(g, U)}
<1>1. {} \in G
  BY SumEmpty
<1>2. ASSUME NEW U \in SUBSET S, NEW x \in S \ U, U \in G PROVE U \cup {x} \in G
  <2>1. IsFiniteSet(U)
    BY FS_Subset
  <2>2. /\ SumFunctionOnSet(f, U \cup {x}) = f[x] + SumFunctionOnSet(f, U)
        /\ SumFunctionOnSet(g, U \cup {x}) = g[x] + SumFunctionOnSet(g, U)
    BY <2>1, SumAddElement
  <2>3. SumFunctionOnSet(f, U) \in Int /\ SumFunctionOnSet(g, U) \in Int
    BY <2>1, SumType
  <2>4. f[x] \in Int /\ g[x] \in Int /\ f[x] <= g[x]
    OBVIOUS
  <2>5. SumFunctionOnSet(f, U) <= SumFunctionOnSet(g, U)
    BY <1>2
  <2>6. SumFunctionOnSet(f, U \cup {x}) <= SumFunctionOnSet(g, U \cup {x})
    <3> HIDE DEF G
    <3> QED BY <2>2, <2>3, <2>4, <2>5
  <2> QED BY <2>6
<1>3. S \in G
  <2> HIDE DEF G
  <2> QED BY <1>1, <1>2, SubsetInduction
<1> QED BY <1>3

(* One summand more by one, the others as they are.                        *)
LEMMA SumBump ==
    ASSUME NEW f, NEW g, NEW S, IsFiniteSet(S), NEW e \in S,
           \A x \in S : f[x] \in Int /\ g[x] = IF x = e THEN f[x] + 1 ELSE f[x]
    PROVE  SumFunctionOnSet(g, S) = SumFunctionOnSet(f, S) + 1
<1>1. \A x \in S : f[x] \in Int /\ g[x] \in Int
  OBVIOUS
<1>2. /\ SumFunctionOnSet(f, S) = f[e] + SumFunctionOnSet(f, S \ {e})
      /\ SumFunctionOnSet(g, S) = g[e] + SumFunctionOnSet(g, S \ {e})
  BY <1>1, SumTakeOut
<1>3. IsFiniteSet(S \ {e}) /\ \A x \in S \ {e} : f[x] \in Int /\ f[x] = g[x]
  BY FS_RemoveElement
<1>4. SumFunctionOnSet(f, S \ {e}) \in Int
  BY <1>3, SumType
<1>5. SumFunctionOnSet(f, S \ {e}) = SumFunctionOnSet(g, S \ {e})
  BY <1>3, SumEqual
<1>6. f[e] \in Int /\ g[e] = f[e] + 1
  OBVIOUS
<1> QED BY <1>2, <1>4, <1>5, <1>6

(* Counting the elements that are in A.                                    *)
LEMMA SumIndicator ==
    ASSUME NEW f, NEW A, NEW S, IsFiniteSet(S),
           \A x \in S : f[x] = IF x \in A THEN 1 ELSE 0
    PROVE  SumFunctionOnSet(f, S) = Cardinality(S \cap A)
<1> DEFINE G == {U \in SUBSET S : SumFunctionOnSet(f, U) = Cardinality(U \cap A)}
<1>1. {} \in G
  <2>1. {} \cap A = {}
    OBVIOUS
  <2> QED BY <2>1, SumEmpty, FS_EmptySet
<1>2. ASSUME NEW U \in SUBSET S, NEW x \in S \ U, U \in G PROVE U \cup {x} \in G
  <2>1. IsFiniteSet(U) /\ IsFiniteSet(U \cap A) /\ Cardinality(U \cap A) \in Int
    BY FS_Subset, FS_Intersection, FS_CardinalityType
  <2>2. SumFunctionOnSet(f, U \cup {x}) = f[x] + Cardinality(U \cap A)
    BY <1>2, <2>1, SumAddElement
  <2>3. CASE x \in A
    <3>1. (U \cup {x}) \cap A = (U \cap A) \cup {x}
      BY <2>3
    <3>2. Cardinality((U \cup {x}) \cap A) = Cardinality(U \cap A) + 1
      BY <2>1, <3>1, FS_AddElement
    <3>3. SumFunctionOnSet(f, U \cup {x}) = Cardinality((U \cup {x}) \cap A)
      BY <2>1, <2>2, <2>3, <3>2
    <3> QED BY <3>3
  <2>4. CASE x \notin A
    <3>1. (U \cup {x}) \cap A = U \cap A
      BY <2>4
    <3>2. f[x] = 0
      BY <2>4
    <3>3. SumFunctionOnSet(f, U \cup {x}) = Cardinality(U \cap A)
      BY <2>1, <2>2, <3>2
    <3>4. SumFunctionOnSet(f, U \cup {x}) = Cardinality((U \cup {x}) \cap A)
      BY <3>1, <3>3
    <3> QED BY <3>4
  <2> QED BY <2>3, <2>4
<1>3. S \in G
  <2> HIDE DEF G
  <2> QED BY <1>1, <1>2, SubsetInduction
<1> QED BY <1>3

(* Other names for the indices.                                            *)
LEMMA SumImage ==
    ASSUME NEW f, NEW g, NEW h, NEW S, IsFiniteSet(S),
           \A x \in S : f[h[x]] \in Int /\ g[x] = f[h[x]],
           \A x, y \in S : h[x] = h[y] => x = y
    PROVE  SumFunctionOnSet(f, {h[x] : x \in S}) = SumFunctionOnSet(g, S)
<1> DEFINE Image(U) == {h[x] : x \in U}
           G == {U \in SUBSET S : /\ IsFiniteSet(Image(U))
                                  /\ SumFunctionOnSet(f, Image(U)) = SumFunctionOnSet(g, U)}
<1>1. {} \in G
  <2>1. Image({}) = {}
    OBVIOUS
  <2> HIDE DEF Image
  <2> QED BY <2>1, SumEmpty, FS_EmptySet
<1>2. ASSUME NEW U \in SUBSET S, NEW x \in S \ U, U \in G PROVE U \cup {x} \in G
  <2>1. IsFiniteSet(U) /\ IsFiniteSet(Image(U))
    BY <1>2, FS_Subset
  <2>2. Image(U \cup {x}) = Image(U) \cup {h[x]}
    OBVIOUS
  <2>3. h[x] \notin Image(U) /\ \A e \in Image(U) : f[e] \in Int
    OBVIOUS
  <2>4. f[h[x]] \in Int /\ g[x] = f[h[x]] /\ \A y \in U : g[y] \in Int
    OBVIOUS
  <2>5. SumFunctionOnSet(f, Image(U)) = SumFunctionOnSet(g, U)
    BY <1>2
  <2> HIDE DEF Image
  <2>6. SumFunctionOnSet(g, U \cup {x}) = g[x] + SumFunctionOnSet(g, U)
    BY <2>1, <2>4, SumAddElement
  <2>7. SumFunctionOnSet(f, Image(U) \cup {h[x]}) = f[h[x]] + SumFunctionOnSet(f, Image(U))
    BY <2>1, <2>3, <2>4, SumAddElement
  <2>8. IsFiniteSet(Image(U) \cup {h[x]})
    BY <2>1, FS_AddElement
  <2> QED BY <2>2, <2>4, <2>5, <2>6, <2>7, <2>8
<1>3. S \in G
  <2> HIDE DEF G
  <2> QED BY <1>1, <1>2, SubsetInduction
<1> QED BY <1>3

(* A sum over two sets without a common element.                           *)
LEMMA SumUnion ==
    ASSUME NEW f, NEW A, NEW B, IsFiniteSet(A), IsFiniteSet(B), A \cap B = {},
           \A x \in A \cup B : f[x] \in Int
    PROVE  SumFunctionOnSet(f, A \cup B) = SumFunctionOnSet(f, A) + SumFunctionOnSet(f, B)
<1> DEFINE G == {U \in SUBSET B : SumFunctionOnSet(f, A \cup U)
                     = SumFunctionOnSet(f, A) + SumFunctionOnSet(f, U)}
<1>0. SumFunctionOnSet(f, A) \in Int
  BY SumType
<1>1. {} \in G
  <2>1. A \cup {} = A
    OBVIOUS
  <2>2. SumFunctionOnSet(f, A \cup {}) = SumFunctionOnSet(f, A) + SumFunctionOnSet(f, {})
    BY <1>0, <2>1, SumEmpty
  <2> QED BY <2>2
<1>2. ASSUME NEW U \in SUBSET B, NEW x \in B \ U, U \in G PROVE U \cup {x} \in G
  <2>1. IsFiniteSet(U) /\ IsFiniteSet(A \cup U)
    BY FS_Subset, FS_Union
  <2>2. x \notin A \cup U /\ A \cup (U \cup {x}) = (A \cup U) \cup {x} /\ f[x] \in Int
    OBVIOUS
  <2>3. SumFunctionOnSet(f, U) \in Int
    BY <2>1, SumType
  <2>4. SumFunctionOnSet(f, U \cup {x}) = f[x] + SumFunctionOnSet(f, U)
    BY <2>1, SumAddElement
  <2>5. SumFunctionOnSet(f, (A \cup U) \cup {x}) = f[x] + SumFunctionOnSet(f, A \cup U)
    BY <2>1, <2>2, SumAddElement
  <2>6. SumFunctionOnSet(f, A \cup U) = SumFunctionOnSet(f, A) + SumFunctionOnSet(f, U)
    BY <1>2
  <2>7. SumFunctionOnSet(f, A \cup (U \cup {x}))
          = SumFunctionOnSet(f, A) + SumFunctionOnSet(f, U \cup {x})
    <3>1. SumFunctionOnSet(f, A \cup (U \cup {x}))
            = f[x] + (SumFunctionOnSet(f, A) + SumFunctionOnSet(f, U))
      BY <2>2, <2>5, <2>6
    <3>2. f[x] \in Int
      BY <2>2
    <3> HIDE DEF G
    <3> QED BY <1>0, <2>3, <2>4, <3>1, <3>2
  <2> QED BY <2>7
<1>3. B \in G
  <2> HIDE DEF G
  <2> QED BY <1>1, <1>2, SubsetInduction
<1> QED BY <1>3

(* A sum over pairs, row by row.                                           *)
LEMMA SumOfRows ==
    ASSUME NEW f, NEW row, NEW rows, NEW A, NEW B, IsFiniteSet(A), IsFiniteSet(B),
           \A a \in A : \A b \in B : f[<<a, b>>] \in Int /\ row[a][b] = f[<<a, b>>],
           \A a \in A : rows[a] = SumFunctionOnSet(row[a], B)
    PROVE  SumFunctionOnSet(f, A \X B) = SumFunctionOnSet(rows, A)
<1> DEFINE G == {U \in SUBSET A : SumFunctionOnSet(f, U \X B) = SumFunctionOnSet(rows, U)}
<1>0. \A a \in A : rows[a] \in Int
  <2> TAKE a \in A
  <2>1. \A b \in B : row[a][b] \in Int
    OBVIOUS
  <2> QED BY <2>1, SumType
<1>1. {} \in G
  <2>1. {} \X B = {}
    OBVIOUS
  <2> QED BY <2>1, SumEmpty
<1>2. ASSUME NEW U \in SUBSET A, NEW a \in A \ U, U \in G PROVE U \cup {a} \in G
  <2> DEFINE at == [b \in B |-> <<a, b>>]
  <2>1. IsFiniteSet(U) /\ IsFiniteSet(U \X B)
    BY FS_Subset, FS_Product
  <2>2. SumFunctionOnSet(rows, U \cup {a}) = rows[a] + SumFunctionOnSet(rows, U)
    BY <1>0, <2>1, SumAddElement
  <2>3. SumFunctionOnSet(f, {at[b] : b \in B}) = SumFunctionOnSet(row[a], B)
    <3>1. \A b \in B : f[at[b]] \in Int /\ row[a][b] = f[at[b]]
      OBVIOUS
    <3>2. \A b, c \in B : at[b] = at[c] => b = c
      OBVIOUS
    <3> HIDE DEF at
    <3> QED BY <3>1, <3>2, SumImage
  <2>4. {at[b] : b \in B} = {a} \X B
    OBVIOUS
  <2>5. IsFiniteSet({a} \X B) /\ (U \X B) \cap ({a} \X B) = {}
        /\ (U \cup {a}) \X B = (U \X B) \cup ({a} \X B)
    <3>1. IsFiniteSet({a})
      BY FS_Singleton
    <3>2. IsFiniteSet({a} \X B)
      BY <3>1, FS_Product
    <3>3. (U \X B) \cap ({a} \X B) = {} /\ (U \cup {a}) \X B = (U \X B) \cup ({a} \X B)
      OBVIOUS
    <3> QED BY <3>2, <3>3
  <2>6. \A p \in (U \X B) \cup ({a} \X B) : f[p] \in Int
    OBVIOUS
  <2>7. SumFunctionOnSet(f, (U \X B) \cup ({a} \X B))
          = SumFunctionOnSet(f, U \X B) + SumFunctionOnSet(f, {a} \X B)
    BY <2>1, <2>5, <2>6, SumUnion
  <2>8. SumFunctionOnSet(f, U \X B) = SumFunctionOnSet(rows, U)
    BY <1>2
  <2>9. SumFunctionOnSet(rows, U) \in Int /\ rows[a] \in Int /\ rows[a] = SumFunctionOnSet(row[a], B)
    BY <1>0, <2>1, SumType
  <2>10. SumFunctionOnSet(f, {a} \X B) = rows[a]
    BY <2>3, <2>4, <2>9
  <2>11. SumFunctionOnSet(f, (U \cup {a}) \X B) = SumFunctionOnSet(rows, U \cup {a})
    <3>1. SumFunctionOnSet(f, (U \cup {a}) \X B) = SumFunctionOnSet(rows, U) + rows[a]
      BY <2>5, <2>7, <2>8, <2>10
    <3> HIDE DEF G, at
    <3> QED BY <2>2, <2>9, <3>1
  <2> QED BY <2>11
<1>3. A \in G
  <2> HIDE DEF G
  <2> QED BY <1>1, <1>2, SubsetInduction
<1> QED BY <1>3

=============================================================================
