--------------------------- MODULE Decimal_proofs ---------------------------
(* The numerals that sprintf writes have what the proofs about the         *)
(* transport assume of Text, in every base.  Numeral is defined by         *)
(* recursion from n to n \div Base; that there is such a function is       *)
(* shown first.                                                            *)
EXTENDS MCTransport, Sums_proofs, SequenceTheorems

USE BaseAssumption

(* All but the last digit is the numeral of a smaller number.              *)
LEMMA Division ==
    ASSUME NEW n \in Nat
    PROVE  /\ n \div Base \in Nat /\ n % Base \in Nat
           /\ n = (Base * (n \div Base)) + (n % Base)
           /\ n >= Base => n \div Base >= 1 /\ n \div Base < n
<1>1. n \div Base \in Nat /\ n % Base \in Nat
  OBVIOUS
<1>2. n = (Base * (n \div Base)) + (n % Base)
  OBVIOUS
<1>3. n >= Base => n \div Base >= 1
  OBVIOUS
<1>4. n >= Base => n \div Base < n
  OBVIOUS
<1> QED BY <1>1, <1>2, <1>3, <1>4

-----------------------------------------------------------------------------
(* The recursion                                                           *)

NumeralStep(f, n) == IF n < Base THEN <<n>> ELSE Append(f[n \div Base], n % Base)

RightUpTo(f, k) == \A n \in 0..k : f[n] = NumeralStep(f, n)

LEMMA NumeralsAgree ==
    ASSUME NEW j \in Nat, NEW k \in Nat, j <= k,
           NEW f, NEW g, RightUpTo(f, j), RightUpTo(g, k)
    PROVE  f[j] = g[j]
<1> DEFINE Wrong == {n \in 0..j : f[n] # g[n]}
<1> SUFFICES ASSUME Wrong # {} PROVE FALSE
  OBVIOUS
<1>1. PICK n \in Wrong : \A m \in Wrong : n <= m
  <2>1. Wrong \subseteq Nat
    OBVIOUS
  <2> QED BY <2>1, LeastNumber
<1>2. n \in Nat /\ n \in 0..j /\ n \in 0..k /\ f[n] # g[n]
  OBVIOUS
<1>3. n >= Base => f[n \div Base] = g[n \div Base]
  <2> SUFFICES ASSUME n >= Base PROVE f[n \div Base] = g[n \div Base]
    OBVIOUS
  <2>1. n \div Base \in Nat /\ n \div Base < n
    BY <1>2, Division
  <2>2. n \div Base \in 0..j
    BY <1>2, <2>1
  <2>3. n \div Base \notin Wrong
    BY <1>1, <1>2, <2>1
  <2> QED BY <2>2, <2>3
<1>4. NumeralStep(f, n) = NumeralStep(g, n)
  BY <1>2, <1>3 DEF NumeralStep
<1> QED BY <1>2, <1>4 DEF RightUpTo

LEMMA NumeralsUpTo ==
    ASSUME NEW k \in Nat
    PROVE  \E f : RightUpTo(f, k)
<1> DEFINE G == {n \in Nat : \E f : RightUpTo(f, n)}
           More(f) == [n \in Nat |-> NumeralStep(f, n)]
<1>1. ASSUME NEW n \in Nat, NEW f, \A m \in 0..(n - 1) : f[m] = NumeralStep(f, m)
      PROVE  RightUpTo(More(f), n)
  <2> SUFFICES ASSUME NEW m \in 0..n
               PROVE  More(f)[m] = NumeralStep(More(f), m)
    BY DEF RightUpTo
  <2>1. m \in Nat /\ More(f)[m] = NumeralStep(f, m)
    OBVIOUS
  <2>2. m >= Base => More(f)[m \div Base] = f[m \div Base]
    <3> SUFFICES ASSUME m >= Base PROVE More(f)[m \div Base] = f[m \div Base]
      OBVIOUS
    <3>1. m \div Base \in Nat /\ m \div Base < m
      BY <2>1, Division
    <3>2. m \div Base \in 0..(n - 1)
      BY <3>1
    <3>3. More(f)[m \div Base] = NumeralStep(f, m \div Base)
      BY <3>1
    <3> QED BY <1>1, <3>2, <3>3
  <2> HIDE DEF More
  <2> QED BY <2>1, <2>2 DEF NumeralStep
<1>2. 0 \in G
  <2>1. RightUpTo(More(<<>>), 0)
    <3>1. \A m \in 0..(0 - 1) : <<>>[m] = NumeralStep(<<>>, m)
      OBVIOUS
    <3> HIDE DEF More
    <3> QED BY <1>1, <3>1
  <2> HIDE DEF More
  <2> QED BY <2>1
<1>3. ASSUME NEW n \in Nat, n \in G PROVE n + 1 \in G
  <2>1. PICK f : RightUpTo(f, n)
    BY <1>3
  <2>2. n + 1 \in Nat /\ (n + 1) - 1 = n
    OBVIOUS
  <2> HIDE DEF More
  <2>3. RightUpTo(More(f), n + 1)
    BY <1>1, <2>1, <2>2 DEF RightUpTo
  <2> QED BY <2>2, <2>3
<1> HIDE DEF G
<1>4. Nat \subseteq G
  BY <1>2, <1>3, NumberInduction
<1> QED BY <1>4 DEF G

LEMMA NumeralsExist == \E f : f = [n \in Nat |-> NumeralStep(f, n)]
<1> DEFINE part(n) == CHOOSE f : RightUpTo(f, n)
           h == [n \in Nat |-> part(n)[n]]
<1>1. \A n \in Nat : RightUpTo(part(n), n)
  BY NumeralsUpTo
<1> HIDE DEF part
<1>2. ASSUME NEW n \in Nat, NEW m \in Nat, m <= n PROVE h[m] = part(n)[m]
  <2>1. part(m)[m] = part(n)[m]
    BY <1>1, <1>2, NumeralsAgree
  <2> QED BY <2>1
<1>3. ASSUME NEW n \in Nat PROVE h[n] = NumeralStep(h, n)
  <2>1. h[n] = part(n)[n]
    BY <1>2
  <2> HIDE DEF h
  <2>2. part(n)[n] = NumeralStep(part(n), n)
    BY <1>1 DEF RightUpTo
  <2>3. n >= Base => h[n \div Base] = part(n)[n \div Base]
    BY <1>2, Division
  <2> QED BY <2>1, <2>2, <2>3 DEF NumeralStep
<1>4. h = [n \in Nat |-> NumeralStep(h, n)]
  BY <1>3
<1> HIDE DEF h
<1> QED BY <1>4

LEMMA NumeralEquation ==
    ASSUME NEW n \in Nat
    PROVE  Numeral[n] = IF n < Base THEN <<n>> ELSE Append(Numeral[n \div Base], n % Base)
<1>1. \E f : f = [m \in Nat |-> IF m < Base THEN <<m>> ELSE Append(f[m \div Base], m % Base)]
  BY NumeralsExist DEF NumeralStep
<1>2. Numeral = [m \in Nat |-> IF m < Base THEN <<m>> ELSE Append(Numeral[m \div Base], m % Base)]
  BY <1>1 DEF Numeral
<1> QED BY <1>2

-----------------------------------------------------------------------------
(* What numerals are                                                       *)

LEMMA NumeralType ==
    ASSUME NEW k \in Nat
    PROVE  Numeral[k] \in Seq(Nat) /\ Len(Numeral[k]) \in Nat \ {0}
<1> DEFINE Wrong == {n \in Nat : ~(Numeral[n] \in Seq(Nat) /\ Len(Numeral[n]) \in Nat \ {0})}
<1> SUFFICES ASSUME Wrong # {} PROVE FALSE
  OBVIOUS
<1>1. PICK n \in Wrong : \A m \in Wrong : n <= m
  <2>1. Wrong \subseteq Nat
    OBVIOUS
  <2> QED BY <2>1, LeastNumber
<1>2. n \in Nat /\ ~(Numeral[n] \in Seq(Nat) /\ Len(Numeral[n]) \in Nat \ {0})
  OBVIOUS
<1>3. CASE n < Base
  <2>1. Numeral[n] = <<n>>
    BY <1>2, <1>3, NumeralEquation
  <2>2. <<n>> \in Seq(Nat) /\ Len(<<n>>) = 1
    BY <1>2
  <2> QED BY <1>2, <2>1, <2>2
<1>4. CASE n >= Base
  <2> DEFINE q == n \div Base
  <2>1. q \in Nat /\ q < n /\ n % Base \in Nat
    BY <1>2, <1>4, Division
  <2>2. ~(n < Base)
    BY <1>2, <1>4
  <2>3. Numeral[n] = Append(Numeral[q], n % Base)
    BY <1>2, <2>2, NumeralEquation
  <2> HIDE DEF q
  <2>4. Numeral[q] \in Seq(Nat) /\ Len(Numeral[q]) \in Nat
    <3>1. q \notin Wrong
      BY <1>1, <1>2, <2>1
    <3> HIDE DEF Wrong
    <3> QED BY <2>1, <3>1 DEF Wrong
  <2>5. Numeral[n] \in Seq(Nat) /\ Len(Numeral[n]) = Len(Numeral[q]) + 1
    BY <2>1, <2>3, <2>4, AppendProperties
  <2> QED BY <1>2, <2>4, <2>5
<1> QED BY <1>2, <1>3, <1>4

LEMMA OneDigit ==
    ASSUME NEW n \in Nat, n < Base
    PROVE  Len(Numeral[n]) = 1 /\ Numeral[n][1] = n
<1>1. Numeral[n] = <<n>>
  BY NumeralEquation
<1> QED BY <1>1

LEMMA MoreDigits ==
    ASSUME NEW n \in Nat, n >= Base
    PROVE  /\ Len(Numeral[n]) = Len(Numeral[n \div Base]) + 1
           /\ Len(Numeral[n \div Base]) \in Nat \ {0}
           /\ Numeral[n][Len(Numeral[n])] = n % Base
           /\ \A p \in 1..Len(Numeral[n \div Base]) : Numeral[n][p] = Numeral[n \div Base][p]
<1> DEFINE q == n \div Base
<1>1. q \in Nat /\ n % Base \in Nat /\ ~(n < Base)
  BY Division
<1>2. Numeral[n] = Append(Numeral[q], n % Base)
  BY <1>1, NumeralEquation
<1> HIDE DEF q
<1>3. Numeral[q] \in Seq(Nat) /\ Len(Numeral[q]) \in Nat \ {0}
  BY <1>1, NumeralType
<1>4. /\ Len(Numeral[n]) = Len(Numeral[q]) + 1
      /\ Numeral[n][Len(Numeral[q]) + 1] = n % Base
      /\ \A p \in 1..Len(Numeral[q]) : Numeral[n][p] = Numeral[q][p]
  BY <1>1, <1>2, <1>3, AppendProperties
<1> QED BY <1>3, <1>4 DEF q

(* Two numbers that are written alike.                                     *)
Alike(m, n) ==
    /\ Len(Numeral[m]) = Len(Numeral[n])
    /\ \A p \in 1..Len(Numeral[n]) : Numeral[m][p] = Numeral[n][p]

LEMMA NumeralsDiffer ==
    ASSUME NEW k \in Nat, NEW m \in Nat, Alike(m, k)
    PROVE  m = k
<1> DEFINE Wrong == {n \in Nat : \E x \in Nat : Alike(x, n) /\ x # n}
<1> SUFFICES ASSUME Wrong # {} PROVE FALSE
  OBVIOUS
<1>1. PICK n \in Wrong : \A y \in Wrong : n <= y
  <2>1. Wrong \subseteq Nat
    OBVIOUS
  <2> QED BY <2>1, LeastNumber
<1>2. PICK x \in Nat : Alike(x, n) /\ x # n
  OBVIOUS
<1>3. n \in Nat /\ \A y \in Nat : y < n => y \notin Wrong
  BY <1>1
<1>4. Len(Numeral[x]) = Len(Numeral[n])
      /\ \A p \in 1..Len(Numeral[n]) : Numeral[x][p] = Numeral[n][p]
  BY <1>2 DEF Alike
<1>5. CASE n < Base
  <2>1. Len(Numeral[n]) = 1 /\ Numeral[n][1] = n
    BY <1>3, <1>5, OneDigit
  <2>2. ~(x >= Base)
    <3> SUFFICES ASSUME x >= Base PROVE FALSE
      OBVIOUS
    <3>1. PICK a \in Nat \ {0} : Len(Numeral[x]) = a + 1
      BY MoreDigits
    <3>2. Len(Numeral[x]) = 1
      BY <1>4, <2>1
    <3>3. 1 = a + 1
      BY <3>1, <3>2, Zenon
    <3>4. a >= 1
      BY <3>1
    <3> QED BY <3>3, <3>4
  <2>3. Numeral[x][1] = x
    BY <2>2, OneDigit
  <2>4. Numeral[x][1] = Numeral[n][1]
    BY <1>4, <2>1
  <2> QED BY <1>2, <2>1, <2>3, <2>4
<1>6. CASE n >= Base
  <2> DEFINE q == n \div Base
             r == x \div Base
  <2>1. /\ Len(Numeral[n]) = Len(Numeral[q]) + 1 /\ Len(Numeral[q]) \in Nat \ {0}
        /\ Numeral[n][Len(Numeral[n])] = n % Base
        /\ \A p \in 1..Len(Numeral[q]) : Numeral[n][p] = Numeral[q][p]
    BY <1>3, <1>6, MoreDigits
  <2>2. x >= Base
    <3> SUFFICES ASSUME x < Base PROVE FALSE
      OBVIOUS
    <3>1. Len(Numeral[x]) = 1
      BY OneDigit
    <3> QED BY <1>4, <2>1, <3>1
  <2>3. /\ Len(Numeral[x]) = Len(Numeral[r]) + 1 /\ Len(Numeral[r]) \in Nat \ {0}
        /\ Numeral[x][Len(Numeral[x])] = x % Base
        /\ \A p \in 1..Len(Numeral[r]) : Numeral[x][p] = Numeral[r][p]
    BY <2>2, MoreDigits
  <2>4. /\ q \in Nat /\ q < n /\ n = (Base * q) + (n % Base)
        /\ r \in Nat /\ x = (Base * r) + (x % Base)
    BY <1>3, <1>6, <2>2, Division
  <2> HIDE DEF q, r
  <2>5. Len(Numeral[r]) = Len(Numeral[q])
    <3>1. PICK a \in Nat : a = Len(Numeral[q]) /\ Len(Numeral[n]) = a + 1
      BY <2>1
    <3>2. PICK b \in Nat : b = Len(Numeral[r]) /\ Len(Numeral[x]) = b + 1
      BY <2>3
    <3>3. a + 1 = b + 1
      BY <1>4, <3>1, <3>2, Zenon
    <3>4. a = b
      BY <3>3
    <3> QED BY <3>1, <3>2, <3>4, Zenon
  <2>6. \A p \in 1..Len(Numeral[q]) : Numeral[r][p] = Numeral[q][p]
    <3> TAKE p \in 1..Len(Numeral[q])
    <3>1. p \in 1..Len(Numeral[n])
      BY <2>1
    <3>2. Numeral[n][p] = Numeral[q][p] /\ Numeral[x][p] = Numeral[r][p]
      BY <2>1, <2>3, <2>5, Zenon
    <3>3. Numeral[x][p] = Numeral[n][p]
      BY <1>4, <3>1, Zenon
    <3> QED BY <3>2, <3>3, Zenon
  <2>7. r = q
    <3>1. q \notin Wrong
      BY <1>3, <2>4
    <3>2. Alike(r, q)
      BY <2>5, <2>6 DEF Alike
    <3> QED BY <2>4, <3>1, <3>2
  <2>8. x % Base = n % Base
    <3>1. Len(Numeral[n]) \in 1..Len(Numeral[n])
      BY <2>1
    <3> QED BY <1>4, <2>1, <2>3, <3>1
  <2> QED BY <1>2, <2>4, <2>7, <2>8
<1> QED BY <1>3, <1>5, <1>6

(* A numeral that is cut short is that of a smaller number.                *)
Cuts(m, n, d) == Len(Numeral[m]) = d /\ \A p \in 1..d : Numeral[m][p] = Numeral[n][p]

LEMMA NumeralsCut ==
    ASSUME NEW k \in Nat \ {0}, NEW e \in 1..Len(Numeral[k])
    PROVE  \E m \in 1..k : Cuts(m, k, e)
<1> DEFINE Wrong == {n \in Nat \ {0} :
                        \E d \in 1..Len(Numeral[n]) : \A m \in 1..n : ~Cuts(m, n, d)}
<1> SUFFICES ASSUME Wrong # {} PROVE FALSE
  OBVIOUS
<1>1. PICK n \in Wrong : \A y \in Wrong : n <= y
  <2>1. Wrong \subseteq Nat
    OBVIOUS
  <2> QED BY <2>1, LeastNumber
<1>2. PICK d \in 1..Len(Numeral[n]) : \A m \in 1..n : ~Cuts(m, n, d)
  OBVIOUS
<1>3. n \in Nat \ {0} /\ n \in 1..n /\ \A y \in Nat : y < n => y \notin Wrong
  BY <1>1
<1>4. d # Len(Numeral[n])
  BY <1>2, <1>3 DEF Cuts
<1>5. n >= Base
  <2> SUFFICES ASSUME n < Base PROVE FALSE
    BY <1>3
  <2>1. Len(Numeral[n]) = 1
    BY <1>3, OneDigit
  <2> QED BY <1>4, <2>1
<1> DEFINE q == n \div Base
<1>6. /\ Len(Numeral[n]) = Len(Numeral[q]) + 1 /\ Len(Numeral[q]) \in Nat \ {0}
      /\ \A p \in 1..Len(Numeral[q]) : Numeral[n][p] = Numeral[q][p]
  BY <1>3, <1>5, MoreDigits
<1>7. q \in Nat \ {0} /\ q < n
  <2>1. q \in Nat /\ q >= 1 /\ q < n
    BY <1>3, <1>5, Division
  <2> QED BY <2>1
<1> HIDE DEF q
<1>8. d \in 1..Len(Numeral[q])
  BY <1>4, <1>6
<1>9. PICK m \in 1..q : Cuts(m, q, d)
  <2>1. q \notin Wrong
    BY <1>3, <1>7
  <2> QED BY <1>7, <1>8, <2>1
<1>10. Cuts(m, n, d)
  <2>1. \A p \in 1..d : p \in 1..Len(Numeral[q])
    BY <1>6, <1>8
  <2> QED BY <1>6, <1>9, <2>1 DEF Cuts
<1>11. m \in 1..n
  BY <1>3, <1>7
<1> QED BY <1>2, <1>10, <1>11

(* The numerals that the programs write, in any base and however many, are *)
(* what the theorems about the transport take Text to be.                  *)
THEOREM NumeralsAreText == AreNumerals(NumeralText)
<1> DEFINE text == NumeralText
<1>1. DOMAIN text = Numbers /\ \A n \in Numbers : text[n] = Numeral[n]
  BY DEF NumeralText, Numbers
<1>2. \A n \in Numbers : n \in Nat \ {0}
  BY SizeAssumption DEF Numbers
<1> HIDE DEF text
<1>3. ASSUME NEW n \in Numbers
      PROVE  Len(text[n]) \in Nat \ {0} /\ DOMAIN text[n] = 1..Len(text[n])
  BY <1>1, <1>2, NumeralType, LenProperties
<1>4. ASSUME NEW m \in Numbers, NEW n \in Numbers, Len(text[m]) = Len(text[n]),
             \A p \in 1..Len(text[n]) : text[m][p] = text[n][p]
      PROVE  m = n
  <2>1. Alike(m, n)
    BY <1>1, <1>4 DEF Alike
  <2> QED BY <1>2, <2>1, NumeralsDiffer
<1>5. ASSUME NEW n \in Numbers, NEW d \in 1..Len(text[n])
      PROVE  \E m \in 1..n : /\ Len(text[m]) = d
                             /\ \A p \in 1..d : text[m][p] = text[n][p]
  <2>1. d \in 1..Len(Numeral[n])
    BY <1>1
  <2>2. PICK m \in 1..n : Cuts(m, n, d)
    BY <1>2, <2>1, NumeralsCut
  <2>3. m \in Numbers
    BY <1>2, SizeAssumption DEF Numbers
  <2> QED BY <1>1, <2>2, <2>3 DEF Cuts
<1> QED BY <1>1, <1>3, <1>4, <1>5 DEF AreNumerals, text

-----------------------------------------------------------------------------
(* Numbers that begin other numbers                                        *)

(* What begins with the numeral of n is n, or Base times as large at least.*)
LEMMA BeginsWith ==
    ASSUME NEW a \in Nat \ {0}, NEW n \in Nat \ {0}, n # a,
           Len(Numeral[n]) <= Len(Numeral[a]),
           \A p \in 1..Len(Numeral[n]) : Numeral[a][p] = Numeral[n][p]
    PROVE  Base * n <= a
<1> DEFINE q == a \div Base
           d == Len(Numeral[n])
<1>1. d \in Nat \ {0} /\ Len(Numeral[a]) \in Nat \ {0}
  BY NumeralType
<1>2. d # Len(Numeral[a])
  <2>1. Len(Numeral[n]) = Len(Numeral[a]) => Alike(n, a)
    BY DEF Alike
  <2> QED BY <2>1, NumeralsDiffer
<1>3. a >= Base
  <2> SUFFICES ASSUME a < Base PROVE FALSE
    OBVIOUS
  <2>1. Len(Numeral[a]) = 1
    BY OneDigit
  <2>2. d <= Len(Numeral[a])
    OBVIOUS
  <2> HIDE DEF d
  <2> QED BY <1>1, <1>2, <2>1, <2>2
<1>4. /\ q \in Nat \ {0} /\ a % Base \in Nat
      /\ a = Base * q + (a % Base)
  <2>1. /\ q \in Nat /\ q >= 1 /\ a % Base \in Nat
        /\ a = (Base * q) + (a % Base)
    BY <1>3, Division
  <2> QED BY <2>1
<1>5. /\ Len(Numeral[a]) = Len(Numeral[q]) + 1 /\ Len(Numeral[q]) \in Nat \ {0}
      /\ \A p \in 1..Len(Numeral[q]) : Numeral[a][p] = Numeral[q][p]
  BY <1>3, MoreDigits
<1> HIDE DEF q
<1>6. d \in 1..Len(Numeral[q])
  BY <1>1, <1>2, <1>5
<1>7. PICK m \in 1..q : Cuts(m, q, d)
  BY <1>4, <1>6, NumeralsCut
<1>8. Alike(m, n)
  <2>1. \A p \in 1..d : p \in 1..Len(Numeral[q])
    BY <1>5, <1>6
  <2> QED BY <1>5, <1>7, <2>1 DEF Cuts, Alike
<1>9. m = n
  BY <1>8, NumeralsDiffer
<1>10. n <= q
  BY <1>4, <1>7, <1>9
<1>11. Base * n <= Base * q
  BY <1>4, <1>10
<1> QED BY <1>4, <1>11

(* In a transfer of up to Base segments (ten, in decimal) no number of a   *)
(* segment but 1 begins another.                                           *)
THEOREM FewSegmentsArePlain ==
    ASSUME Text = NumeralText, bytesToTransfer + 1 < Base * (MSS + 1)
    PROVE  PlainNumbers
<1> SUFFICES ASSUME NEW a \in SegmentNumbers, NEW n \in SegmentNumbers,
                    ReadsAs([seq |-> a, from |-> 1, len |-> 0], n),
                    n # 1, n # a
             PROVE  FALSE
  BY DEF PlainNumbers
<1> USE SizeAssumption
<1>1. /\ a \in Nat \ {0} /\ n \in Nat \ {0} /\ a \in Numbers /\ n \in Numbers
      /\ a <= bytesToTransfer + 1
  BY DEF SegmentNumbers, Numbers
<1>2. Text[a] = Numeral[a] /\ Text[n] = Numeral[n]
  BY <1>1 DEF NumeralText, Numbers
<1>3. Len(Numeral[a]) \in Nat /\ Len(Numeral[n]) \in Nat
  BY <1>1, NumeralType
<1>4. /\ Len(Numeral[n]) <= Len(Numeral[a])
      /\ \A p \in 1..Len(Numeral[n]) : Numeral[a][p] = Numeral[n][p]
  BY <1>2, <1>3 DEF ReadsAs, Size, Digits, Symbol
<1>5. Base * n <= a
  BY <1>1, <1>4, BeginsWith
<1>6. n < bytesToTransfer + 1
  <2>1. 2 * n <= Base * n
    BY <1>1
  <2> QED BY <1>1, <1>5, <2>1
<1>7. n >= MSS + 1
  <2> SUFFICES ASSUME n <= MSS PROVE FALSE
    BY <1>1
  <2>1. n \in 2..MSS /\ n % MSS = 1 % MSS
    BY <1>1, <1>6 DEF SegmentNumbers
  <2>2. 1 % MSS = 1
    BY <2>1
  <2>3. n % MSS = IF n = MSS THEN 0 ELSE n
    BY <2>1
  <2> QED BY <2>1, <2>2, <2>3
<1>8. Base * (MSS + 1) <= Base * n
  BY <1>1, <1>7
<1>9. Base * (MSS + 1) \in Nat /\ Base * n \in Nat
  BY <1>1
<1> QED BY <1>1, <1>5, <1>8, <1>9

=============================================================================
