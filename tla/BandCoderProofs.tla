--------------------------- MODULE BandCoderProofs ---------------------------
(***************************************************************************)
(* Theorems about the band coder, for bands and parents of every size and  *)
(* of all values, every step, block and window.                            *)
(*                                                                         *)
(* The types first.  Then the round trip: what the encoder writes at a     *)
(* cell or a flat block, Bits, and where it stands afterwards, After, are  *)
(* functions of the job and of where it stood, so that the history `past`  *)
(* is a run (RunOK) and the coded bits are what the run writes             *)
(* (EncodeInv).  The decoder stands where the encoder stood, with the same *)
(* parameters and the same number of bits behind it (DecodeInv): in front  *)
(* of a cell both sides see the same (Seen), hence they compute the same   *)
(* contexts, parameters and predictions, and what is read is what was      *)
(* written (ZeroRead, SignedRead), which takes the decoder to the next     *)
(* place of the run.                                                       *)
(***************************************************************************)
EXTENDS BandCoder, FiniteSetTheorems, SequenceTheorems, WellFoundedInduction, TLAPS

--------------------------------------------------------------------------------
(* Arithmetic *)

LEMMA DivMod ==
  ASSUME NEW n \in Nat, NEW d \in Nat, d > 0
  PROVE  /\ n \div d \in Nat
         /\ n % d \in 0 .. (d - 1)
         /\ n = (n \div d) * d + (n % d)
BY SMT

LEMMA DivModUnique ==
  ASSUME NEW q \in Nat, NEW d \in Nat, NEW r \in 0 .. (d - 1)
  PROVE  /\ (q * d + r) \div d = q
         /\ (q * d + r) % d = r
BY SMT

LEMMA MulNat ==
  ASSUME NEW a \in Nat, NEW b \in Nat
  PROVE  a * b \in Nat /\ a * b = b * a /\ (a > 0 /\ b > 0 => a * b > 0)
BY SMT

LEMMA MulMono ==
  ASSUME NEW a \in Nat, NEW b \in Nat, NEW c \in Nat, a <= b
  PROVE  a * c <= b * c
BY SMT

LEMMA MulAdd ==
  ASSUME NEW a \in Int, NEW b \in Int, NEW c \in Int
  PROVE  (a + b) * c = a * c + b * c /\ (a - b) * c = a * c - b * c
BY SMT

\* Doubling the divisor moves one bit from the quotient to the remainder.
LEMMA ModSplit ==
  ASSUME NEW m \in Nat, NEW d \in Nat, d > 0
  PROVE  m % (2 * d) = (m % d) + ((m \div d) % 2) * d
<1>1. PICK q, r : q = m \div d /\ r = m % d
  OBVIOUS
<1>2. q \in Nat /\ r \in 0 .. (d - 1) /\ m = q * d + r
  BY <1>1, DivMod
<1>3. PICK t, b : t = q \div 2 /\ b = q % 2
  OBVIOUS
<1>4. t \in Nat /\ b \in 0 .. 1 /\ q = t * 2 + b
  BY <1>2, <1>3
<1>5. q * d = t * (2 * d) + b * d
  BY <1>2, <1>4
<1>6. b * d + r \in 0 .. (2 * d - 1)
  <2>1. b = 0 \/ b = 1
    BY <1>4
  <2> QED BY <1>2, <2>1
<1>7. PICK e, s : e = 2 * d /\ s = b * d + r
  OBVIOUS
<1>8. e \in Nat /\ s \in 0 .. (e - 1) /\ m = t * e + s
  <2>1. b * d \in Int /\ t * (2 * d) \in Int
    BY <1>4
  <2> QED BY <1>2, <1>5, <1>6, <1>7, <2>1
<1>9. m % e = s
  BY <1>4, <1>8, DivModUnique
<1> QED BY <1>1, <1>3, <1>7, <1>9

\* The powers of two that a Rice parameter up to MaxK reaches.
LEMMA Powers ==
  /\ \A k \in 0 .. MaxK : 2^k \in Nat /\ 2^k > 0
  /\ \A k \in 0 .. MaxK - 1 : 2^(k + 1) = 2 * 2^k
  /\ 2^0 = 1
<1>1. /\ 2^0 = 1 /\ 2^1 = 2 /\ 2^2 = 4 /\ 2^3 = 8 /\ 2^4 = 16 /\ 2^5 = 32 /\ 2^6 = 64 /\ 2^7 = 128
      /\ 2^8 = 256 /\ 2^9 = 512 /\ 2^10 = 1024 /\ 2^11 = 2048 /\ 2^12 = 4096
  OBVIOUS
<1>2. \A k \in 0 .. 12 : k = 0 \/ k = 1 \/ k = 2 \/ k = 3 \/ k = 4 \/ k = 5 \/ k = 6 \/ k = 7 \/ k = 8
                         \/ k = 9 \/ k = 10 \/ k = 11 \/ k = 12
  OBVIOUS
<1>3. ASSUME NEW k
      PROVE  /\ (k = 0 => 2^k = 2^0) /\ (k = 1 => 2^k = 2^1) /\ (k = 2 => 2^k = 2^2) /\ (k = 3 => 2^k = 2^3)
             /\ (k = 4 => 2^k = 2^4) /\ (k = 5 => 2^k = 2^5) /\ (k = 6 => 2^k = 2^6) /\ (k = 7 => 2^k = 2^7)
             /\ (k = 8 => 2^k = 2^8) /\ (k = 9 => 2^k = 2^9) /\ (k = 10 => 2^k = 2^10) /\ (k = 11 => 2^k = 2^11)
             /\ (k = 12 => 2^k = 2^12)
  BY Zenon
<1>4. ASSUME NEW k \in 0 .. MaxK PROVE 2^k \in Nat /\ 2^k > 0
  <2>1. k \in 0 .. 12
    BY DEF MaxK
  <2> QED BY <1>1, <1>2, <1>3, <2>1
<1>5. ASSUME NEW k \in 0 .. MaxK - 1 PROVE 2^(k + 1) = 2 * 2^k
  <2>1. k \in 0 .. 12 /\ k + 1 \in 0 .. 12 /\ k # 12
    BY DEF MaxK
  <2>2. PICK e, f : e = 2^k /\ f = 2^(k + 1)
    OBVIOUS
  <2> QED BY <1>1, <1>2, <1>3, <2>1, <2>2
<1> QED BY <1>1, <1>4, <1>5

--------------------------------------------------------------------------------
(* Least and greatest elements *)

LEMMA LeastElement ==
  ASSUME NEW T \in SUBSET Nat, T # {}
  PROVE  \E n \in T : \A m \in T : n <= m
<1>1. PICK E : E = OpToRel(<, Nat)
  OBVIOUS
<1>2. IsWellFoundedOn(E, Nat)
  BY <1>1, NatLessThanWellFounded
<1>3. PICK n \in T : \A m \in T : ~(<<m, n>> \in E)
  BY <1>2, WFMin
<1>4. \A m, k \in Nat : <<m, k>> \in E <=> m < k
  BY <1>1 DEF OpToRel
<1>5. ASSUME NEW m \in T PROVE n <= m
  <2>1. ~(m < n)
    BY <1>3, <1>4
  <2> QED
    BY <2>1
<1> QED BY <1>5

\* Induction on the natural numbers, for a property given as a set.
LEMMA SetInduction ==
  ASSUME NEW T, 0 \in T, \A n \in Nat : n \in T => n + 1 \in T
  PROVE  Nat \subseteq T
<1> SUFFICES ASSUME ~(Nat \subseteq T) PROVE FALSE
  OBVIOUS
<1>1. PICK n \in Nat \ T : \A m \in Nat \ T : n <= m
  BY LeastElement
<1>2. n # 0
  OBVIOUS
<1>3. n - 1 \in Nat /\ n - 1 \in T
  BY <1>1, <1>2
<1>4. (n - 1) + 1 = n
  OBVIOUS
<1> QED BY <1>1, <1>3, <1>4

LEMMA MinIs ==
  ASSUME NEW S \in SUBSET Int, NEW x \in S, \A y \in S : x <= y
  PROVE  Min(S) = x
<1>1. \A z \in S : (\A y \in S : z <= y) => z = x
  OBVIOUS
<1> QED BY <1>1 DEF Min

LEMMA MaxIs ==
  ASSUME NEW S \in SUBSET Int, NEW x \in S, \A y \in S : x >= y
  PROVE  Max(S) = x
<1>1. \A z \in S : (\A y \in S : z >= y) => z = x
  OBVIOUS
<1> QED BY <1>1 DEF Max

LEMMA MinExists ==
  ASSUME NEW S \in SUBSET Nat, S # {}
  PROVE  Min(S) \in S /\ \A y \in S : Min(S) <= y
<1>1. PICK n \in S : \A m \in S : n <= m
  BY LeastElement
<1>2. Min(S) = n
  BY <1>1, MinIs
<1> QED BY <1>1, <1>2

LEMMA MaxExists ==
  ASSUME NEW b \in Nat, NEW S \in SUBSET (0 .. b), S # {}
  PROVE  Max(S) \in S /\ \A y \in S : Max(S) >= y
<1> DEFINE T == {n \in Nat : \A y \in S : y <= n}
<1>1. b \in T
  OBVIOUS
<1>2. PICK n \in T : \A m \in T : n <= m
  BY <1>1, LeastElement
<1>3. n \in S
  <2> SUFFICES ASSUME n \notin S PROVE FALSE
    OBVIOUS
  <2>1. PICK y : y \in S
    OBVIOUS
  <2>2. n - 1 \in T
    BY <1>2, <2>1
  <2> QED BY <1>2, <2>2
<1>4. Max(S) = n
  BY <1>2, <1>3, MaxIs
<1> QED BY <1>2, <1>3, <1>4

\* Of two numbers.
LEMMA Two ==
  ASSUME NEW a \in Int, NEW b \in Int
  PROVE  /\ Min({a, b}) = IF a <= b THEN a ELSE b
         /\ Max({a, b}) = IF a >= b THEN a ELSE b
<1>1. CASE a <= b
  <2>1. Min({a, b}) = a /\ Max({a, b}) = b
    BY <1>1, MinIs, MaxIs
  <2> QED BY <1>1, <2>1
<1>2. CASE ~(a <= b)
  <2>1. Min({a, b}) = b /\ Max({a, b}) = a
    BY <1>2, MinIs, MaxIs
  <2> QED BY <1>2, <2>1
<1> QED BY <1>1, <1>2

LEMMA KForTyped ==
  ASSUME NEW v
  PROVE  KFor(v) \in 0 .. MaxK
<1>1. {0} \cup {i \in 1 .. MaxK : 2^i <= v} \in SUBSET (0 .. 12)
  BY DEF MaxK
<1>2. Max({0} \cup {i \in 1 .. MaxK : 2^i <= v}) \in {0} \cup {i \in 1 .. MaxK : 2^i <= v}
  BY <1>1, MaxExists
<1> QED BY <1>1, <1>2 DEF KFor, MaxK

LEMMA ZigzagUndone ==
  ASSUME NEW d \in Int, NEW p \in Int
  PROVE  /\ Zigzag(d) \in Nat
         /\ Unzigzag(Zigzag(d), p) = p + d
<1>1. CASE d >= 0
  <2>1. Zigzag(d) = 2 * d /\ (2 * d) % 2 = 0 /\ (2 * d) \div 2 = d
    BY <1>1 DEF Zigzag
  <2> QED BY <1>1, <2>1 DEF Unzigzag
<1>2. CASE d < 0
  <2>1. Zigzag(d) = -2 * d - 1 /\ (-2 * d - 1) % 2 = 1 /\ (-2 * d - 1 + 1) \div 2 = -d
    BY <1>2 DEF Zigzag
  <2>2. Unzigzag(-2 * d - 1, p) = p - ((-2 * d - 1 + 1) \div 2)
    BY <2>1 DEF Unzigzag
  <2> QED BY <1>2, <2>1, <2>2
<1> QED BY <1>1, <1>2

LEMMA AbsNat ==
  ASSUME NEW v \in Int
  PROVE  Abs(v) \in Nat /\ (Abs(v) = 0 <=> v = 0) /\ v = (IF v < 0 THEN -1 ELSE 1) * Abs(v)
BY DEF Abs

--------------------------------------------------------------------------------
(* The Rice code *)

Events == [ctx : (0 .. NumCtx - 1) \X BOOLEAN, bit : {0, 1}]

LEMMA BitAtTyped ==
  ASSUME trace \in Seq(Events), NEW i \in Nat \ {0}
  PROVE  BitAt(i) \in {0, 1}
<1>1. CASE i <= Len(trace)
  <2>1. trace[i] \in Events
    BY <1>1
  <2> QED BY <1>1, <2>1 DEF BitAt, Events
<1>2. CASE ~(i <= Len(trace))
  BY <1>2 DEF BitAt
<1> QED BY <1>1, <1>2

\* What QuotientAt looks through: the bits from i on, and one behind the last.
LEMMA OnesFrom ==
  ASSUME trace \in Seq(Events), NEW i \in Nat \ {0}
  PROVE  LET ones == {j \in i .. Max({Len(trace), i}) + 1 : BitAt(j) = 1}
         IN  ones \in SUBSET Nat /\ ones # {} /\ \A j \in ones : j >= i
<1>1. Len(trace) \in Nat
  OBVIOUS
<1>2. PICK e : e = Max({Len(trace), i})
  OBVIOUS
<1>3. e \in Nat /\ e >= i /\ e >= Len(trace)
  <2>1. Len(trace) \in Int /\ i \in Int
    BY <1>1
  <2>2. Max({Len(trace), i}) = IF Len(trace) >= i THEN Len(trace) ELSE i
    BY <2>1, Two
  <2> QED BY <1>1, <1>2, <2>2
<1>4. BitAt(e + 1) = 1
  BY <1>1, <1>3 DEF BitAt
<1>5. e + 1 \in i .. e + 1
  BY <1>3
<1>6. e + 1 \in {j \in i .. e + 1 : BitAt(j) = 1}
  BY <1>4, <1>5
<1>7. {j \in i .. e + 1 : BitAt(j) = 1} \in SUBSET Nat /\ \A j \in {j \in i .. e + 1 : BitAt(j) = 1} : j >= i
  BY <1>3
<1> QED BY <1>2, <1>6, <1>7

LEMMA QuotientTyped ==
  ASSUME trace \in Seq(Events), NEW i \in Nat \ {0}
  PROVE  QuotientAt(i) \in Nat
<1> DEFINE ones == {j \in i .. Max({Len(trace), i}) + 1 : BitAt(j) = 1}
<1>1. ones \in SUBSET Nat /\ ones # {} /\ \A j \in ones : j >= i
  BY OnesFrom
<1>2. QuotientAt(i) = Min(ones) - i
  BY DEF QuotientAt
<1> HIDE DEF ones
<1>3. Min(ones) \in ones
  BY <1>1, MinExists
<1>4. Min(ones) \in Nat /\ Min(ones) >= i
  BY <1>1, <1>3
<1> QED BY <1>4, <1>1, <1>2, <1>3

\* The quotient ends with the first one.
LEMMA QuotientIs ==
  ASSUME trace \in Seq(Events), NEW i \in Nat \ {0}, NEW q \in Nat, i + q <= Len(trace),
         \A j \in 0 .. q - 1 : BitAt(i + j) = 0, BitAt(i + q) = 1
  PROVE  QuotientAt(i) = q
<1> DEFINE ones == {j \in i .. Max({Len(trace), i}) + 1 : BitAt(j) = 1}
<1>1. Len(trace) \in Nat /\ Max({Len(trace), i}) = Len(trace)
  <2>1. Len(trace) \in Nat /\ Len(trace) \in Int /\ i \in Int
    OBVIOUS
  <2>2. Max({Len(trace), i}) = IF Len(trace) >= i THEN Len(trace) ELSE i
    BY <2>1, Two
  <2> QED BY <2>1, <2>2
<1>2. i + q \in ones
  BY <1>1
<1>3. \A j \in ones : i + q <= j
  <2> SUFFICES ASSUME NEW j \in ones, j < i + q PROVE FALSE
    BY <1>1
  <2>1. j \in Nat /\ j >= i /\ BitAt(j) = 1
    BY <1>1
  <2>2. j - i \in 0 .. q - 1 /\ i + (j - i) = j
    BY <2>1
  <2>3. BitAt(i + (j - i)) = 0
    BY <2>2
  <2> QED BY <2>1, <2>2, <2>3
<1>4. QuotientAt(i) = Min(ones) - i
  BY DEF QuotientAt
<1>5. ones \in SUBSET Int
  BY <1>1
<1> HIDE DEF ones
<1>6. Min(ones) = i + q
  BY <1>2, <1>3, <1>5, MinIs
<1> QED BY <1>4, <1>6

\* lowest: f[j] is the number of the j bits from i on.
Lowest(i, k, f) ==
  f = [j \in 0 .. k |-> IF j = 0 THEN 0 ELSE f[j - 1] + BitAt(i + j - 1) * 2^(j - 1)]

LEMMA LowestExists ==
  ASSUME NEW i \in Nat, NEW k \in Nat
  PROVE  \E f : Lowest(i, k, f)
<1> DEFINE T == {n \in Nat : \E f : Lowest(i, n, f)}
<1>1. 0 \in T
  <2> DEFINE f == [j \in 0 .. 0 |-> 0]
  <2>1. Lowest(i, 0, f)
    BY DEF Lowest
  <2> QED BY <2>1
<1>2. ASSUME NEW n \in Nat, n \in T PROVE n + 1 \in T
  <2>1. PICK f : Lowest(i, n, f)
    BY <1>2
  <2>2. PICK v : v = f[n] + BitAt(i + (n + 1) - 1) * 2^((n + 1) - 1)
    OBVIOUS
  <2> DEFINE g == [j \in 0 .. n + 1 |-> IF j = n + 1 THEN v ELSE f[j]]
  <2>3. ASSUME NEW j \in 0 .. n + 1
        PROVE  g[j] = IF j = 0 THEN 0 ELSE g[j - 1] + BitAt(i + j - 1) * 2^(j - 1)
    <3>1. CASE j = n + 1
      <4>1. g[j] = v /\ j # 0 /\ g[j - 1] = f[n] /\ j - 1 = n
        BY <3>1
      <4> QED BY <2>2, <3>1, <4>1
    <3>2. CASE j # n + 1
      <4>1. j \in 0 .. n /\ g[j] = f[j] /\ (j # 0 => g[j - 1] = f[j - 1])
        BY <3>2
      <4>2. f[j] = IF j = 0 THEN 0 ELSE f[j - 1] + BitAt(i + j - 1) * 2^(j - 1)
        BY <2>1, <4>1 DEF Lowest
      <4> QED BY <4>1, <4>2
    <3> QED BY <3>1, <3>2
  <2>4. Lowest(i, n + 1, g)
    <3>1. g = [j \in 0 .. n + 1 |-> g[j]]
      OBVIOUS
    <3> HIDE DEF g
    <3> QED BY <2>3, <3>1 DEF Lowest
  <2> QED BY <2>4
<1> HIDE DEF T
<1>3. Nat \subseteq T
  BY <1>1, <1>2, SetInduction
<1> QED BY <1>3 DEF T

LEMMA RemainderFacts ==
  ASSUME NEW i \in Nat, NEW k \in Nat
  PROVE  \E f : Lowest(i, k, f) /\ RemainderAt(i, k) = f[k]
<1>1. \E f : Lowest(i, k, f)
  BY LowestExists
<1>2. PICK f : f = CHOOSE g : Lowest(i, k, g)
  OBVIOUS
<1>3. Lowest(i, k, f)
  BY <1>1, <1>2
<1>4. RemainderAt(i, k) = f[k]
  BY <1>2 DEF RemainderAt, Lowest
<1> QED BY <1>3, <1>4

LEMMA RemainderTyped ==
  ASSUME trace \in Seq(Events), NEW i \in Nat \ {0}, NEW k \in 0 .. MaxK
  PROVE  RemainderAt(i, k) \in Nat
<1>0. k \in Nat
  BY DEF MaxK
<1>1. PICK f : Lowest(i, k, f) /\ RemainderAt(i, k) = f[k]
  BY <1>0, RemainderFacts
<1> DEFINE T == {n \in Nat : n <= k => f[n] \in Nat}
<1>2. 0 \in T
  BY <1>1 DEF Lowest
<1>3. ASSUME NEW n \in Nat, n \in T PROVE n + 1 \in T
  <2> SUFFICES ASSUME n + 1 <= k PROVE f[n + 1] \in Nat
    OBVIOUS
  <2>1. f[n + 1] = f[n] + BitAt(i + (n + 1) - 1) * 2^((n + 1) - 1)
    BY <1>1 DEF Lowest
  <2>2. BitAt(i + (n + 1) - 1) \in {0, 1}
    BY BitAtTyped
  <2>3. n \in 0 .. MaxK /\ (n + 1) - 1 = n
    BY DEF MaxK
  <2>4. PICK p : p = 2^n
    OBVIOUS
  <2>5. p \in Nat
    BY <2>3, <2>4, Powers
  <2> QED BY <1>3, <2>1, <2>2, <2>3, <2>4, <2>5
<1> HIDE DEF T
<1>4. k \in T
  BY <1>2, <1>3, SetInduction
<1> QED BY <1>1, <1>4 DEF T

\* k bits of a number are its remainder.
LEMMA RemainderIs ==
  ASSUME NEW i \in Nat \ {0}, NEW k \in 0 .. MaxK, NEW m \in Nat,
         \A j \in 1 .. k : BitAt(i + j - 1) = (m \div 2^(j - 1)) % 2
  PROVE  RemainderAt(i, k) = m % 2^k
<1>0. k \in Nat
  BY DEF MaxK
<1>1. PICK f : Lowest(i, k, f) /\ RemainderAt(i, k) = f[k]
  BY <1>0, RemainderFacts
<1> DEFINE T == {n \in Nat : n <= k => f[n] = m % 2^n}
<1>2. 0 \in T
  <2>1. f[0] = 0
    BY <1>1 DEF Lowest
  <2>2. m % 1 = 0
    OBVIOUS
  <2> QED BY <2>1, <2>2, Powers
<1>3. ASSUME NEW n \in Nat, n \in T PROVE n + 1 \in T
  <2> SUFFICES ASSUME n + 1 <= k PROVE f[n + 1] = m % 2^(n + 1)
    OBVIOUS
  <2>1. f[n + 1] = f[n] + BitAt(i + (n + 1) - 1) * 2^((n + 1) - 1)
    BY <1>1 DEF Lowest
  <2>2. (n + 1) - 1 = n /\ n \in 0 .. MaxK - 1 /\ n \in 0 .. MaxK /\ n + 1 \in 1 .. k
    BY DEF MaxK
  <2>3. PICK p, t : p = 2^n /\ t = 2^(n + 1)
    OBVIOUS
  <2>4. p \in Nat /\ p > 0 /\ t = 2 * p
    BY <2>2, <2>3, Powers
  <2>5. BitAt(i + (n + 1) - 1) = (m \div p) % 2
    BY <2>2, <2>3
  <2>6. f[n] = m % p
    BY <1>3, <2>2, <2>3
  <2>7. f[n + 1] = (m % p) + ((m \div p) % 2) * p
    BY <2>1, <2>2, <2>3, <2>5, <2>6
  <2>8. m % (2 * p) = (m % p) + ((m \div p) % 2) * p
    BY <2>4, ModSplit
  <2> QED BY <2>3, <2>4, <2>7, <2>8
<1> HIDE DEF T
<1>4. k \in T
  BY <1>2, <1>3, SetInduction
<1> QED BY <1>1, <1>4 DEF T

LEMMA RiceTyped ==
  ASSUME trace \in Seq(Events), NEW i \in Nat \ {0}, NEW k \in 0 .. MaxK
  PROVE  QuotientAt(i) \in Nat /\ RiceAt(i, k) \in Nat
<1>1. PICK q : q = QuotientAt(i)
  OBVIOUS
<1>2. q \in Nat
  BY <1>1, QuotientTyped
<1>3. PICK r, p : r = RemainderAt(i + q + 1, k) /\ p = 2^k
  OBVIOUS
<1>4. r \in Nat /\ p \in Nat
  BY <1>2, <1>3, RemainderTyped, Powers
<1>5. RiceAt(i, k) = q * p + r
  BY <1>1, <1>3 DEF RiceAt
<1>6. q * p \in Nat
  BY <1>2, <1>4, MulNat
<1> QED BY <1>1, <1>2, <1>4, <1>5, <1>6

\* A Rice code is read as the number it was written for.
LEMMA RiceUndone ==
  ASSUME trace \in Seq(Events), NEW i \in Nat \ {0}, NEW k \in 0 .. MaxK, NEW m \in Nat,
         i + m \div 2^k <= Len(trace),
         \A j \in 0 .. m \div 2^k : BitAt(i + j) = Bit(j >= m \div 2^k),
         \A j \in 1 .. k : BitAt(i + m \div 2^k + j) = (m \div 2^(j - 1)) % 2
  PROVE  QuotientAt(i) = m \div 2^k /\ RiceAt(i, k) = m
<1>1. PICK p : p = 2^k
  OBVIOUS
<1>2. p \in Nat /\ p > 0
  BY <1>1, Powers
<1>3. PICK q, r : q = m \div p /\ r = m % p
  OBVIOUS
<1>4. q \in Nat /\ r \in 0 .. (p - 1) /\ m = q * p + r
  BY <1>2, <1>3, DivMod
<1>5. i + q <= Len(trace) /\ (\A j \in 0 .. q : BitAt(i + j) = Bit(j >= q))
      /\ \A j \in 1 .. k : BitAt(i + q + j) = (m \div 2^(j - 1)) % 2
  BY <1>1, <1>3
<1>6. QuotientAt(i) = q
  <2>1. \A j \in 0 .. q - 1 : BitAt(i + j) = 0
    <3> SUFFICES ASSUME NEW j \in 0 .. q - 1 PROVE BitAt(i + j) = 0
      OBVIOUS
    <3>1. j \in 0 .. q /\ ~(j >= q)
      BY <1>4
    <3>2. BitAt(i + j) = Bit(j >= q)
      BY <1>5, <3>1
    <3> QED BY <3>1, <3>2 DEF Bit
  <2>2. BitAt(i + q) = 1
    <3>1. q \in 0 .. q /\ q >= q
      BY <1>4
    <3>2. BitAt(i + q) = Bit(q >= q)
      BY <1>5, <3>1
    <3> QED BY <3>1, <3>2 DEF Bit
  <2> QED BY <1>4, <1>5, <2>1, <2>2, QuotientIs
<1>7. RemainderAt(i + q + 1, k) = r
  <2>1. \A j \in 1 .. k : (i + q + 1) + j - 1 = i + q + j
    BY <1>4
  <2>2. \A j \in 1 .. k : BitAt((i + q + 1) + j - 1) = (m \div 2^(j - 1)) % 2
    BY <1>5, <2>1
  <2>3. RemainderAt(i + q + 1, k) = m % 2^k
    <3>1. i + q + 1 \in Nat \ {0}
      BY <1>4
    <3> QED BY <2>2, <3>1, RemainderIs
  <2> QED BY <1>1, <1>3, <2>3
<1>8. RiceAt(i, k) = q * p + r
  BY <1>1, <1>6, <1>7 DEF RiceAt
<1> QED BY <1>1, <1>3, <1>4, <1>6, <1>8

--------------------------------------------------------------------------------
(* The plane and its blocks *)

Plane == w \in Nat \ {0} /\ h \in Nat \ {0}

LEMMA AreaFacts ==
  ASSUME Plane
  PROVE  w * h \in Nat /\ w * h > 0 /\ IsFiniteSet(Cells) /\ Cardinality(Cells) = w * h
<1>1. PICK a : a = w * h
  OBVIOUS
<1>2. a \in Nat /\ a > 0
  BY <1>1, MulNat DEF Plane
<1>3. Cells = 0 .. (a - 1)
  BY <1>1 DEF Cells
<1>4. 0 \in Int /\ a - 1 \in Int
  BY <1>2
<1>5. IsFiniteSet(0 .. (a - 1)) /\ Cardinality(0 .. (a - 1)) = IF 0 > a - 1 THEN 0 ELSE (a - 1) - 0 + 1
  BY <1>4, FS_Interval
<1> QED BY <1>1, <1>2, <1>3, <1>5

LEMMA CellFacts ==
  ASSUME Plane, NEW n \in Cells
  PROVE  /\ n \in Nat /\ n < w * h
         /\ X(n) \in 0 .. w - 1 /\ Y(n) \in 0 .. h - 1
         /\ n = Y(n) * w + X(n)
<1>1. n \in Nat /\ n < w * h /\ w * h \in Nat
  BY AreaFacts DEF Cells
<1>2. PICK x, y : x = X(n) /\ y = Y(n)
  OBVIOUS
<1>3. y \in Nat /\ x \in 0 .. w - 1 /\ n = y * w + x
  BY <1>1, <1>2, DivMod DEF Plane, X, Y
<1>4. y < h
  <2> SUFFICES ASSUME h <= y PROVE FALSE
    BY <1>3 DEF Plane
  <2>1. h * w <= y * w
    BY <1>3, MulMono DEF Plane
  <2>2. PICK a, b : a = w * h /\ b = y * w
    OBVIOUS
  <2>3. h * w = a /\ a \in Nat /\ b \in Nat
    BY <1>3, <2>2, MulNat DEF Plane
  <2> QED BY <1>1, <1>3, <2>1, <2>2, <2>3
<1> QED BY <1>1, <1>2, <1>3, <1>4 DEF Plane

LEMMA CellMade ==
  ASSUME Plane, NEW x \in 0 .. w - 1, NEW y \in 0 .. h - 1
  PROVE  y * w + x \in Cells /\ X(y * w + x) = x /\ Y(y * w + x) = y
<1>1. X(y * w + x) = x /\ Y(y * w + x) = y
  BY DivModUnique DEF Plane, X, Y
<1>2. (y + 1) * w <= h * w
  BY MulMono DEF Plane
<1>3. (y + 1) * w = y * w + w
  BY DEF Plane
<1>4. PICK a, b : a = w * h /\ b = y * w
  OBVIOUS
<1>5. h * w = a /\ a \in Nat /\ b \in Nat
  BY <1>4, MulNat DEF Plane
<1>6. b + w <= a
  BY <1>2, <1>3, <1>4, <1>5
<1> QED BY <1>1, <1>4, <1>5, <1>6 DEF Cells, Plane

\* A number lies in its block of d, and the blocks up to the last cover e.
LEMMA Covering ==
  ASSUME NEW e \in Nat \ {0}, NEW d \in Nat \ {0}
  PROVE  /\ (e + d - 1) \div d \in Nat \ {0}
         /\ \A x \in 0 .. e - 1 : x \div d \in 0 .. ((e + d - 1) \div d) - 1
         /\ \A c \in 0 .. ((e + d - 1) \div d) - 1 : c * d \in 0 .. e - 1 /\ (c * d) \div d = c
<1>1. PICK q, r : q = (e + d - 1) \div d /\ r = (e + d - 1) % d
  OBVIOUS
<1>2. e + d - 1 \in Nat
  OBVIOUS
<1>3. q \in Nat /\ r \in 0 .. (d - 1) /\ e + d - 1 = q * d + r
  BY <1>1, <1>2, DivMod
<1>4. PICK p : p = q * d
  OBVIOUS
<1>5. p \in Nat /\ p >= e /\ p <= e + d - 1
  BY <1>3, <1>4, MulNat
<1>6. q # 0
  BY <1>4, <1>5
<1>7. ASSUME NEW x \in 0 .. e - 1 PROVE x \div d \in 0 .. q - 1
  <2>1. PICK c, s : c = x \div d /\ s = x % d
    OBVIOUS
  <2>2. c \in Nat /\ s \in 0 .. (d - 1) /\ x = c * d + s
    BY <2>1, DivMod
  <2>3. c < q
    <3> SUFFICES ASSUME q <= c PROVE FALSE
      BY <1>3, <2>2
    <3>1. q * d <= c * d
      BY <1>3, <2>2, MulMono
    <3>2. c * d \in Nat
      BY <2>2, MulNat
    <3>3. PICK u : u = c * d
      OBVIOUS
    <3> QED BY <1>4, <1>5, <2>2, <3>1, <3>2, <3>3
  <2> QED BY <1>3, <2>1, <2>2, <2>3
<1>8. ASSUME NEW c \in 0 .. q - 1 PROVE c * d \in 0 .. e - 1 /\ (c * d) \div d = c
  <2>1. c \in Nat /\ c + 1 <= q
    BY <1>3
  <2>2. (c + 1) * d <= q * d
    BY <1>3, <2>1, MulMono
  <2>3. (c + 1) * d = c * d + d
    BY <2>1
  <2>4. PICK u : u = c * d
    OBVIOUS
  <2>5. u \in Nat
    BY <2>1, <2>4, MulNat
  <2>6. u \in 0 .. e - 1
    BY <1>4, <1>5, <2>2, <2>3, <2>4, <2>5
  <2>7. 0 \in 0 .. (d - 1) /\ c * d + 0 = c * d
    BY <2>4, <2>5
  <2>8. (c * d + 0) \div d = c
    BY <2>1, <2>7, DivModUnique
  <2> QED BY <2>4, <2>6, <2>7, <2>8
<1> QED BY <1>1, <1>3, <1>6, <1>7, <1>8

LEMMA DivMono ==
  ASSUME NEW a \in Nat, NEW b \in Nat, NEW d \in Nat \ {0}, a <= b
  PROVE  a \div d <= b \div d
<1>1. PICK q, r, p, s : q = a \div d /\ r = a % d /\ p = b \div d /\ s = b % d
  OBVIOUS
<1>2. q \in Nat /\ r \in 0 .. (d - 1) /\ a = q * d + r
  BY <1>1, DivMod
<1>3. p \in Nat /\ s \in 0 .. (d - 1) /\ b = p * d + s
  BY <1>1, DivMod
<1> SUFFICES ASSUME p + 1 <= q PROVE FALSE
  BY <1>1, <1>2, <1>3
<1>4. (p + 1) * d <= q * d
  BY <1>2, <1>3, MulMono
<1>5. (p + 1) * d = p * d + d
  BY <1>3
<1>6. PICK u, v : u = p * d /\ v = q * d
  OBVIOUS
<1>7. u \in Nat /\ v \in Nat
  BY <1>2, <1>3, <1>6, MulNat
<1> QED BY <1>2, <1>3, <1>4, <1>5, <1>6, <1>7

BlocksHigh == (h + Block - 1) \div Block

LEMMA BlockSizes ==
  ASSUME Plane
  PROVE  /\ BlocksWide \in Nat \ {0} /\ BlocksHigh \in Nat \ {0}
         /\ BlocksWide * BlocksHigh \in Nat /\ BlocksWide * BlocksHigh > 0
         /\ BlockIds = 0 .. (BlocksWide * BlocksHigh - 1)
         /\ Cardinality(BlockIds) = BlocksWide * BlocksHigh
<1>1. BlocksWide \in Nat \ {0} /\ BlocksHigh \in Nat \ {0}
  BY BandCoderAssumption, Covering DEF Plane, BlocksWide, BlocksHigh
<1>2. PICK a : a = BlocksWide * BlocksHigh
  OBVIOUS
<1>3. a \in Nat /\ a > 0
  BY <1>1, <1>2, MulNat
<1>4. BlockIds = 0 .. (a - 1)
  BY <1>2 DEF BlockIds, BlocksHigh
<1>5. 0 \in Int /\ a - 1 \in Int
  BY <1>3
<1>6. Cardinality(0 .. (a - 1)) = IF 0 > a - 1 THEN 0 ELSE (a - 1) - 0 + 1
  BY <1>5, FS_Interval
<1> QED BY <1>1, <1>2, <1>3, <1>4, <1>6

LEMMA BlockFacts ==
  ASSUME Plane, NEW n \in Cells
  PROVE  /\ X(n) \div Block \in 0 .. BlocksWide - 1
         /\ Y(n) \div Block \in 0 .. BlocksHigh - 1
         /\ BlockOf(n) \in BlockIds
<1>1. X(n) \div Block \in 0 .. BlocksWide - 1 /\ Y(n) \div Block \in 0 .. BlocksHigh - 1
  BY BandCoderAssumption, CellFacts, Covering DEF Plane, BlocksWide, BlocksHigh
<1>2. PICK x, y : x = X(n) \div Block /\ y = Y(n) \div Block
  OBVIOUS
<1>3. PICK bw, bh : bw = BlocksWide /\ bh = BlocksHigh
  OBVIOUS
<1>4. bw \in Nat \ {0} /\ bh \in Nat \ {0} /\ BlockIds = 0 .. (bw * bh - 1)
  BY <1>3, BlockSizes
<1>5. x \in 0 .. bw - 1 /\ y \in 0 .. bh - 1
  BY <1>1, <1>2, <1>3
<1>6. (y + 1) * bw <= bh * bw
  BY <1>4, <1>5, MulMono
<1>7. (y + 1) * bw = y * bw + bw
  BY <1>4, <1>5
<1>8. bh * bw = bw * bh /\ y * bw = bw * y /\ bw * y \in Nat /\ bw * bh \in Nat
  BY <1>4, <1>5, MulNat
<1>9. PICK u, v : u = bw * y /\ v = bw * bh
  OBVIOUS
<1>10. u + bw <= v /\ u \in Nat /\ v \in Nat
  BY <1>6, <1>7, <1>8, <1>9
<1>11. x + u \in 0 .. (v - 1)
  BY <1>4, <1>5, <1>10
<1>12. BlockOf(n) = x + u
  BY <1>2, <1>3, <1>9 DEF BlockOf
<1> QED BY <1>1, <1>4, <1>9, <1>11, <1>12

\* No block is empty.
LEMMA BlockHasCells ==
  ASSUME Plane, NEW b \in BlockIds
  PROVE  CellsOf(b) # {}
<1>1. PICK bw, bh : bw = BlocksWide /\ bh = BlocksHigh
  OBVIOUS
<1>2. bw \in Nat \ {0} /\ bh \in Nat \ {0} /\ b \in 0 .. (bw * bh - 1) /\ bw * bh \in Nat
  BY <1>1, BlockSizes
<1>3. PICK y, x : y = b \div bw /\ x = b % bw
  OBVIOUS
<1>4. b \in Nat
  BY <1>2
<1>5. y \in Nat /\ x \in 0 .. (bw - 1) /\ b = y * bw + x
  BY <1>2, <1>3, <1>4, DivMod
<1>6. y < bh
  <2> SUFFICES ASSUME bh <= y PROVE FALSE
    BY <1>2, <1>5
  <2>1. bh * bw <= y * bw
    BY <1>2, <1>5, MulMono
  <2>2. bh * bw = bw * bh /\ y * bw \in Nat
    BY <1>2, <1>5, MulNat
  <2>3. PICK u, v : u = y * bw /\ v = bw * bh
    OBVIOUS
  <2> QED BY <1>2, <1>5, <2>1, <2>2, <2>3
<1>7. y \in 0 .. bh - 1
  BY <1>5, <1>6, <1>2
<1>8. /\ x * Block \in 0 .. w - 1 /\ (x * Block) \div Block = x
      /\ y * Block \in 0 .. h - 1 /\ (y * Block) \div Block = y
  BY <1>1, <1>5, <1>7, BandCoderAssumption, Covering, SMTT(30) DEF Plane, BlocksWide, BlocksHigh
<1>9. PICK n : n = (y * Block) * w + x * Block
  OBVIOUS
<1>10. n \in Cells /\ X(n) = x * Block /\ Y(n) = y * Block
  BY <1>8, <1>9, CellMade
<1>11. BlockOf(n) = x + bw * y
  BY <1>1, <1>8, <1>10 DEF BlockOf
<1>12. bw * y = y * bw /\ bw * y \in Nat
  BY <1>2, <1>5, MulNat
<1>13. PICK u : u = y * bw
  OBVIOUS
<1>14. BlockOf(n) = b
  BY <1>5, <1>11, <1>12, <1>13
<1> QED BY <1>10, <1>14 DEF CellsOf

--------------------------------------------------------------------------------
(* The order of the scan *)

Before(m, n) == IF Blocks THEN Earlier(m, n) ELSE m < n

\* What lies to the left or above in the plane comes before.
LEMMA NeighbourBefore ==
  ASSUME Plane, NEW n \in Cells, NEW dx \in Nat, NEW dy \in Nat, dx <= X(n), dy <= Y(n),
         dx + dy > 0
  PROVE  /\ n - dy * w - dx \in Cells
         /\ Before(n - dy * w - dx, n)
         /\ X(n - dy * w - dx) = X(n) - dx /\ Y(n - dy * w - dx) = Y(n) - dy
<1>1. PICK x, y : x = X(n) /\ y = Y(n)
  OBVIOUS
<1>2. n \in Nat /\ x \in 0 .. w - 1 /\ y \in 0 .. h - 1 /\ n = y * w + x
  BY <1>1, CellFacts
<1>3. PICK m : m = n - dy * w - dx
  OBVIOUS
<1>4. (y - dy) * w = y * w - dy * w /\ y * w \in Nat /\ dy * w \in Nat
  <2>1. y \in Int /\ dy \in Int /\ w \in Int /\ y \in Nat /\ w \in Nat
    BY <1>2 DEF Plane
  <2> QED BY <2>1, MulAdd, MulNat
<1>5. m = (y - dy) * w + (x - dx)
  <2>1. PICK u, v : u = y * w /\ v = dy * w
    OBVIOUS
  <2> QED BY <1>2, <1>3, <1>4, <2>1
<1>6. x - dx \in 0 .. w - 1 /\ y - dy \in 0 .. h - 1
  BY <1>1, <1>2 DEF Plane
<1>7. m \in Cells /\ X(m) = x - dx /\ Y(m) = y - dy
  BY <1>5, <1>6, CellMade
<1>8. m < n
  <2>1. dy > 0 => dy * w > 0
    BY MulNat DEF Plane
  <2>2. PICK v : v = dy * w
    OBVIOUS
  <2>3. v \in Nat /\ (v > 0 \/ dx > 0) /\ m = n - v - dx
    BY <1>3, <1>4, <2>1, <2>2
  <2> QED BY <1>2, <2>3
<1>9. BlockOf(m) <= BlockOf(n)
  <2>1. X(m) \div Block <= x \div Block /\ Y(m) \div Block <= y \div Block
    <3>1. X(m) \in Nat /\ Y(m) \in Nat /\ x \in Nat /\ y \in Nat /\ X(m) <= x /\ Y(m) <= y
      BY <1>2, <1>6, <1>7
    <3> QED BY <3>1, DivMono, BandCoderAssumption
  <2>2. PICK a, b, c, d : a = X(m) \div Block /\ b = x \div Block /\ c = Y(m) \div Block /\ d = y \div Block
    OBVIOUS
  <2>3. a \in Nat /\ b \in Nat /\ c \in Nat /\ d \in Nat /\ BlocksWide \in Nat
    BY <1>1, <1>7, <2>2, BlockFacts, BlockSizes
  <2>4. c * BlocksWide <= d * BlocksWide
    BY <2>1, <2>2, <2>3, MulMono
  <2>5. c * BlocksWide = BlocksWide * c /\ d * BlocksWide = BlocksWide * d
        /\ BlocksWide * c \in Nat /\ BlocksWide * d \in Nat
    BY <2>3, MulNat
  <2>6. BlockOf(m) = a + BlocksWide * c /\ BlockOf(n) = b + BlocksWide * d
    BY <1>1, <2>2 DEF BlockOf
  <2>7. PICK u, v : u = BlocksWide * c /\ v = BlocksWide * d
    OBVIOUS
  <2> QED BY <2>1, <2>2, <2>3, <2>4, <2>5, <2>6, <2>7
<1>10. Before(m, n)
  <2>1. BlockOf(m) \in Int /\ BlockOf(n) \in Int
    BY <1>7, BlockFacts, BlockSizes
  <2> QED BY <1>8, <1>9, <2>1 DEF Before, Earlier
<1> QED BY <1>1, <1>3, <1>7, <1>10

LEMMA BlockNat ==
  ASSUME Plane, NEW n \in Cells
  PROVE  n \in Nat /\ BlockOf(n) \in Nat
BY BlockFacts, BlockSizes, CellFacts

LEMMA BeforeOrders ==
  ASSUME Plane
  PROVE  /\ \A m, n \in Cells : m # n => Before(m, n) \/ Before(n, m)
         /\ \A n \in Cells : ~Before(n, n)
         /\ \A l, m, n \in Cells : Before(l, m) /\ Before(m, n) => Before(l, n)
<1>1. \A n \in Cells : n \in Nat /\ BlockOf(n) \in Nat
  BY BlockNat
<1>2. ASSUME NEW m \in Cells, NEW n \in Cells, m # n PROVE Before(m, n) \/ Before(n, m)
  BY <1>1, <1>2 DEF Before, Earlier
<1>3. ASSUME NEW n \in Cells PROVE ~Before(n, n)
  BY <1>1 DEF Before, Earlier
<1>4. ASSUME NEW l \in Cells, NEW m \in Cells, NEW n \in Cells, Before(l, m), Before(m, n)
      PROVE  Before(l, n)
  BY <1>1, <1>4 DEF Before, Earlier
<1> QED BY <1>2, <1>3, <1>4

Rank(n) == Cardinality({m \in Cells : Before(m, n)})

LEMMA RankFacts ==
  ASSUME Plane
  PROVE  /\ \A n \in Cells : Rank(n) \in 0 .. (w * h - 1)
         /\ \A m, n \in Cells : Before(m, n) <=> Rank(m) < Rank(n)
         /\ \A m, n \in Cells : Rank(m) = Rank(n) => m = n
<1>1. IsFiniteSet(Cells) /\ Cardinality(Cells) = w * h /\ w * h \in Nat
  BY AreaFacts
<1>2. \A m, n \in Cells : m # n => Before(m, n) \/ Before(n, m)
  BY BeforeOrders
<1>3. \A n \in Cells : ~Before(n, n)
  BY BeforeOrders
<1>4. \A l, m, n \in Cells : Before(l, m) /\ Before(m, n) => Before(l, n)
  BY BeforeOrders
<1>5. ASSUME NEW T \in SUBSET Cells
      PROVE  IsFiniteSet(T) /\ Cardinality(T) \in Nat
  BY <1>1, FS_Subset, FS_CardinalityType
<1>6. ASSUME NEW S \in SUBSET Cells, NEW T \in SUBSET S, NEW x \in S, x \notin T
      PROVE  Cardinality(T) < Cardinality(S)
  <2>1. IsFiniteSet(S) /\ Cardinality(S) \in Nat /\ Cardinality(T) \in Nat
    BY <1>5
  <2>2. Cardinality(T) <= Cardinality(S) /\ (Cardinality(S) = Cardinality(T) => S = T)
    BY <2>1, FS_Subset
  <2> QED BY <1>6, <2>1, <2>2
<1>7. ASSUME NEW n \in Cells PROVE Rank(n) \in 0 .. (w * h - 1)
  <2>1. Rank(n) \in Nat
    BY <1>5 DEF Rank
  <2>2. Rank(n) < Cardinality(Cells)
    BY <1>3, <1>6 DEF Rank
  <2> QED BY <1>1, <2>1, <2>2
<1>8. ASSUME NEW m \in Cells, NEW n \in Cells, Before(m, n) PROVE Rank(m) < Rank(n)
  <2>1. {l \in Cells : Before(l, m)} \in SUBSET {l \in Cells : Before(l, n)}
    BY <1>4, <1>8
  <2>2. m \in {l \in Cells : Before(l, n)} /\ m \notin {l \in Cells : Before(l, m)}
    BY <1>3, <1>8
  <2> QED BY <1>6, <2>1, <2>2 DEF Rank
<1>9. \A n \in Cells : Rank(n) \in Nat
  BY <1>7
<1>10. ASSUME NEW m \in Cells, NEW n \in Cells, Rank(m) < Rank(n) PROVE Before(m, n)
  BY <1>2, <1>8, <1>9, <1>10
<1>11. ASSUME NEW m \in Cells, NEW n \in Cells, Rank(m) = Rank(n) PROVE m = n
  BY <1>2, <1>8, <1>9, <1>11
<1> QED BY <1>7, <1>8, <1>10, <1>11

\* Every rank is taken.
LEMMA RankOnto ==
  ASSUME Plane, NEW r \in 0 .. (w * h - 1)
  PROVE  \E n \in Cells : Rank(n) = r
<1>1. PICK f : f = [n \in Cells |-> Rank(n)]
  OBVIOUS
<1>2. PICK a : a = w * h
  OBVIOUS
<1>3. a \in Nat /\ a > 0 /\ IsFiniteSet(Cells) /\ Cardinality(Cells) = a
  BY <1>2, AreaFacts
<1>4. f \in Injection(Cells, 0 .. (a - 1))
  BY <1>1, <1>2, RankFacts DEF Injection, IsInjective
<1>5. IsFiniteSet(0 .. (a - 1)) /\ Cardinality(0 .. (a - 1)) = a
  <2>1. 0 \in Int /\ a - 1 \in Int
    BY <1>3
  <2>2. IsFiniteSet(0 .. (a - 1)) /\ Cardinality(0 .. (a - 1)) = IF 0 > a - 1 THEN 0 ELSE (a - 1) - 0 + 1
    BY <2>1, FS_Interval
  <2> QED BY <1>3, <2>2
<1>6. f \in Surjection(Cells, 0 .. (a - 1))
  BY <1>3, <1>4, <1>5, FS_Injection
<1>7. \E n \in Cells : f[n] = r
  BY <1>2, <1>6 DEF Surjection
<1> QED BY <1>1, <1>7

LEMMA ScanFacts ==
  ASSUME Plane
  PROVE  /\ \A i \in 1 .. w * h : CellAt(i) \in Cells /\ Rank(CellAt(i)) = i - 1
         /\ \A n \in Cells : Rank(n) + 1 \in 1 .. w * h /\ CellAt(Rank(n) + 1) = n
<1>1. PICK a : a = w * h
  OBVIOUS
<1>2. a \in Nat /\ a > 0 /\ Cells = 0 .. (a - 1)
  BY <1>1, AreaFacts DEF Cells
<1>3. ASSUME Blocks, NEW i \in 1 .. w * h
      PROVE  CellAt(i) \in Cells /\ Rank(CellAt(i)) = i - 1
  <2>1. i - 1 \in 0 .. (w * h - 1)
    BY <1>1, <1>2
  <2>2. PICK n \in Cells : Rank(n) = i - 1
    BY <2>1, RankOnto
  <2>3. Rank(n) = Cardinality({m \in Cells : Earlier(m, n)})
    BY <1>3 DEF Rank, Before
  <2>4. CellAt(i) \in Cells /\ Cardinality({m \in Cells : Earlier(m, CellAt(i))}) = i - 1
    BY <1>3, <2>2, <2>3 DEF CellAt
  <2> QED BY <1>3, <2>4 DEF Rank, Before
<1>4. ASSUME ~Blocks, NEW n \in Cells PROVE Rank(n) = n
  <2>1. {m \in Cells : Before(m, n)} = 0 .. (n - 1)
    BY <1>2, <1>4 DEF Before
  <2>2. 0 \in Int /\ n - 1 \in Int /\ n \in Nat
    BY <1>2
  <2>3. Cardinality(0 .. (n - 1)) = IF 0 > n - 1 THEN 0 ELSE (n - 1) - 0 + 1
    BY <2>2, FS_Interval
  <2>4. Rank(n) = Cardinality(0 .. (n - 1))
    BY <2>1 DEF Rank
  <2> QED BY <2>2, <2>3, <2>4
<1>5. ASSUME ~Blocks, NEW i \in 1 .. w * h
      PROVE  CellAt(i) \in Cells /\ Rank(CellAt(i)) = i - 1
  <2>1. CellAt(i) = i - 1 /\ i - 1 \in Cells
    BY <1>1, <1>2, <1>5 DEF CellAt
  <2> QED BY <1>4, <1>5, <2>1
<1>6. \A i \in 1 .. w * h : CellAt(i) \in Cells /\ Rank(CellAt(i)) = i - 1
  BY <1>3, <1>5
<1>7. ASSUME NEW n \in Cells
      PROVE  Rank(n) + 1 \in 1 .. w * h /\ CellAt(Rank(n) + 1) = n
  <2>1. Rank(n) \in 0 .. (a - 1)
    BY <1>1, RankFacts
  <2>2. Rank(n) + 1 \in 1 .. w * h
    BY <1>1, <1>2, <2>1
  <2>3. CellAt(Rank(n) + 1) \in Cells /\ Rank(CellAt(Rank(n) + 1)) = (Rank(n) + 1) - 1
    BY <1>6, <2>2
  <2>4. (Rank(n) + 1) - 1 = Rank(n)
    BY <2>1
  <2> QED BY <2>2, <2>3, <2>4, RankFacts
<1> QED BY <1>6, <1>7

\* The position at which the scan comes to a block.
Start(b) == Cardinality({m \in Cells : BlockOf(m) < b}) + 1

\* In the block modes a block's cells follow each other, from Start(b) on.
LEMMA BlockInScan ==
  ASSUME Plane, Blocks, NEW b \in BlockIds
  PROVE  /\ Start(b) \in Nat \ {0} /\ Cardinality(CellsOf(b)) \in Nat \ {0}
         /\ Start(b) + Cardinality(CellsOf(b)) <= w * h + 1
         /\ \A i \in 1 .. w * h :
              /\ BlockOf(CellAt(i)) = b <=> Start(b) <= i /\ i < Start(b) + Cardinality(CellsOf(b))
              /\ BlockOf(CellAt(i)) < b <=> i < Start(b)
<1> DEFINE D == {m \in Cells : BlockOf(m) < b}
           C == CellsOf(b)
<1>1. IsFiniteSet(Cells) /\ Cardinality(Cells) = w * h /\ w * h \in Nat
  BY AreaFacts
<1>2. C \in SUBSET Cells /\ D \in SUBSET Cells /\ C \cap D = {} /\ C \cup D \in SUBSET Cells
  <2>1. b \in Int
    BY BlockSizes
  <2> QED BY <2>1 DEF CellsOf
<1>3. ASSUME NEW S \in SUBSET Cells, NEW T \in SUBSET S
      PROVE  Cardinality(S) \in Nat /\ IsFiniteSet(S) /\ Cardinality(T) <= Cardinality(S)
  <2>1. IsFiniteSet(S)
    BY <1>1, FS_Subset
  <2> QED BY <2>1, FS_Subset, FS_CardinalityType
<1>4. Cardinality(C \cup D) = Cardinality(C) + Cardinality(D)
  <2>1. IsFiniteSet(C) /\ IsFiniteSet(D) /\ Cardinality(C) \in Nat /\ Cardinality(D) \in Nat
    BY <1>2, <1>3
  <2>2. Cardinality(C \cup D) = Cardinality(C) + Cardinality(D) - Cardinality(C \cap D)
    BY <2>1, FS_Union
  <2>3. Cardinality(C \cap D) = 0
    BY <1>2, FS_EmptySet
  <2> HIDE DEF C, D
  <2> QED BY <2>1, <2>2, <2>3
<1>5. Cardinality(C) # 0
  BY <1>2, <1>3, BlockHasCells, FS_EmptySet
<1>6. PICK a, c, d : a = w * h /\ c = Cardinality(C) /\ d = Cardinality(D)
  OBVIOUS
<1>7. a \in Nat /\ c \in Nat \ {0} /\ d \in Nat /\ c + d <= a
  BY <1>1, <1>2, <1>3, <1>4, <1>5, <1>6
<1>8. \A n \in Cells : n \in Nat /\ BlockOf(n) \in Nat
  BY BlockNat
<1>9. b \in Nat
  BY BlockSizes
<1> HIDE DEF C, D
<1>10. ASSUME NEW n \in Cells, BlockOf(n) < b PROVE Rank(n) < d
  <2>1. {m \in Cells : Before(m, n)} \in SUBSET (D \ {n})
    BY <1>8, <1>9, <1>10 DEF D, Before, Earlier
  <2>2. n \in D
    BY <1>10 DEF D
  <2>3. IsFiniteSet(D) /\ Cardinality(D \ {n}) = Cardinality(D) - 1
    BY <1>2, <1>3, <2>2, FS_RemoveElement
  <2>4. D \ {n} \in SUBSET Cells
    BY <1>2
  <2>5. Cardinality({m \in Cells : Before(m, n)}) <= Cardinality(D \ {n})
    BY <1>3, <2>1, <2>4
  <2>6. Rank(n) \in Nat
    BY RankFacts
  <2> QED BY <1>6, <1>7, <2>3, <2>5, <2>6 DEF Rank
<1>11. ASSUME NEW n \in Cells, BlockOf(n) = b PROVE d <= Rank(n) /\ Rank(n) < d + c
  <2>1. D \in SUBSET {m \in Cells : Before(m, n)}
    BY <1>11 DEF D, Before, Earlier
  <2>2. {m \in Cells : Before(m, n)} \in SUBSET ((C \cup D) \ {n})
    BY <1>8, <1>9, <1>11 DEF C, D, CellsOf, Before, Earlier
  <2>3. n \in C \cup D
    BY <1>11 DEF C, CellsOf
  <2>4. IsFiniteSet(C \cup D) /\ Cardinality((C \cup D) \ {n}) = Cardinality(C \cup D) - 1
    BY <1>2, <1>3, <2>3, FS_RemoveElement
  <2>5. (C \cup D) \ {n} \in SUBSET Cells
    BY <1>2
  <2>6. Cardinality({m \in Cells : Before(m, n)}) <= Cardinality((C \cup D) \ {n})
    BY <1>3, <2>2, <2>5
  <2>7. Cardinality(D) <= Cardinality({m \in Cells : Before(m, n)})
    BY <1>3, <2>1
  <2>8. Rank(n) \in Nat
    BY RankFacts
  <2> QED BY <1>4, <1>6, <1>7, <2>4, <2>6, <2>7, <2>8 DEF Rank
<1>12. ASSUME NEW n \in Cells, BlockOf(n) > b PROVE d + c <= Rank(n)
  <2>1. C \cup D \in SUBSET {m \in Cells : Before(m, n)}
    BY <1>8, <1>9, <1>12 DEF C, D, CellsOf, Before, Earlier
  <2>2. Cardinality(C \cup D) <= Cardinality({m \in Cells : Before(m, n)})
    BY <1>3, <2>1
  <2> QED BY <1>4, <1>6, <1>7, <2>2 DEF Rank
<1>13. Start(b) = d + 1 /\ Cardinality(CellsOf(b)) = c
  BY <1>6 DEF Start, C, D
<1>14. ASSUME NEW i \in 1 .. w * h
       PROVE  /\ BlockOf(CellAt(i)) = b <=> d + 1 <= i /\ i < d + 1 + c
              /\ BlockOf(CellAt(i)) < b <=> i < d + 1
  <2>1. PICK n : n = CellAt(i)
    OBVIOUS
  <2>2. n \in Cells /\ Rank(n) = i - 1 /\ BlockOf(n) \in Nat
    BY <1>8, <2>1, ScanFacts
  <2>3. i \in Nat
    OBVIOUS
  <2>4. BlockOf(n) < b => i - 1 < d
    BY <1>10, <2>2
  <2>5. BlockOf(n) = b => d <= i - 1 /\ i - 1 < d + c
    BY <1>11, <2>2
  <2>6. BlockOf(n) > b => d + c <= i - 1
    BY <1>12, <2>2
  <2>7. BlockOf(n) < b \/ BlockOf(n) = b \/ BlockOf(n) > b
    BY <1>9, <2>2
  <2> QED BY <1>7, <1>9, <2>1, <2>2, <2>3, <2>4, <2>5, <2>6, <2>7
<1> QED BY <1>6, <1>7, <1>13, <1>14

--------------------------------------------------------------------------------
(* What stays as it is while the band is coded and decoded *)

LEMMA SteadyPlane ==
  ASSUME UNCHANGED job
  PROVE  /\ Cells' = Cells
         /\ \A n : X(n)' = X(n)
         /\ \A n : Y(n)' = Y(n)
         /\ (Blocks' <=> Blocks)
         /\ BlocksWide' = BlocksWide
         /\ BlockIds' = BlockIds
         /\ \A n : BlockOf(n)' = BlockOf(n)
         /\ \A m, n : (Earlier(m, n)' <=> Earlier(m, n))
         /\ \A i : CellAt(i)' = CellAt(i)
         /\ \A b : CellsOf(b)' = CellsOf(b)
         /\ \A b : Start(b)' = Start(b)
<1>1. Cells' = Cells
  BY DEF Cells, job
<1>2. \A n : X(n)' = X(n)
  BY DEF X, job
<1>3. \A n : Y(n)' = Y(n)
  BY DEF Y, job
<1>4. (Blocks' <=> Blocks)
  BY DEF Blocks, job
<1>5. BlocksWide' = BlocksWide
  BY DEF BlocksWide, job
<1>6. BlockIds' = BlockIds
  BY <1>5 DEF BlockIds, job
<1>7. \A n : BlockOf(n)' = BlockOf(n)
  BY <1>2, <1>3, <1>5 DEF BlockOf, job
<1>8. \A m, n : (Earlier(m, n)' <=> Earlier(m, n))
  BY <1>7 DEF Earlier, job
<1>9. ASSUME NEW i PROVE CellAt(i)' = CellAt(i)
  <2>1. \A n : {m \in Cells' : Earlier(m, n)'} = {m \in Cells : Earlier(m, n)}
    BY <1>1, <1>8
  <2>2. (CHOOSE n \in Cells' : Cardinality({m \in Cells' : Earlier(m, n)'}) = i - 1)
        = (CHOOSE n \in Cells : Cardinality({m \in Cells : Earlier(m, n)}) = i - 1)
    BY <2>1, <1>1, Zenon
  <2>3. CASE Blocks
    <3>1. Blocks'
      BY <2>3, <1>4
    <3>2. CellAt(i)' = CHOOSE n \in Cells' : Cardinality({m \in Cells' : Earlier(m, n)'}) = i - 1
      BY <3>1, Zenon DEF CellAt
    <3>3. CellAt(i) = CHOOSE n \in Cells : Cardinality({m \in Cells : Earlier(m, n)}) = i - 1
      BY <2>3, Zenon DEF CellAt
    <3> QED BY <2>2, <3>2, <3>3, Zenon
  <2>4. CASE ~Blocks
    <3>1. ~Blocks'
      BY <2>4, <1>4
    <3> QED BY <2>4, <3>1 DEF CellAt
  <2> QED BY <2>3, <2>4
<1>10. \A b : CellsOf(b)' = CellsOf(b)
  BY <1>1, <1>7 DEF CellsOf, job
<1>11. \A b : Start(b)' = Start(b)
  BY <1>1, <1>7 DEF Start, job
<1> QED BY <1>1, <1>2, <1>3, <1>4, <1>5, <1>6, <1>7, <1>8, <1>9, <1>10, <1>11

--------------------------------------------------------------------------------
(* What a side computes *)

ParentCells == 0 .. (ParentSize[1] * ParentSize[2] - 1)

JobOK == /\ mode \in 3 .. 24 /\ base \in BOOLEAN /\ Plane
         /\ band \in [Cells -> Int]
         /\ ~base => parent \in [ParentCells -> Int]
         /\ k0 \in 0 .. MaxK

Sided(s) == /\ s.cells \in [Cells -> Int]
            /\ ~base => s.parent \in [ParentCells -> Int]
            /\ s.scale \in Nat
            /\ s.k \in 0 .. MaxK /\ s.vk \in 0 .. MaxK

LEMMA Neighbours ==
  ASSUME Plane, NEW n \in Cells
  PROVE  /\ X(n) > 0 => n - 1 \in Cells /\ Before(n - 1, n)
         /\ Y(n) > 0 => n - w \in Cells /\ Before(n - w, n)
         /\ X(n) > 0 /\ Y(n) > 0 => n - w - 1 \in Cells /\ Before(n - w - 1, n)
         /\ X(n) > 1 => n - 2 \in Cells /\ Before(n - 2, n)
         /\ Y(n) > 1 => n - 2 * w \in Cells /\ Before(n - 2 * w, n)
         /\ X(n) > 0 /\ Y(n) > 0 => n - w + 1 \in Cells /\ n - w + 1 < n
<1>1. n \in Nat /\ X(n) \in Nat /\ X(n) < w /\ Y(n) \in Nat /\ w \in Nat
  BY CellFacts DEF Plane
<1>2. /\ n - 0 * w - 1 = n - 1 /\ n - 1 * w - 0 = n - w /\ n - 1 * w - 1 = n - w - 1
      /\ n - 0 * w - 2 = n - 2 /\ n - 2 * w - 0 = n - 2 * w
  BY <1>1
<1>3. ASSUME X(n) > 0 PROVE n - 1 \in Cells /\ Before(n - 1, n)
  <2>1. n - 0 * w - 1 \in Cells /\ Before(n - 0 * w - 1, n)
    BY <1>1, <1>3, NeighbourBefore, SMTT(30)
  <2> QED BY <1>2, <2>1
<1>4. ASSUME Y(n) > 0 PROVE n - w \in Cells /\ Before(n - w, n)
  <2>1. PICK dx, dy : dx = 0 /\ dy = 1
    OBVIOUS
  <2>2. dx \in Nat /\ dy \in Nat /\ dx <= X(n) /\ dy <= Y(n) /\ dx + dy > 0
    BY <1>1, <1>4, <2>1
  <2>3. n - dy * w - dx \in Cells /\ Before(n - dy * w - dx, n)
    BY <2>2, NeighbourBefore
  <2> QED BY <1>1, <1>2, <2>1, <2>3
<1>5. ASSUME X(n) > 0, Y(n) > 0 PROVE n - w - 1 \in Cells /\ Before(n - w - 1, n)
  <2>1. PICK dx, dy : dx = 1 /\ dy = 1
    OBVIOUS
  <2>2. dx \in Nat /\ dy \in Nat /\ dx <= X(n) /\ dy <= Y(n) /\ dx + dy > 0
    BY <1>1, <1>5, <2>1
  <2>3. n - dy * w - dx \in Cells /\ Before(n - dy * w - dx, n)
    BY <2>2, NeighbourBefore
  <2> QED BY <1>1, <1>2, <2>1, <2>3
<1>6. ASSUME X(n) > 1 PROVE n - 2 \in Cells /\ Before(n - 2, n)
  <2>1. n - 0 * w - 2 \in Cells /\ Before(n - 0 * w - 2, n)
    BY <1>1, <1>6, NeighbourBefore, SMTT(30)
  <2> QED BY <1>2, <2>1
<1>7. ASSUME Y(n) > 1 PROVE n - 2 * w \in Cells /\ Before(n - 2 * w, n)
  <2>1. PICK dx, dy : dx = 0 /\ dy = 2
    OBVIOUS
  <2>2. dx \in Nat /\ dy \in Nat /\ dx <= X(n) /\ dy <= Y(n) /\ dx + dy > 0
    BY <1>1, <1>7, <2>1
  <2>3. n - dy * w - dx \in Cells /\ Before(n - dy * w - dx, n)
    BY <2>2, NeighbourBefore
  <2> QED BY <1>1, <1>2, <2>1, <2>3
<1>8. ASSUME X(n) > 0, Y(n) > 0 PROVE n - w + 1 \in Cells /\ n - w + 1 < n
  <2>1. n - w \in Nat /\ n < w * h
    BY <1>4, <1>8, CellFacts
  <2>2. PICK a : a = w * h
    OBVIOUS
  <2>3. a \in Nat
    BY <2>2, AreaFacts
  <2>4. n - w + 1 \in Nat /\ n - w + 1 < n
    BY <1>1, <1>8, <2>1
  <2> QED BY <1>1, <2>1, <2>2, <2>3, <2>4 DEF Cells
<1> QED BY <1>3, <1>4, <1>5, <1>6, <1>7, <1>8

LEMMA NeighboursTyped ==
  ASSUME Plane, NEW s, Sided(s), NEW n \in Cells
  PROVE  /\ Left(s, n) \in Int /\ Above(s, n) \in Int /\ AboveLeft(s, n) \in Int
         /\ X(n) > 1 => s.cells[n - 2] \in Int
         /\ Y(n) > 1 => s.cells[n - 2 * w] \in Int
         /\ X(n) > 0 /\ Y(n) > 0 => s.cells[n - w + 1] \in Int
<1>1. /\ X(n) > 0 => n - 1 \in Cells
      /\ Y(n) > 0 => n - w \in Cells
      /\ X(n) > 0 /\ Y(n) > 0 => n - w - 1 \in Cells
      /\ X(n) > 1 => n - 2 \in Cells
      /\ Y(n) > 1 => n - 2 * w \in Cells
      /\ X(n) > 0 /\ Y(n) > 0 => n - w + 1 \in Cells
  BY Neighbours
<1>2. \A m \in Cells : s.cells[m] \in Int
  BY DEF Sided
<1> QED BY <1>1, <1>2 DEF Left, Above, AboveLeft

LEMMA ParentCellTyped ==
  ASSUME NEW x \in Nat, NEW y \in Nat
  PROVE  ParentCell(x, y) \in ParentCells
<1>1. PICK pw, ph : pw = ParentSize[1] /\ ph = ParentSize[2]
  OBVIOUS
<1>2. pw \in Nat \ {0} /\ ph \in Nat \ {0}
  BY <1>1, BandCoderAssumption
<1>3. PICK u, v : u = Min({x, pw - 1}) /\ v = Min({y, ph - 1})
  OBVIOUS
<1>4. u \in 0 .. pw - 1 /\ v \in 0 .. ph - 1
  <2>1. x \in Int /\ y \in Int /\ pw - 1 \in Int /\ ph - 1 \in Int
    BY <1>2
  <2>2. Min({x, pw - 1}) = IF x <= pw - 1 THEN x ELSE pw - 1
    BY <2>1, Two
  <2>3. Min({y, ph - 1}) = IF y <= ph - 1 THEN y ELSE ph - 1
    BY <2>1, Two
  <2> QED BY <1>2, <1>3, <2>2, <2>3
<1>5. ParentCell(x, y) = v * pw + u
  BY <1>1, <1>3 DEF ParentCell
<1>6. (v + 1) * pw <= ph * pw /\ (v + 1) * pw = v * pw + pw
  BY <1>2, <1>4, MulMono
<1>7. ph * pw = pw * ph /\ pw * ph \in Nat /\ v * pw \in Nat
  BY <1>2, <1>4, MulNat
<1>8. PICK a, b : a = v * pw /\ b = pw * ph
  OBVIOUS
<1> QED BY <1>1, <1>2, <1>4, <1>5, <1>6, <1>7, <1>8 DEF ParentCells

LEMMA ParentBlockFacts ==
  ASSUME JobOK, ~base, NEW s, s.parent \in [ParentCells -> Int],
         s.scale \in Nat, NEW n \in Cells
  PROVE  \A d \in {0, 1} \X {0, 1} : ParentBlock(s, n)[d] \in Nat
<1>1. X(n) \in Nat /\ Y(n) \in Nat
  BY CellFacts DEF JobOK, Plane
<1>2. PICK x, y : x = Min({X(n) \div 2, ParentSize[1] - 1}) /\ y = Min({Y(n) \div 2, ParentSize[2] - 1})
  OBVIOUS
<1>3. x \in Nat /\ y \in Nat
  <2>1. X(n) \div 2 \in Nat /\ Y(n) \div 2 \in Nat /\ ParentSize[1] - 1 \in Nat /\ ParentSize[2] - 1 \in Nat
    <3>1. ParentSize[1] \in Nat \ {0} /\ ParentSize[2] \in Nat \ {0}
      BY BandCoderAssumption
    <3>2. X(n) \div 2 \in Nat /\ Y(n) \div 2 \in Nat
      BY <1>1
    <3> QED BY <3>1, <3>2
  <2>2. PICK a, b, c, e : a = X(n) \div 2 /\ b = ParentSize[1] - 1 /\ c = Y(n) \div 2 /\ e = ParentSize[2] - 1
    OBVIOUS
  <2>3. a \in Nat /\ b \in Nat /\ c \in Nat /\ e \in Nat
    BY <2>1, <2>2
  <2>4. Min({a, b}) = (IF a <= b THEN a ELSE b) /\ Min({c, e}) = IF c <= e THEN c ELSE e
    BY <2>3, Two
  <2> QED BY <1>2, <2>2, <2>3, <2>4
<1>4. ASSUME NEW d \in {0, 1} \X {0, 1} PROVE ParentBlock(s, n)[d] \in Nat
  <2>1. ParentBlock(s, n)[d] = (Abs(s.parent[ParentCell(x + d[1], y + d[2])]) * s.scale) \div Steps[1]
    BY <1>2 DEF ParentBlock
  <2>2. ParentCell(x + d[1], y + d[2]) \in ParentCells
    <3>1. x + d[1] \in Nat /\ y + d[2] \in Nat
      BY <1>3
    <3> QED BY <3>1, ParentCellTyped
  <2>3. PICK v : v = s.parent[ParentCell(x + d[1], y + d[2])]
    OBVIOUS
  <2>4. v \in Int /\ Abs(v) \in Nat
    BY <2>2, <2>3, AbsNat
  <2>5. PICK p : p = Abs(v) * s.scale
    OBVIOUS
  <2>6. p \in Nat
    BY <2>4, <2>5, MulNat
  <2>7. p \div Steps[1] \in Nat
    <3>1. Steps[1] \in Nat \ {0}
      BY BandCoderAssumption
    <3> QED BY <2>6, <3>1, DivMod
  <2> QED BY <2>1, <2>3, <2>5, <2>7
<1> QED BY <1>4

LEMMA MeanTyped ==
  ASSUME JobOK, ~base, NEW s, s.parent \in [ParentCells -> Int],
         s.scale \in Nat, NEW n \in Cells
  PROVE  PMean(s, n) \in Nat
<1>1. PICK b : b = ParentBlock(s, n)
  OBVIOUS
<1>2. b[<<0, 0>>] \in Nat /\ b[<<1, 0>>] \in Nat /\ b[<<0, 1>>] \in Nat /\ b[<<1, 1>>] \in Nat
  BY <1>1, ParentBlockFacts
<1>3. PMean(s, n) = (b[<<0, 0>>] + b[<<1, 0>>] + b[<<0, 1>>] + b[<<1, 1>>] + 2) \div 4
  BY <1>1 DEF PMean
<1>4. PICK p, q, r, u : p = b[<<0, 0>>] /\ q = b[<<1, 0>>] /\ r = b[<<0, 1>>] /\ u = b[<<1, 1>>]
  OBVIOUS
<1>5. p \in Nat /\ q \in Nat /\ r \in Nat /\ u \in Nat
  BY <1>2, <1>4, Zenon
<1>6. PMean(s, n) = (p + q + r + u + 2) \div 4
  BY <1>3, <1>4, Zenon
<1> QED BY <1>5, <1>6

LEMMA ClassTyped ==
  ASSUME JobOK, ~base, NEW s, s.parent \in [ParentCells -> Int],
         s.scale \in Nat, NEW n \in Cells
  PROVE  PClass(s, n) \in 0 .. 3
<1>1. PICK b : b = ParentBlock(s, n)
  OBVIOUS
<1>2. b[<<0, 0>>] \in Nat /\ b[<<1, 0>>] \in Nat /\ b[<<0, 1>>] \in Nat /\ b[<<1, 1>>] \in Nat
  BY <1>1, ParentBlockFacts
<1>3. PICK S : S = {b[d] : d \in DOMAIN b}
  OBVIOUS
<1>4. DOMAIN b = {0, 1} \X {0, 1}
  BY <1>1 DEF ParentBlock
<1>5. \A d \in DOMAIN b : b[d] \in Nat
  BY <1>1, <1>4, ParentBlockFacts
<1>6. S = {b[<<0, 0>>], b[<<1, 0>>], b[<<0, 1>>], b[<<1, 1>>]}
  <2>1. DOMAIN b = {<<0, 0>>, <<1, 0>>, <<0, 1>>, <<1, 1>>}
    BY <1>4
  <2> QED BY <1>3, <2>1
<1>7. PICK p, q, r, u : p = b[<<0, 0>>] /\ q = b[<<1, 0>>] /\ r = b[<<0, 1>>] /\ u = b[<<1, 1>>]
  OBVIOUS
<1>8. p \in Nat /\ q \in Nat /\ r \in Nat /\ u \in Nat
  BY <1>2, <1>7, Zenon
<1>9. Max(S) \in Nat
  <2>1. S = {p, q, r, u}
    BY <1>6, <1>7, Zenon
  <2>2. p + q + r + u \in Nat /\ S \in SUBSET (0 .. p + q + r + u) /\ S # {}
    BY <1>8, <2>1
  <2>3. Max(S) \in S
    BY <2>2, MaxExists
  <2> QED BY <1>8, <2>1, <2>3
<1>10. PClass(s, n) = MagClass(Max(S))
  BY <1>1, <1>3 DEF PClass
<1> QED BY <1>9, <1>10 DEF MagClass

LEMMA MedianTyped ==
  ASSUME NEW a \in Int, NEW b \in Int, NEW c \in Int
  PROVE  Median(a, b, c) \in Int /\ Clamp(c, a, b) \in Int
<1>1. PICK u, v : u = Max({a, b}) /\ v = Min({a, b})
  OBVIOUS
<1>2. u \in Int /\ v \in Int
  BY <1>1, Two
<1>3. Median(a, b, c) \in Int
  BY <1>1, <1>2 DEF Median
<1>4. PICK t : t = Min({c, u})
  OBVIOUS
<1>5. t \in Int
  BY <1>2, <1>4, Two
<1>6. Max({t, v}) \in Int
  BY <1>2, <1>5, Two
<1>7. Clamp(c, a, b) = Max({t, v})
  BY <1>1, <1>4 DEF Clamp
<1> QED BY <1>3, <1>6, <1>7

LEMMA QuotientInt ==
  ASSUME NEW a \in Int
  PROVE  Quotient(a, 2) \in Int /\ Quotient(a, 4) \in Int
BY DEF Quotient

LEMMA GapTyped ==
  ASSUME Plane, NEW s, Sided(s), NEW n \in Cells
  PROVE  Gap(s, n) \in Int
<1>1. PICK a, b, c : a = Left(s, n) /\ b = Above(s, n) /\ c = AboveLeft(s, n)
  OBVIOUS
<1>2. a \in Int /\ b \in Int /\ c \in Int
  BY <1>1, NeighboursTyped
<1>3. CASE X(n) = 0 \/ Y(n) = 0
  BY <1>1, <1>2, <1>3 DEF Gap
<1>4. CASE ~(X(n) = 0 \/ Y(n) = 0)
  <2>1. PICK ne : ne = s.cells[n - w + 1]
    OBVIOUS
  <2>2. ne \in Int
    <3>1. X(n) > 0 /\ Y(n) > 0
      BY <1>4, CellFacts
    <3> QED BY <2>1, <3>1, NeighboursTyped
  <2>3. PICK p : p = Quotient(a + b, 2) + Quotient(ne - c, 4)
    OBVIOUS
  <2>4. p \in Int
    <3>1. a + b \in Int /\ ne - c \in Int
      BY <1>2, <2>2
    <3> QED BY <2>3, <3>1, QuotientInt
  <2>5. /\ Quotient(p + a, 2) \in Int /\ Quotient(p + b, 2) \in Int
        /\ Quotient(3 * p + a, 4) \in Int /\ Quotient(3 * p + b, 4) \in Int
    <3>1. p + a \in Int /\ p + b \in Int /\ 3 * p + a \in Int /\ 3 * p + b \in Int
      BY <1>2, <2>4
    <3> QED BY <3>1, QuotientInt
  <2> QED BY <1>1, <1>2, <1>4, <2>1, <2>3, <2>4, <2>5 DEF Gap
<1> QED BY <1>3, <1>4

LEMMA PredictionTyped ==
  ASSUME JobOK, NEW s, Sided(s), NEW n \in Cells
  PROVE  Prediction(s, n) \in Int
<1>1. PICK a, b, c : a = Left(s, n) /\ b = Above(s, n) /\ c = AboveLeft(s, n)
  OBVIOUS
<1>2. a \in Int /\ b \in Int /\ c \in Int /\ Gap(s, n) \in Int
  BY <1>1, NeighboursTyped, GapTyped DEF JobOK
<1>3. Median(a, b, c) \in Int /\ Clamp(a + b - c, a, b) \in Int
  <2>1. a + b - c \in Int
    BY <1>2
  <2> QED BY <1>2, <2>1, MedianTyped
<1> QED BY <1>1, <1>2, <1>3 DEF Prediction

LEMMA MagPredictionTyped ==
  ASSUME JobOK, Residual, NEW s, Sided(s), NEW n \in Cells
  PROVE  MagPrediction(s, n) \in Int
<1>1. CASE mode = 9
  <2>1. PICK a, b : a = Abs(Left(s, n)) /\ b = Abs(Above(s, n))
    OBVIOUS
  <2>2. a \in Int /\ b \in Int
    BY <2>1, NeighboursTyped, AbsNat DEF JobOK
  <2>3. Min({a, b}) \in Int
    BY <2>2, Two
  <2> QED BY <1>1, <2>1, <2>3 DEF MagPrediction
<1>2. CASE mode # 9
  <2>1. ~base
    BY <1>2 DEF Residual
  <2>2. PMean(s, n) \in Nat
    BY <2>1, MeanTyped DEF Sided
  <2> QED BY <1>2, <2>2 DEF MagPrediction
<1> QED BY <1>1, <1>2

LEMMA BitTyped ==
  ASSUME NEW b
  PROVE  Bit(b) \in {0, 1}
BY DEF Bit

LEMMA SigContextTyped ==
  ASSUME NEW s, NEW n
  PROVE  /\ SigContext(s, n) \in 0 .. 7 /\ SecondOrder(s, n) \in 0 .. 31
         /\ SignContext(s, n) \in 0 .. 3
<1>1. SigContext(s, n) \in 0 .. 7
  BY DEF SigContext, Bit
<1>2. SignContext(s, n) \in 0 .. 3
  BY DEF SignContext, Bit
<1>3. SecondOrder(s, n) \in 0 .. 31
  BY <1>1 DEF SecondOrder, Bit
<1> QED BY <1>1, <1>2, <1>3

LEMMA EnergyTyped ==
  ASSUME Plane, NEW s, Sided(s), NEW n \in Cells
  PROVE  Energy(s, n) \in 0 .. 7
<1>1. PICK a, b, c : a = Abs(Left(s, n)) /\ b = Abs(Above(s, n)) /\ c = Abs(AboveLeft(s, n))
  OBVIOUS
<1>2. a \in Nat /\ b \in Nat /\ c \in Nat
  BY <1>1, NeighboursTyped, AbsNat
<1>3. PICK e : e = a + b + c
  OBVIOUS
<1>4. e \in Nat /\ e \in Int /\ 7 \in Int
  BY <1>2, <1>3
<1>5. Min({e, 7}) = IF e <= 7 THEN e ELSE 7
  BY <1>4, Two
<1>6. Energy(s, n) = Min({e, 7})
  BY <1>1, <1>3 DEF Energy
<1> QED BY <1>4, <1>5, <1>6

LEMMA SigCtxTyped ==
  ASSUME JobOK, NEW s, Sided(s), NEW n \in Cells
  PROVE  SigCtx(s, n) \in 0 .. 39 /\ SignCtx(s, n) \in 0 .. 39
<1>1. SigContext(s, n) \in 0 .. 7 /\ SecondOrder(s, n) \in 0 .. 31 /\ SignContext(s, n) \in 0 .. 3
  BY SigContextTyped
<1>2. Energy(s, n) \in 0 .. 7
  BY EnergyTyped DEF JobOK
<1>3. ParentMag => PClass(s, n) \in 0 .. 3
  BY ClassTyped DEF ParentMag, Sided
<1>4. SigCtx(s, n) \in 0 .. 39
  BY <1>1, <1>2, <1>3 DEF SigCtx, Bit
<1>5. SignCtx(s, n) \in 0 .. 39
  BY <1>1 DEF SignCtx, Bit
<1> QED BY <1>4, <1>5

LEMMA UnaryCtxTyped ==
  ASSUME JobOK, NEW s, Sided(s), NEW n \in Cells, NEW i \in Nat
  PROVE  UnaryCtx(s, n, i) \in 0 .. 63
<1>1. ParentMag => PClass(s, n) \in 0 .. 3
  BY ClassTyped DEF ParentMag, Sided
<1>2. PICK a, b : a = MagClass(Abs(Left(s, n))) /\ b = MagClass(Abs(Above(s, n)))
  OBVIOUS
<1>3. a \in 0 .. 3 /\ b \in 0 .. 3
  <2>1. Abs(Left(s, n)) \in Nat /\ Abs(Above(s, n)) \in Nat
    BY NeighboursTyped, AbsNat DEF JobOK
  <2> QED BY <1>2, <2>1 DEF MagClass
<1>4. PICK c, d, e : c = Min({a, b}) /\ d = Min({i, 5}) /\ e = Min({i, 23})
  OBVIOUS
<1>5. c \in 0 .. 3 /\ d \in 0 .. 5 /\ e \in 0 .. 23
  <2>1. a \in Int /\ b \in Int /\ i \in Int /\ 5 \in Int /\ 23 \in Int
    BY <1>3
  <2>2. /\ Min({a, b}) = IF a <= b THEN a ELSE b
        /\ Min({i, 5}) = IF i <= 5 THEN i ELSE 5
        /\ Min({i, 23}) = IF i <= 23 THEN i ELSE 23
    BY <2>1, Two
  <2> QED BY <1>3, <1>4, <2>2
<1>6. UnaryCtx(s, n, i) = IF ParentMag THEN 36 + 6 * PClass(s, n) + d
                          ELSE IF mode \in {4, 6} THEN 24 + 6 * c + d ELSE 20 + e
  BY <1>2, <1>4 DEF UnaryCtx
<1> QED BY <1>1, <1>5, <1>6

LEMMA EventTyped ==
  ASSUME NEW c \in 0 .. NumCtx - 1, NEW f \in BOOLEAN, NEW b \in {0, 1}
  PROVE  /\ Event(c, f, b) \in Events
         /\ Event(c, f, b).ctx = <<c, f>> /\ Event(c, f, b).bit = b
BY DEF Event, Events

LEMMA RemCtxTyped ==
  ASSUME NEW i \in 0 .. MaxK
  PROVE  RemCtx(i) \in 0 .. NumCtx - 1
BY DEF RemCtx, NumCtx, MaxK

\* What a Rice code consists of.
LEMMA RiceBits ==
  ASSUME JobOK, NEW s, Sided(s), NEW n \in Cells, NEW m \in Nat, NEW k \in 0 .. MaxK
  PROVE  /\ m \div 2^k \in Nat
         /\ Rice(s, n, m, k) \in Seq(Events)
         /\ Len(Rice(s, n, m, k)) = m \div 2^k + 1 + k
         /\ \A i \in 1 .. m \div 2^k + 1 :
              Rice(s, n, m, k)[i] = Event(UnaryCtx(s, n, i - 1), Fast, Bit(i > m \div 2^k))
         /\ \A i \in 1 .. k :
              /\ Rice(s, n, m, k)[m \div 2^k + 1 + i] = Event(RemCtx(i - 1), FALSE, (m \div 2^(i - 1)) % 2)
              /\ (m \div 2^(i - 1)) % 2 \in {0, 1}
<1>1. PICK p : p = 2^k
  OBVIOUS
<1>2. p \in Nat /\ p > 0 /\ k \in Nat
  <2>1. p \in Nat /\ p > 0
    BY <1>1, Powers
  <2> QED BY <2>1 DEF MaxK
<1>3. PICK q : q = m \div p
  OBVIOUS
<1>4. q \in Nat
  BY <1>2, <1>3, DivMod
<1>5. PICK u : u = [i \in 1 .. q + 1 |-> Event(UnaryCtx(s, n, i - 1), Fast, Bit(i > q))]
  OBVIOUS
<1>6. u \in Seq(Events) /\ Len(u) = q + 1
  <2>1. ASSUME NEW i \in 1 .. q + 1 PROVE u[i] \in Events
    <3>1. i - 1 \in Nat
      BY <1>4
    <3>2. UnaryCtx(s, n, i - 1) \in 0 .. NumCtx - 1
      BY <3>1, UnaryCtxTyped DEF NumCtx
    <3>3. Fast \in BOOLEAN /\ Bit(i > q) \in {0, 1}
      BY BitTyped DEF Fast
    <3> QED BY <1>5, <3>2, <3>3, EventTyped
  <2>2. u \in [1 .. q + 1 -> Events]
    BY <1>5, <2>1
  <2> QED BY <1>4, <2>2
<1>7. PICK v : v = [i \in 1 .. k |-> Event(RemCtx(i - 1), FALSE, (m \div 2^(i - 1)) % 2)]
  OBVIOUS
<1>8. ASSUME NEW i \in 1 .. k
      PROVE  (m \div 2^(i - 1)) % 2 \in {0, 1}
  <2>1. i - 1 \in 0 .. MaxK
    BY DEF MaxK
  <2>2. PICK d : d = 2^(i - 1)
    OBVIOUS
  <2>3. d \in Nat /\ d > 0
    BY <2>1, <2>2, Powers
  <2>4. m \div d \in Nat
    BY <2>3, DivMod
  <2>5. PICK e : e = m \div d
    OBVIOUS
  <2> QED BY <2>2, <2>4, <2>5
<1>9. v \in Seq(Events) /\ Len(v) = k
  <2>1. ASSUME NEW i \in 1 .. k PROVE v[i] \in Events
    <3>1. i - 1 \in 0 .. MaxK
      BY DEF MaxK
    <3>2. RemCtx(i - 1) \in 0 .. NumCtx - 1
      BY <3>1, RemCtxTyped
    <3> QED BY <1>7, <1>8, <3>2, EventTyped
  <2>2. v \in [1 .. k -> Events]
    BY <1>7, <2>1
  <2> QED BY <1>2, <2>2
<1>10. Rice(s, n, m, k) = u \o v
  BY <1>1, <1>3, <1>5, <1>7 DEF Rice
<1>11. /\ u \o v \in Seq(Events) /\ Len(u \o v) = Len(u) + Len(v)
       /\ \A i \in 1 .. Len(u) + Len(v) : (u \o v)[i] = IF i <= Len(u) THEN u[i] ELSE v[i - Len(u)]
  BY <1>6, <1>9, ConcatProperties
<1>12. PICK t : t = u \o v
  OBVIOUS
<1>13. t \in Seq(Events) /\ Len(t) = q + 1 + k
       /\ \A i \in 1 .. q + 1 + k : t[i] = IF i <= q + 1 THEN u[i] ELSE v[i - (q + 1)]
  BY <1>6, <1>9, <1>11, <1>12
<1>14. \A i \in 1 .. q + 1 : t[i] = Event(UnaryCtx(s, n, i - 1), Fast, Bit(i > q))
  <2> SUFFICES ASSUME NEW i \in 1 .. q + 1
               PROVE  t[i] = Event(UnaryCtx(s, n, i - 1), Fast, Bit(i > q))
    OBVIOUS
  <2>1. i \in 1 .. q + 1 + k /\ i <= q + 1
    BY <1>2, <1>4
  <2> QED BY <1>5, <1>13, <2>1
<1>15. \A i \in 1 .. k : t[q + 1 + i] = Event(RemCtx(i - 1), FALSE, (m \div 2^(i - 1)) % 2)
  <2> SUFFICES ASSUME NEW i \in 1 .. k
               PROVE  t[q + 1 + i] = Event(RemCtx(i - 1), FALSE, (m \div 2^(i - 1)) % 2)
    OBVIOUS
  <2>1. q + 1 + i \in 1 .. q + 1 + k /\ ~(q + 1 + i <= q + 1) /\ (q + 1 + i) - (q + 1) = i
    BY <1>2, <1>4
  <2>2. t[q + 1 + i] = v[i]
    BY <1>13, <2>1
  <2> QED BY <1>7, <2>2
<1> QED BY <1>1, <1>3, <1>4, <1>8, <1>10, <1>12, <1>13, <1>14, <1>15

LEMMA KTyped ==
  ASSUME NEW v, NEW k \in 0 .. MaxK
  PROVE  Max({KFor(v), k}) \in 0 .. MaxK
<1>1. PICK f : f = KFor(v)
  OBVIOUS
<1>2. f \in 0 .. MaxK
  BY <1>1, KForTyped
<1>3. f \in Int /\ k \in Int
  BY <1>2 DEF MaxK
<1>4. Max({f, k}) = IF f >= k THEN f ELSE k
  BY <1>3, Two
<1> QED BY <1>1, <1>2, <1>4

LEMMA LocalKTyped ==
  ASSUME NEW s, NEW n, Sided(s)
  PROVE  LocalK(s, n) \in 0 .. MaxK
<1>1. s.k \in 0 .. MaxK
  BY DEF Sided
<1>2. \A v : Max({KFor(v), s.k}) \in 0 .. MaxK
  BY <1>1, KTyped
<1> QED BY <1>1, <1>2 DEF LocalK

LEMMA ValueKTyped ==
  ASSUME NEW s, NEW b, Sided(s)
  PROVE  ValueK(s, b) \in 0 .. MaxK
<1>1. s.vk \in 0 .. MaxK
  BY DEF Sided
<1>2. \A v : Max({KFor(v), s.vk}) \in 0 .. MaxK
  BY <1>1, KTyped
<1> QED BY <1>2 DEF ValueK

LEMMA ValueCtxTyped ==
  ASSUME NEW s, NEW b
  PROVE  ValueCtx(s, b) \in 0 .. NumCtx - 1 /\ ValueSignCtx(s, b) \in 0 .. NumCtx - 1
BY DEF ValueCtx, ValueSignCtx, Bit, NumCtx

\* The states of an adapted parameter.
RiceStates(window) == [k : 0 .. MaxK, sum : Int, count : 0 .. window - 1]

LEMMA TrackedTyped ==
  ASSUME NEW window \in Nat \ {0}, NEW r \in RiceStates(window), NEW m \in Int
  PROVE  Tracked(r, m, window) \in RiceStates(window)
<1>1. r.k \in 0 .. MaxK /\ r.sum \in Int /\ r.count \in 0 .. window - 1
  BY DEF RiceStates
<1>2. CASE r.count + 1 = window
  <2>1. Tracked(r, m, window) = [k |-> KFor((r.sum + m) \div window), sum |-> 0, count |-> 0]
    BY <1>2 DEF Tracked
  <2>2. KFor((r.sum + m) \div window) \in 0 .. MaxK
    BY KForTyped
  <2> QED BY <2>1, <2>2 DEF RiceStates
<1>3. CASE r.count + 1 # window
  <2>1. Tracked(r, m, window) = [r EXCEPT !.sum = r.sum + m, !.count = r.count + 1]
    BY <1>3 DEF Tracked
  <2>2. r.sum + m \in Int /\ r.count + 1 \in 0 .. window - 1
    <3>1. PICK c : c = r.count
      OBVIOUS
    <3>2. c \in 0 .. window - 1 /\ c + 1 # window
      BY <1>1, <1>3, <3>1
    <3>3. c + 1 \in 0 .. window - 1
      BY <3>2
    <3> QED BY <1>1, <3>1, <3>3
  <2> QED BY <2>1, <2>2 DEF RiceStates
<1> QED BY <1>2, <1>3

LEMMA UntrackedTyped ==
  ASSUME NEW window \in Nat \ {0}, NEW k \in 0 .. MaxK
  PROVE  Untracked(k) \in RiceStates(window)
<1>1. 0 \in 0 .. window - 1
  OBVIOUS
<1> QED BY <1>1 DEF RiceStates, Untracked

--------------------------------------------------------------------------------
(* Types *)

FlagsTyped == Blocks => flags \in [BlockIds -> {0, 1}]

\* A flat block is entered at its first cell.
AtStart == at <= w * h /\ InFlat(CellAt(at)) => at = Start(BlockOf(CellAt(at)))

TypeInv == /\ JobOK
           /\ phase \in {"flags", "encode", "read flags", "decode", "done"}
           /\ at \in 1 .. w * h + 1
           /\ trace \in Seq(Events)
           /\ read \in Nat \ {0}
           /\ rice \in RiceStates(Window)
           /\ valueRice \in RiceStates(ValueWindow)
           /\ dest \in [Cells -> Int]
           /\ agree \in BOOLEAN
           /\ phase \in {"encode", "decode"} => FlagsTyped /\ AtStart
           /\ phase \in {"flags", "read flags"} => at = 1

LEMMA InitTypeInv == Init => TypeInv
<1> SUFFICES ASSUME Init PROVE TypeInv
  OBVIOUS
<1> USE BandCoderAssumption
<1>1. mode \in 3 .. 24 /\ base \in BOOLEAN
  <2>1. PICK kind \in Kinds : mode = kind[1] /\ base = kind[2]
    BY DEF Init
  <2> QED BY <2>1
<1>2. Plane
  <2>1. PICK s \in Sizes(mode) : w = s[1] /\ h = s[2]
    BY DEF Init
  <2>2. s \in (Nat \ {0}) \X (Nat \ {0})
    BY <1>1, <2>1
  <2> QED BY <2>1, <2>2 DEF Plane
<1>3. band \in [Cells -> Int]
  <2>1. Samples(mode) \subseteq Int /\ band \in [Cells -> Samples(mode)]
    BY <1>1 DEF Init
  <2> QED BY <2>1
<1>4. ~base => parent \in [ParentCells -> Int]
  <2> SUFFICES ASSUME ~base PROVE parent \in [ParentCells -> Int]
    OBVIOUS
  <2>1. parent \in [ParentCells -> ParentSamples]
    BY DEF Init, ParentCells
  <2> QED BY <2>1
<1>5. k0 \in 0 .. MaxK
  <2>1. k0 = K0
    BY DEF Init
  <2> QED BY <2>1, KForTyped DEF K0
<1>6. JobOK
  BY <1>1, <1>2, <1>3, <1>4, <1>5 DEF JobOK
<1>7. rice \in RiceStates(Window) /\ valueRice \in RiceStates(ValueWindow)
  <2>1. 0 \in 0 .. MaxK
    BY DEF MaxK
  <2> QED BY <1>5, <2>1, UntrackedTyped DEF Init
<1>8. 1 \in 1 .. w * h + 1
  <2>1. PICK a : a = w * h
    OBVIOUS
  <2> QED BY <1>2, <2>1, AreaFacts
<1>9. trace \in Seq(Events) /\ dest \in [Cells -> Int]
  BY DEF Init
<1> QED BY <1>6, <1>7, <1>8, <1>9 DEF Init, TypeInv

\* With the blocks of F coded as a whole, the scan stands at a block's first cell.
StartsAt(F, p) == p <= w * h /\ BlockOf(CellAt(p)) \in F => p = Start(BlockOf(CellAt(p)))

LEMMA ScanCell ==
  ASSUME Plane, NEW p \in 1 .. w * h
  PROVE  CellAt(p) \in Cells /\ BlockOf(CellAt(p)) \in BlockIds
BY ScanFacts, BlockFacts

LEMMA FirstStart ==
  ASSUME Plane, Blocks, NEW F
  PROVE  StartsAt(F, 1)
<1> SUFFICES ASSUME 1 <= w * h PROVE 1 = Start(BlockOf(CellAt(1)))
  BY DEF StartsAt
<1>1. PICK a : a = w * h
  OBVIOUS
<1>2. a \in Nat /\ 1 \in 1 .. w * h
  BY <1>1, AreaFacts
<1>3. PICK b : b = BlockOf(CellAt(1))
  OBVIOUS
<1>4. b \in BlockIds
  BY <1>2, <1>3, ScanCell
<1>5. Start(b) \in Nat \ {0} /\ Start(b) <= 1
  BY <1>2, <1>3, <1>4, BlockInScan
<1> QED BY <1>3, <1>5

\* A cell that is coded by itself, then the next one.
LEMMA CellThenNext ==
  ASSUME Plane, Blocks, NEW F, NEW p \in 1 .. w * h, BlockOf(CellAt(p)) \notin F
  PROVE  StartsAt(F, p + 1)
<1> SUFFICES ASSUME p + 1 <= w * h, BlockOf(CellAt(p + 1)) \in F
             PROVE  p + 1 = Start(BlockOf(CellAt(p + 1)))
  BY DEF StartsAt
<1>1. PICK a : a = w * h
  OBVIOUS
<1>2. a \in Nat /\ p + 1 \in 1 .. w * h
  BY <1>1, AreaFacts
<1>3. PICK b : b = BlockOf(CellAt(p + 1))
  OBVIOUS
<1>4. b \in BlockIds
  BY <1>2, <1>3, ScanCell
<1>5. PICK s, c : s = Start(b) /\ c = Cardinality(CellsOf(b))
  OBVIOUS
<1>6. s \in Nat \ {0} /\ c \in Nat \ {0} /\ s <= p + 1 /\ p + 1 < s + c
  BY <1>2, <1>3, <1>4, <1>5, BlockInScan
<1>7. ~(s <= p /\ p < s + c)
  BY <1>3, <1>4, <1>5, BlockInScan
<1> QED BY <1>3, <1>5, <1>6, <1>7

\* A block that is coded as a whole, then what follows it.
LEMMA BlockThenNext ==
  ASSUME Plane, Blocks, NEW F, NEW b \in BlockIds
  PROVE  /\ Start(b) + Cardinality(CellsOf(b)) \in 1 .. w * h + 1
         /\ StartsAt(F, Start(b) + Cardinality(CellsOf(b)))
<1>1. PICK a, s, c, p : a = w * h /\ s = Start(b) /\ c = Cardinality(CellsOf(b)) /\ p = s + c
  OBVIOUS
<1>2. a \in Nat /\ s \in Nat \ {0} /\ c \in Nat \ {0} /\ p \in Nat \ {0} /\ p <= a + 1 /\ p = s + c
  BY <1>1, AreaFacts, BlockInScan
<1>3. ASSUME p <= a, BlockOf(CellAt(p)) \in F
      PROVE  p = Start(BlockOf(CellAt(p)))
  <2>1. p \in 1 .. w * h /\ p - 1 \in 1 .. w * h
    BY <1>1, <1>2, <1>3
  <2>2. PICK d : d = BlockOf(CellAt(p))
    OBVIOUS
  <2>3. d \in BlockIds
    BY <2>1, <2>2, ScanCell
  <2>4. d # b
    BY <1>1, <1>2, <2>1, <2>2, BlockInScan
  <2>5. BlockOf(CellAt(p - 1)) = b
    BY <1>1, <1>2, <2>1, BlockInScan
  <2>6. PICK u, v : u = Start(d) /\ v = Cardinality(CellsOf(d))
    OBVIOUS
  <2>7. u \in Nat \ {0} /\ v \in Nat \ {0} /\ u <= p /\ p < u + v
    BY <2>1, <2>2, <2>3, <2>6, BlockInScan
  <2>8. ~(u <= p - 1 /\ p - 1 < u + v)
    BY <2>1, <2>3, <2>4, <2>5, <2>6, BlockInScan
  <2> QED BY <1>2, <2>2, <2>6, <2>7, <2>8
<1> QED BY <1>1, <1>2, <1>3 DEF StartsAt

LEMMA TypeFacts ==
  ASSUME TypeInv
  PROVE  /\ JobOK /\ Plane /\ at \in 1 .. w * h + 1
         /\ trace \in Seq(Events) /\ read \in Nat \ {0}
         /\ rice \in RiceStates(Window) /\ valueRice \in RiceStates(ValueWindow)
         /\ dest \in [Cells -> Int] /\ agree \in BOOLEAN
         /\ phase \in {"encode", "decode"} => FlagsTyped /\ AtStart
         /\ phase \in {"flags", "read flags"} => at = 1
<1>1. /\ JobOK /\ at \in 1 .. w * h + 1
      /\ trace \in Seq(Events) /\ read \in Nat \ {0}
      /\ rice \in RiceStates(Window) /\ valueRice \in RiceStates(ValueWindow)
      /\ dest \in [Cells -> Int] /\ agree \in BOOLEAN
      /\ phase \in {"encode", "decode"} => FlagsTyped /\ AtStart
      /\ phase \in {"flags", "read flags"} => at = 1
  BY Zenon DEF TypeInv
<1>2. Plane
  BY <1>1, Zenon DEF JobOK
<1> QED BY <1>1, <1>2, Zenon

LEMMA AtTyped ==
  ASSUME TypeInv
  PROVE  at \in Nat \ {0} /\ (at <= w * h => at \in 1 .. w * h)
<1>1. PICK a : a = w * h
  OBVIOUS
<1>2. a \in Nat /\ at \in 1 .. a + 1
  <2>1. Plane /\ at \in 1 .. w * h + 1
    BY TypeFacts, Zenon
  <2> QED BY <1>1, <2>1, AreaFacts
<1>3. at \in Nat \ {0} /\ (at <= a => at \in 1 .. a)
  BY <1>2
<1> QED BY <1>1, <1>3

\* The block in front of the scan.
LEMMA FlatFacts ==
  ASSUME TypeInv, phase \in {"encode", "decode"}, at <= w * h, InFlat(CellAt(at))
  PROVE  /\ mode = 16 /\ Blocks
         /\ BlockOf(CellAt(at)) \in BlockIds
         /\ at = Start(BlockOf(CellAt(at)))
         /\ at \in 1 .. w * h
<1>1. Plane /\ AtStart /\ at \in 1 .. w * h
  <2>1. at \in 1 .. w * h
    BY AtTyped
  <2>2. Plane /\ AtStart
    BY TypeFacts, Zenon
  <2> QED BY <2>1, <2>2
<1>2. BlockOf(CellAt(at)) \in BlockIds
  BY <1>1, ScanCell
<1> QED BY <1>1, <1>2 DEF AtStart, InFlat, Blocks
LEMMA SidedEncoder ==
  ASSUME TypeInv
  PROVE  Sided(Encoder) /\ Sided(Decoder)
<1>1. rice.k \in 0 .. MaxK /\ valueRice.k \in 0 .. MaxK
  <2>1. rice \in RiceStates(Window) /\ valueRice \in RiceStates(ValueWindow)
    BY TypeFacts, Zenon
  <2> QED BY <2>1 DEF RiceStates
<1>2. Steps[2] \in Nat
  BY BandCoderAssumption
<1>3. band \in [Cells -> Int] /\ (~base => parent \in [ParentCells -> Int])
  BY TypeFacts, Zenon DEF JobOK
<1>4. ~base => Dequantized \in [ParentCells -> Int]
  <2>1. \A v \in Int : v * Steps[2] \in Int
    BY <1>2
  <2> QED BY <1>3, <2>1 DEF Dequantized
<1>5. dest \in [Cells -> Int]
  BY TypeFacts, Zenon
<1>6. /\ Encoder.cells = band /\ Encoder.parent = parent /\ Encoder.scale = Steps[2]
      /\ Encoder.k = rice.k /\ Encoder.vk = valueRice.k
  BY DEF Encoder
<1>7. /\ Decoder.cells = dest /\ Decoder.parent = Dequantized /\ Decoder.scale = 1
      /\ Decoder.k = rice.k /\ Decoder.vk = valueRice.k
  BY DEF Decoder
<1> QED BY <1>1, <1>2, <1>3, <1>4, <1>5, <1>6, <1>7 DEF Sided

LEMMA SteadyJob ==
  ASSUME JobOK, UNCHANGED job
  PROVE  JobOK' /\ Plane' /\ (w * h)' = w * h
<1>1. Cells' = Cells
  BY SteadyPlane
<1>2. mode' = mode /\ base' = base /\ w' = w /\ h' = h /\ band' = band /\ parent' = parent /\ k0' = k0
  BY DEF job
<1>3. Plane /\ Plane'
  BY <1>2 DEF Plane, JobOK
<1> QED BY <1>1, <1>2, <1>3 DEF JobOK

--------------------------------------------------------------------------------
(* What the encoder writes *)

\* A signed value: its significance, its sign and its magnitude.
Slow(c, b) == Event(c, FALSE, b)
Minus(v) == Bit(v < 0)
Signed(c, d, v) == <<Slow(c, 1), Slow(d, Minus(v))>>
SignedBits(c, d, v, code) == IF v = 0 THEN <<Slow(c, 0)>> ELSE Signed(c, d, v) \o code

\* A coefficient, m being what is coded for its magnitude.
Skipped(s, n) == mode \in {12, 24} /\ s.flags[BlockOf(n)] = 0
Diff(s, n) == s.cells[n] - Prediction(s, n)
CellBits(s, n, m) ==
  IF Skipped(s, n) THEN <<>>
  ELSE SignedBits(SigCtx(s, n), SignCtx(s, n), Diff(s, n), Rice(s, n, m, LocalK(s, n)))
CellRice(s, n, m, r) ==
  IF Skipped(s, n) \/ Diff(s, n) = 0 THEN r
  ELSE Tracked(r, IF mode = 14 /\ ~base THEN m ELSE Abs(Diff(s, n)) - 1, Window)

\* A flat block, n being the cell the scan stands at.
FlatBits(s, b, n) ==
  SignedBits(ValueCtx(s, b), ValueSignCtx(s, b), Residue(s, b),
             Rice(s, n, Abs(Residue(s, b)) - 1, ValueK(s, b)))
FlatRice(s, b, r) ==
  IF Residue(s, b) = 0 THEN r ELSE Tracked(r, Abs(Residue(s, b)) - 1, ValueWindow)

LEMMA SlowTyped ==
  ASSUME NEW c \in 0 .. NumCtx - 1, NEW b \in {0, 1}
  PROVE  /\ Slow(c, b) \in Events
         /\ Slow(c, b).ctx = <<c, FALSE>> /\ Slow(c, b).bit = b
BY DEF Slow, Event, Events

LEMMA MinusTyped ==
  ASSUME NEW v
  PROVE  Minus(v) \in {0, 1}
BY DEF Minus, Bit

LEMMA SignedBitsFacts ==
  ASSUME NEW c \in 0 .. NumCtx - 1, NEW d \in 0 .. NumCtx - 1, NEW v \in Int, NEW r, v # 0 => r \in Seq(Events)
  PROVE  LET bits == SignedBits(c, d, v, r)
         IN  /\ bits \in Seq(Events)
             /\ v = 0 => Len(bits) = 1 /\ bits[1] = Slow(c, 0)
             /\ v # 0 => /\ Len(bits) = 2 + Len(r)
                         /\ bits[1] = Slow(c, 1) /\ bits[2] = Slow(d, Minus(v))
                         /\ \A i \in 1 .. Len(r) : bits[2 + i] = r[i]
<1>1. CASE v = 0
  <2>1. PICK e : e = Slow(c, 0)
    OBVIOUS
  <2>2. e \in Events
    BY <2>1, SlowTyped
  <2>3. SignedBits(c, d, v, r) = <<e>>
    BY <1>1, <2>1 DEF SignedBits
  <2>4. <<e>> \in Seq(Events) /\ Len(<<e>>) = 1 /\ <<e>>[1] = e
    BY <2>2
  <2> QED BY <1>1, <2>1, <2>3, <2>4
<1>2. CASE v # 0
  <2>1. PICK e, f : e = Slow(c, 1) /\ f = Slow(d, Minus(v))
    OBVIOUS
  <2>2. e \in Events /\ f \in Events
    BY <2>1, SlowTyped, MinusTyped
  <2>3. PICK t : t = <<e, f>>
    OBVIOUS
  <2>4. t \in Seq(Events) /\ Len(t) = 2 /\ t[1] = e /\ t[2] = f
    BY <2>2, <2>3
  <2>5. PICK u : u = t \o r
    OBVIOUS
  <2>6. r \in Seq(Events)
    BY <1>2
  <2>7. /\ t \o r \in Seq(Events) /\ Len(t \o r) = Len(t) + Len(r)
        /\ \A i \in 1 .. Len(t) + Len(r) : (t \o r)[i] = IF i <= Len(t) THEN t[i] ELSE r[i - Len(t)]
    BY <2>4, <2>6, ConcatProperties
  <2>8. PICK l : l = Len(r)
    OBVIOUS
  <2>9. l \in Nat
    BY <2>6, <2>8
  <2>10. u \in Seq(Events) /\ Len(u) = 2 + l /\ \A i \in 1 .. 2 + l : u[i] = IF i <= 2 THEN t[i] ELSE r[i - 2]
    BY <2>4, <2>5, <2>7, <2>8
  <2>11. u[1] = e /\ u[2] = f
    BY <2>4, <2>9, <2>10
  <2>12. ASSUME NEW i \in 1 .. l PROVE u[2 + i] = r[i]
    <3>1. 2 + i \in 1 .. 2 + l /\ ~(2 + i <= 2) /\ (2 + i) - 2 = i
      BY <2>9
    <3> QED BY <2>10, <3>1
  <2>13. SignedBits(c, d, v, r) = u
    BY <1>2, <2>1, <2>3, <2>5 DEF SignedBits, Signed
  <2> QED BY <1>2, <2>1, <2>8, <2>10, <2>11, <2>12, <2>13
<1> QED BY <1>1, <1>2

LEMMA DiffTyped ==
  ASSUME JobOK, NEW s, Sided(s), NEW n \in Cells
  PROVE  Diff(s, n) \in Int /\ (Diff(s, n) # 0 => Abs(Diff(s, n)) - 1 \in Nat)
<1>1. Prediction(s, n) \in Int /\ s.cells[n] \in Int
  BY PredictionTyped DEF Sided
<1>2. Diff(s, n) \in Int
  BY <1>1 DEF Diff
<1>3. PICK d : d = Diff(s, n)
  OBVIOUS
<1>4. d \in Int /\ Abs(d) \in Nat /\ (d # 0 => Abs(d) # 0)
  BY <1>2, <1>3, AbsNat
<1>5. PICK a : a = Abs(d)
  OBVIOUS
<1>6. d # 0 => a - 1 \in Nat
  BY <1>4, <1>5
<1> QED BY <1>2, <1>3, <1>5, <1>6

LEMMA CodedTyped ==
  ASSUME JobOK, NEW s, Sided(s), NEW n \in Cells, NEW m \in Nat, NEW c \in Coded(s, n, m)
  PROVE  c \in Nat
<1>1. CASE mode \in {13, 14} /\ base
  BY <1>1 DEF Coded
<1>2. CASE ~(mode \in {13, 14} /\ base) /\ Residual
  <2>1. m - MagPrediction(s, n) \in Int
    BY <1>2, MagPredictionTyped
  <2>2. c = Zigzag(m - MagPrediction(s, n))
    BY <1>2 DEF Coded
  <2> QED BY <2>1, <2>2, ZigzagUndone
<1>3. CASE ~(mode \in {13, 14} /\ base) /\ ~Residual
  BY <1>3 DEF Coded
<1> QED BY <1>1, <1>2, <1>3

LEMMA CellBitsTyped ==
  ASSUME JobOK, NEW s, Sided(s), NEW n \in Cells, NEW m \in Nat
  PROVE  CellBits(s, n, m) \in Seq(Events)
<1>1. SigCtx(s, n) \in 0 .. NumCtx - 1 /\ SignCtx(s, n) \in 0 .. NumCtx - 1
  BY SigCtxTyped DEF NumCtx
<1>2. Rice(s, n, m, LocalK(s, n)) \in Seq(Events)
  BY LocalKTyped, RiceBits
<1>3. SignedBits(SigCtx(s, n), SignCtx(s, n), Diff(s, n), Rice(s, n, m, LocalK(s, n))) \in Seq(Events)
  BY <1>1, <1>2, DiffTyped, SignedBitsFacts
<1> QED BY <1>3 DEF CellBits

LEMMA CellRiceTyped ==
  ASSUME JobOK, NEW s, Sided(s), NEW n \in Cells, NEW m \in Nat, NEW r \in RiceStates(Window)
  PROVE  CellRice(s, n, m, r) \in RiceStates(Window)
<1>1. CASE Skipped(s, n) \/ Diff(s, n) = 0
  BY <1>1, Zenon DEF CellRice
<1>2. CASE ~(Skipped(s, n) \/ Diff(s, n) = 0)
  <2>1. PICK x : x = IF mode = 14 /\ ~base THEN m ELSE Abs(Diff(s, n)) - 1
    OBVIOUS
  <2>2. x \in Nat
    BY <1>2, <2>1, DiffTyped
  <2>3. CellRice(s, n, m, r) = Tracked(r, x, Window)
    BY <1>2, <2>1, Zenon DEF CellRice
  <2>4. Window \in Nat \ {0} /\ x \in Int
    BY <2>2, BandCoderAssumption
  <2>5. Tracked(r, x, Window) \in RiceStates(Window)
    BY <2>4, TrackedTyped
  <2> QED BY <2>3, <2>5, Zenon
<1> QED BY <1>1, <1>2

\* The blocks a flat block is predicted from.
LEMMA BlockNeighbours ==
  ASSUME Plane, NEW b \in BlockIds, NEW f
  PROVE  /\ FlagLeft(f, b) => b - 1 \in BlockIds /\ b - 1 < b
         /\ FlagAbove(f, b) => b - BlocksWide \in BlockIds /\ b - BlocksWide < b
<1>1. PICK bw, c : bw = BlocksWide /\ c = BlocksWide * BlocksHigh
  OBVIOUS
<1>2. bw \in Nat \ {0} /\ c \in Nat /\ BlockIds = 0 .. (c - 1)
  BY <1>1, BlockSizes
<1>3. b \in Nat /\ b < c
  BY <1>2
<1>4. FlagLeft(f, b) => b # 0
  <2> SUFFICES ASSUME b = 0 PROVE ~FlagLeft(f, b)
    OBVIOUS
  <2>1. 0 % bw = 0
    BY <1>2
  <2> QED BY <1>1, <2>1 DEF FlagLeft
<1>5. FlagAbove(f, b) => b >= bw
  BY <1>1 DEF FlagAbove
<1> QED BY <1>1, <1>2, <1>3, <1>4, <1>5

LEMMA ValueOfTyped ==
  ASSUME Plane, NEW s, Sided(s), NEW b \in BlockIds
  PROVE  Min(CellsOf(b)) \in CellsOf(b) /\ ValueOf(s, b) \in Int
<1>1. CellsOf(b) \in SUBSET Nat /\ CellsOf(b) # {} /\ CellsOf(b) \subseteq Cells
  BY BlockHasCells, CellFacts DEF CellsOf
<1>2. Min(CellsOf(b)) \in CellsOf(b)
  BY <1>1, MinExists
<1>3. Min(CellsOf(b)) \in Cells
  BY <1>1, <1>2
<1> QED BY <1>2, <1>3 DEF ValueOf, Sided

LEMMA ResidueTyped ==
  ASSUME Plane, NEW s, Sided(s), NEW b \in BlockIds
  PROVE  /\ ValuePrediction(s, b) \in Int /\ Residue(s, b) \in Int
         /\ Residue(s, b) # 0 => Abs(Residue(s, b)) - 1 \in Nat
<1>1. ValuePrediction(s, b) \in Int
  BY BlockNeighbours, ValueOfTyped DEF ValuePrediction
<1>2. Residue(s, b) \in Int
  BY <1>1, ValueOfTyped DEF Residue
<1>3. PICK d : d = Residue(s, b)
  OBVIOUS
<1>4. d \in Int /\ Abs(d) \in Nat /\ (d # 0 => Abs(d) # 0)
  BY <1>2, <1>3, AbsNat
<1>5. PICK a : a = Abs(d)
  OBVIOUS
<1>6. d # 0 => a - 1 \in Nat
  BY <1>4, <1>5
<1> QED BY <1>1, <1>2, <1>3, <1>5, <1>6

LEMMA FlatBitsTyped ==
  ASSUME JobOK, NEW s, Sided(s), NEW b \in BlockIds, NEW n \in Cells
  PROVE  FlatBits(s, b, n) \in Seq(Events)
<1>1. Plane
  BY DEF JobOK
<1>2. ValueCtx(s, b) \in 0 .. NumCtx - 1 /\ ValueSignCtx(s, b) \in 0 .. NumCtx - 1
  BY ValueCtxTyped
<1>3. Residue(s, b) # 0 => Rice(s, n, Abs(Residue(s, b)) - 1, ValueK(s, b)) \in Seq(Events)
  BY <1>1, ResidueTyped, ValueKTyped, RiceBits
<1>4. Residue(s, b) \in Int
  BY <1>1, ResidueTyped
<1>5. PICK r : r = Rice(s, n, Abs(Residue(s, b)) - 1, ValueK(s, b))
  OBVIOUS
<1>6. SignedBits(ValueCtx(s, b), ValueSignCtx(s, b), Residue(s, b), r) \in Seq(Events)
  BY <1>2, <1>3, <1>4, <1>5, SignedBitsFacts
<1> QED BY <1>5, <1>6 DEF FlatBits

LEMMA FlatRiceTyped ==
  ASSUME Plane, NEW s, Sided(s), NEW b \in BlockIds, NEW r \in RiceStates(ValueWindow)
  PROVE  FlatRice(s, b, r) \in RiceStates(ValueWindow)
<1>1. CASE Residue(s, b) = 0
  BY <1>1, Zenon DEF FlatRice
<1>2. CASE Residue(s, b) # 0
  <2>1. PICK x : x = Abs(Residue(s, b)) - 1
    OBVIOUS
  <2>2. x \in Nat
    BY <1>2, <2>1, ResidueTyped
  <2>3. FlatRice(s, b, r) = Tracked(r, x, ValueWindow)
    BY <1>2, <2>1, Zenon DEF FlatRice
  <2>4. ValueWindow \in Nat \ {0} /\ x \in Int
    BY <2>2, BandCoderAssumption
  <2>5. Tracked(r, x, ValueWindow) \in RiceStates(ValueWindow)
    BY <2>4, TrackedTyped
  <2> QED BY <2>3, <2>5, Zenon
<1> QED BY <1>1, <1>2

LEMMA JobKept ==
  ASSUME UNCHANGED job
  PROVE  mode' = mode /\ base' = base /\ orient' = orient /\ w' = w /\ h' = h /\ band' = band
         /\ parent' = parent /\ k0' = k0
BY DEF job

\* A step leaves the job alone, so the rest has to be typed again.
LEMMA TypeInvNext ==
  ASSUME TypeInv, UNCHANGED job,
         phase' \in {"flags", "encode", "read flags", "decode", "done"},
         at' \in 1 .. w * h + 1, trace' \in Seq(Events), read' \in Nat \ {0},
         rice' \in RiceStates(Window), valueRice' \in RiceStates(ValueWindow),
         dest' \in [Cells -> Int], agree' \in BOOLEAN,
         phase' \in {"encode", "decode"} => FlagsTyped' /\ AtStart',
         phase' \in {"flags", "read flags"} => at' = 1
  PROVE  TypeInv'
<1>1. JobOK
  BY TypeFacts, Zenon
<1>2. JobOK' /\ Cells' = Cells
  BY <1>1, SteadyJob, SteadyPlane, Zenon
<1>3. w' = w /\ h' = h
  BY JobKept, Zenon
<1>4. at' \in 1 .. w' * h' + 1
  BY <1>3, Zenon
<1>5. dest' \in [Cells' -> Int]
  BY <1>2, Zenon
<1>6. rice' \in RiceStates(Window)' /\ valueRice' \in RiceStates(ValueWindow)'
  BY Zenon DEF RiceStates
<1>7. trace' \in Seq(Events)'
  BY Zenon DEF Events
<1> QED BY <1>2, <1>4, <1>5, <1>6, <1>7, Zenon DEF TypeInv

LEMMA FlagsNext ==
  ASSUME UNCHANGED job
  PROVE  /\ Blocks /\ flags' \in [BlockIds -> {0, 1}] => FlagsTyped'
         /\ ~Blocks => FlagsTyped'
         /\ UNCHANGED flags /\ FlagsTyped => FlagsTyped'
<1>1. BlockIds' = BlockIds /\ (Blocks' <=> Blocks)
  BY SteadyPlane
<1> QED BY <1>1 DEF FlagsTyped

LEMMA AtStartNext ==
  ASSUME Plane, UNCHANGED job, at' \in Nat \ {0},
         mode = 16 => StartsAt({b \in BlockIds : flags'[b] = 1}, at')
  PROVE  AtStart'
<1> SUFFICES ASSUME (at <= w * h /\ InFlat(CellAt(at)))' PROVE (at = Start(BlockOf(CellAt(at))))'
  BY DEF AtStart
<1>1. PICK p : p = at'
  OBVIOUS
<1>2. /\ CellAt(p)' = CellAt(p) /\ BlockOf(CellAt(p))' = BlockOf(CellAt(p))
      /\ Start(BlockOf(CellAt(p)))' = Start(BlockOf(CellAt(p)))
  BY SteadyPlane
<1>3. w' = w /\ h' = h /\ mode' = mode
  BY DEF job
<1>4. mode = 16 /\ p <= w * h
  BY <1>1, <1>3 DEF InFlat
<1>5. flags'[BlockOf(CellAt(p))] = 1
  BY <1>1, <1>2 DEF InFlat
<1>6. BlockOf(CellAt(p)) \in BlockIds
  <2>1. PICK a : a = w * h
    OBVIOUS
  <2>2. p \in 1 .. w * h
    BY <1>1, <1>4, <2>1, AreaFacts
  <2> QED BY <2>2, ScanCell
<1>7. p = Start(BlockOf(CellAt(p)))
  BY <1>1, <1>4, <1>5, <1>6 DEF StartsAt
<1> QED BY <1>1, <1>2, <1>7

LEMMA EncodeFlagsTypeInv == TypeInv /\ EncodeFlags => TypeInv'
<1> SUFFICES ASSUME TypeInv, EncodeFlags PROVE TypeInv'
  OBVIOUS
<1>1. /\ JobOK /\ Plane /\ at = 1 /\ at \in 1 .. w * h + 1
      /\ trace \in Seq(Events) /\ read \in Nat \ {0}
      /\ rice \in RiceStates(Window) /\ valueRice \in RiceStates(ValueWindow)
      /\ dest \in [Cells -> Int] /\ agree \in BOOLEAN
  BY TypeFacts, Zenon DEF EncodeFlags
<1>2. /\ UNCHANGED job /\ phase' = "encode" /\ at' = at /\ rice' = rice /\ valueRice' = valueRice
      /\ read' = read /\ dest' = dest /\ agree' = agree
  BY DEF EncodeFlags
<1>3. Blocks => flags' \in [BlockIds -> {0, 1}]
  BY BitTyped DEF EncodeFlags, Flag
<1>4. AtStart'
  <2>1. mode = 16 => StartsAt({b \in BlockIds : flags'[b] = 1}, 1)
    BY <1>1, FirstStart DEF Blocks
  <2> QED BY <1>1, <1>2, <2>1, AtStartNext
<1>5. trace' \in Seq(Events)
  <2>1. CASE Blocks
    <3>1. PICK l : l = Cardinality(BlockIds)
      OBVIOUS
    <3>2. l \in Nat /\ BlockIds = 0 .. (l - 1)
      BY <1>1, <3>1, BlockSizes
    <3>3. trace' = [b \in 1 .. l |-> Event(FlagCtx(flags', b - 1), FALSE, flags'[b - 1])]
      BY <2>1, <3>1 DEF EncodeFlags
    <3>4. ASSUME NEW b \in 1 .. l PROVE trace'[b] \in Events
      <4>1. flags'[b - 1] \in {0, 1}
        BY <1>3, <2>1, <3>2
      <4>2. FlagCtx(flags', b - 1) \in 0 .. NumCtx - 1
        BY DEF FlagCtx, Bit, NumCtx, CtxBlk
      <4>3. trace'[b] = Event(FlagCtx(flags', b - 1), FALSE, flags'[b - 1])
        BY <3>3
      <4> QED BY <4>1, <4>2, <4>3, EventTyped
    <3>5. trace' \in [1 .. l -> Events]
      BY <3>3, <3>4
    <3> QED BY <3>2, <3>5
  <2>2. CASE ~Blocks
    BY <1>1, <2>2 DEF EncodeFlags
  <2> QED BY <2>1, <2>2
<1>6. FlagsTyped'
  BY <1>2, <1>3, FlagsNext
<1>7. /\ at' \in 1 .. w * h + 1 /\ read' \in Nat \ {0}
      /\ rice' \in RiceStates(Window) /\ valueRice' \in RiceStates(ValueWindow)
      /\ dest' \in [Cells -> Int] /\ agree' \in BOOLEAN
  BY <1>1, <1>2, Zenon
<1> QED BY <1>2, <1>4, <1>5, <1>6, <1>7, TypeInvNext

LEMMA Regrouped ==
  ASSUME NEW E, NEW t \in Seq(E), NEW u \in Seq(E), NEW r \in Seq(E)
  PROVE  (t \o u) \o r = t \o (u \o r)
OBVIOUS

\* A name for Seq(Events) that keeps the provers from looking into it.
Codes == Seq(Events)

Extended(t, u) == t \o u

\* Appending a signed value as the steps do.
LEMMA ZeroAppended ==
  ASSUME NEW t \in Codes, NEW c \in 0 .. NumCtx - 1, NEW d, NEW v, NEW r, v = 0
  PROVE  Append(t, Slow(c, 0)) = Extended(t, SignedBits(c, d, v, r))
<1>1. SignedBits(c, d, v, r) = <<Slow(c, 0)>>
  BY DEF SignedBits
<1>2. Slow(c, 0) \in Events
  BY SlowTyped
<1> QED BY <1>1, <1>2, AppendIsConcat DEF Codes, Extended

LEMMA SignedAppended ==
  ASSUME NEW t \in Codes, NEW c \in 0 .. NumCtx - 1, NEW d \in 0 .. NumCtx - 1, NEW v,
         NEW r \in Codes, v # 0
  PROVE  Extended(Extended(t, Signed(c, d, v)), r) = Extended(t, SignedBits(c, d, v, r))
<1>1. PICK e, f : e = Slow(c, 1) /\ f = Slow(d, Minus(v))
  OBVIOUS
<1>2. e \in Events /\ f \in Events
  BY <1>1, SlowTyped, MinusTyped
<1>3. PICK u : u = <<e, f>>
  OBVIOUS
<1>4. u \in Seq(Events)
  BY <1>2, <1>3
<1>5. SignedBits(c, d, v, r) = u \o r
  BY <1>1, <1>3, Zenon DEF SignedBits, Signed
<1>6. (t \o u) \o r = t \o (u \o r)
  BY <1>4, Regrouped, SMTT(30) DEF Codes
<1>7. Signed(c, d, v) = u
  BY <1>1, <1>3, Zenon DEF Signed
<1> QED BY <1>5, <1>6, <1>7, Zenon DEF Extended

\* What a coefficient's step does; m is what it codes for the magnitude.
LEMMA EncodeCellIs ==
  ASSUME TypeInv, EncodeCell
  PROVE  /\ phase = "encode" /\ at \in 1 .. w * h /\ CellAt(at) \in Cells
         /\ mode = 16 => flags[BlockOf(CellAt(at))] # 1
         /\ \E m \in Nat : /\ ~Skipped(Encoder, CellAt(at)) /\ Diff(Encoder, CellAt(at)) # 0 =>
                                m \in Coded(Encoder, CellAt(at), Abs(Diff(Encoder, CellAt(at))) - 1)
                           /\ trace' = Extended(trace, CellBits(Encoder, CellAt(at), m))
                           /\ rice' = CellRice(Encoder, CellAt(at), m, rice)
<1>1. JobOK /\ Plane /\ trace \in Codes /\ Sided(Encoder)
  <2>1. Sided(Encoder)
    BY SidedEncoder
  <2> QED BY <2>1, TypeFacts, Zenon DEF Codes
<1>2. phase = "encode" /\ at <= w * h /\ ~InFlat(CellAt(at))
  BY DEF EncodeCell
<1>3. at \in 1 .. w * h
  BY <1>2, AtTyped
<1>4. PICK n : n = CellAt(at)
  OBVIOUS
<1>5. n \in Cells
  BY <1>1, <1>3, <1>4, ScanCell
<1>6. PICK s, v : s = Encoder /\ v = Diff(Encoder, n)
  OBVIOUS
<1>7. /\ Encoder.cells = band /\ Encoder.flags = flags
      /\ v = band[n] - Prediction(Encoder, n)
  BY <1>6 DEF Encoder, Diff
<1>8. Passed(n) <=> Skipped(s, n)
  BY <1>6, <1>7 DEF Passed, Skipped
<1>9. SigCtx(s, n) \in 0 .. NumCtx - 1 /\ SignCtx(s, n) \in 0 .. NumCtx - 1
  BY <1>1, <1>5, <1>6, SigCtxTyped DEF NumCtx
<1>10. IF Passed(n) THEN UNCHANGED <<trace, rice>>
       ELSE IF v = 0 THEN trace' = Append(trace, Slow(SigCtx(s, n), 0)) /\ UNCHANGED rice
       ELSE \E m \in Coded(s, n, Abs(v) - 1) :
              /\ trace' = Extended(Extended(trace, Signed(SigCtx(s, n), SignCtx(s, n), v)), Rice(s, n, m, LocalK(s, n)))
              /\ rice' = Tracked(rice, IF mode = 14 /\ ~base THEN m ELSE Abs(v) - 1, Window)
  BY <1>4, <1>6, <1>7, Zenon DEF EncodeCell, Slow, Minus, Signed, Extended
<1>11. \E m \in Nat : /\ ~Skipped(s, n) /\ v # 0 => m \in Coded(s, n, Abs(v) - 1)
                      /\ trace' = Extended(trace, CellBits(s, n, m))
                      /\ rice' = CellRice(s, n, m, rice)
  <2>1. CASE Skipped(s, n)
    <3>1. CellBits(s, n, 0) = <<>> /\ CellRice(s, n, 0, rice) = rice
      BY <2>1, Zenon DEF CellBits, CellRice
    <3>2. trace' = trace /\ rice' = rice
      BY <1>8, <1>10, <2>1
    <3>3. Extended(trace, <<>>) = trace
      BY <1>1, ConcatEmptySeq DEF Codes, Extended
    <3>4. 0 \in Nat
      OBVIOUS
    <3> QED BY <2>1, <3>1, <3>2, <3>3, <3>4, Zenon
  <2>2. CASE ~Skipped(s, n) /\ v = 0
    <3>1. CellBits(s, n, 0) = SignedBits(SigCtx(s, n), SignCtx(s, n), v, Rice(s, n, 0, LocalK(s, n)))
      BY <1>6, <2>2, Zenon DEF CellBits
    <3>2. CellRice(s, n, 0, rice) = rice
      BY <1>6, <2>2, Zenon DEF CellRice
    <3>3. trace' = Append(trace, Slow(SigCtx(s, n), 0)) /\ rice' = rice
      BY <1>8, <1>10, <2>2, Zenon
    <3>4. trace' = Extended(trace, CellBits(s, n, 0))
      <4>1. PICK c, d, r : c = SigCtx(s, n) /\ d = SignCtx(s, n) /\ r = Rice(s, n, 0, LocalK(s, n))
        OBVIOUS
      <4>2. Append(trace, Slow(c, 0)) = Extended(trace, SignedBits(c, d, v, r))
        BY <1>1, <1>9, <2>2, <4>1, ZeroAppended
      <4> QED BY <3>1, <3>3, <4>1, <4>2, Zenon
    <3>5. 0 \in Nat
      OBVIOUS
    <3> QED BY <2>2, <3>2, <3>3, <3>4, <3>5, Zenon
  <2>3. CASE ~Skipped(s, n) /\ v # 0
    <3>1. PICK m \in Coded(s, n, Abs(v) - 1) :
              /\ trace' = Extended(Extended(trace, Signed(SigCtx(s, n), SignCtx(s, n), v)), Rice(s, n, m, LocalK(s, n)))
              /\ rice' = Tracked(rice, IF mode = 14 /\ ~base THEN m ELSE Abs(v) - 1, Window)
      BY <1>8, <1>10, <2>3, Zenon
    <3>2. m \in Nat
      <4>1. Abs(v) - 1 \in Nat
        BY <1>1, <1>5, <1>6, <2>3, DiffTyped
      <4> QED BY <1>1, <1>5, <1>6, <4>1, CodedTyped
    <3>3. Rice(s, n, m, LocalK(s, n)) \in Codes
      BY <1>1, <1>5, <1>6, <3>2, LocalKTyped, RiceBits DEF Codes
    <3>4. CellBits(s, n, m) = SignedBits(SigCtx(s, n), SignCtx(s, n), v, Rice(s, n, m, LocalK(s, n)))
      BY <1>6, <2>3, Zenon DEF CellBits
    <3>5. trace' = Extended(trace, CellBits(s, n, m))
      <4>1. PICK c, d, r : c = SigCtx(s, n) /\ d = SignCtx(s, n) /\ r = Rice(s, n, m, LocalK(s, n))
        OBVIOUS
      <4>2. Extended(Extended(trace, Signed(c, d, v)), r) = Extended(trace, SignedBits(c, d, v, r))
        BY <1>1, <1>9, <2>3, <3>3, <4>1, SignedAppended
      <4> QED BY <3>1, <3>4, <4>1, <4>2, Zenon
    <3>6. rice' = CellRice(s, n, m, rice)
      BY <1>6, <2>3, <3>1, Zenon DEF CellRice
    <3> QED BY <3>2, <3>5, <3>6, Zenon
  <2> QED BY <2>1, <2>2, <2>3
<1>12. mode = 16 => flags[BlockOf(n)] # 1
  BY <1>2, <1>4 DEF InFlat
<1> QED BY <1>2, <1>3, <1>4, <1>5, <1>6, <1>11, <1>12, Zenon

\* What a flat block's step does.
LEMMA EncodeFlatIs ==
  ASSUME TypeInv, EncodeFlat
  PROVE  LET b == BlockOf(CellAt(at))
         IN  /\ phase = "encode" /\ at \in 1 .. w * h /\ CellAt(at) \in Cells /\ b \in BlockIds
             /\ mode = 16 /\ Blocks /\ flags[b] = 1 /\ at = Start(b)
             /\ at' = at + Cardinality(CellsOf(b))
             /\ trace' = Extended(trace, FlatBits(Encoder, b, CellAt(at)))
             /\ valueRice' = FlatRice(Encoder, b, valueRice)
<1>1. JobOK /\ Plane /\ trace \in Codes /\ Sided(Encoder)
  <2>1. Sided(Encoder)
    BY SidedEncoder
  <2> QED BY <2>1, TypeFacts, Zenon DEF Codes
<1>2. phase = "encode" /\ at <= w * h /\ InFlat(CellAt(at))
  BY DEF EncodeFlat
<1>3. PICK n : n = CellAt(at)
  OBVIOUS
<1>4. PICK b : b = BlockOf(n)
  OBVIOUS
<1>5. mode = 16 /\ Blocks /\ b \in BlockIds /\ at = Start(b) /\ at \in 1 .. w * h
  BY <1>2, <1>3, <1>4, FlatFacts
<1>6. n \in Cells /\ flags[b] = 1
  BY <1>1, <1>2, <1>3, <1>4, <1>5, ScanCell DEF InFlat
<1>7. PICK s, v, m, k : s = Encoder /\ v = Residue(s, b) /\ m = Abs(v) - 1 /\ k = ValueK(s, b)
  OBVIOUS
<1>8. /\ at' = at + Cardinality(CellsOf(b))
      /\ IF v = 0
         THEN /\ trace' = Append(trace, Slow(ValueCtx(s, b), 0))
              /\ UNCHANGED valueRice
         ELSE /\ trace' = Extended(Extended(trace, Signed(ValueCtx(s, b), ValueSignCtx(s, b), v)), Rice(s, n, m, k))
              /\ valueRice' = Tracked(valueRice, m, ValueWindow)
  BY <1>3, <1>4, <1>7, Zenon DEF EncodeFlat, Slow, Minus, Signed, Extended
<1>9. ValueCtx(s, b) \in 0 .. NumCtx - 1 /\ ValueSignCtx(s, b) \in 0 .. NumCtx - 1
  BY ValueCtxTyped
<1>10. v # 0 => Rice(s, n, m, k) \in Codes
  <2> SUFFICES ASSUME v # 0 PROVE Rice(s, n, m, k) \in Codes
    OBVIOUS
  <2>1. m \in Nat
    BY <1>1, <1>5, <1>7, ResidueTyped
  <2>2. k \in 0 .. MaxK
    BY <1>1, <1>7, ValueKTyped
  <2> QED BY <1>1, <1>6, <1>7, <2>1, <2>2, RiceBits DEF Codes
<1>11. FlatBits(s, b, n) = SignedBits(ValueCtx(s, b), ValueSignCtx(s, b), v, Rice(s, n, m, k))
  BY <1>7, Zenon DEF FlatBits
<1>12. trace' = Extended(trace, FlatBits(s, b, n))
  <2>1. PICK c, d, r : c = ValueCtx(s, b) /\ d = ValueSignCtx(s, b) /\ r = Rice(s, n, m, k)
    OBVIOUS
  <2>2. c \in 0 .. NumCtx - 1 /\ d \in 0 .. NumCtx - 1
    BY <1>9, <2>1
  <2>3. CASE v = 0
    <3>1. Append(trace, Slow(c, 0)) = Extended(trace, SignedBits(c, d, v, r))
      BY <1>1, <2>2, <2>3, ZeroAppended
    <3> QED BY <1>8, <1>11, <2>1, <2>3, <3>1, Zenon
  <2>4. CASE v # 0
    <3>1. Extended(Extended(trace, Signed(c, d, v)), r) = Extended(trace, SignedBits(c, d, v, r))
      BY <1>1, <1>10, <2>1, <2>2, <2>4, SignedAppended
    <3> QED BY <1>8, <1>11, <2>1, <2>4, <3>1, Zenon
  <2> QED BY <2>3, <2>4
<1>13. valueRice' = FlatRice(s, b, valueRice)
  BY <1>7, <1>8, Zenon DEF FlatRice
<1> QED BY <1>2, <1>3, <1>4, <1>5, <1>6, <1>7, <1>8, <1>12, <1>13, Zenon

LEMMA ExtendedFacts ==
  ASSUME NEW t \in Codes, NEW u \in Codes
  PROVE  /\ Extended(t, u) \in Codes /\ Len(Extended(t, u)) = Len(t) + Len(u)
         /\ Len(t) \in Nat /\ Len(u) \in Nat
         /\ \A i \in 1 .. Len(t) : Extended(t, u)[i] = t[i]
         /\ \A i \in 1 .. Len(u) : Extended(t, u)[Len(t) + i] = u[i]
<1>1. t \in Seq(Events) /\ u \in Seq(Events)
  BY Zenon DEF Codes
<1>2. /\ t \o u \in Seq(Events) /\ Len(t \o u) = Len(t) + Len(u)
      /\ \A i \in 1 .. Len(t) + Len(u) : (t \o u)[i] = IF i <= Len(t) THEN t[i] ELSE u[i - Len(t)]
  BY <1>1, ConcatProperties
<1>3. PICK a, b, e : a = Len(t) /\ b = Len(u) /\ e = Extended(t, u)
  OBVIOUS
<1>4. a \in Nat /\ b \in Nat
  BY <1>1, <1>3
<1>5. \A i \in 1 .. a + b : e[i] = IF i <= a THEN t[i] ELSE u[i - a]
  BY <1>2, <1>3 DEF Extended
<1>6. \A i \in 1 .. a : e[i] = t[i]
  BY <1>4, <1>5
<1>7. ASSUME NEW i \in 1 .. b PROVE e[a + i] = u[i]
  <2>1. a + i \in 1 .. a + b /\ ~(a + i <= a) /\ (a + i) - a = i
    BY <1>4
  <2> QED BY <1>5, <2>1
<1>8. e \in Codes /\ Len(e) = a + b
  BY <1>2, <1>3, Zenon DEF Codes, Extended
<1> QED BY <1>3, <1>4, <1>6, <1>7, <1>8

\* The position behind a cell or a flat block.
LEMMA NextPosition ==
  ASSUME Plane, NEW p \in 1 .. w * h
  PROVE  p + 1 \in 1 .. w * h + 1 /\ p + 1 \in Nat \ {0}
<1>1. PICK a : a = w * h
  OBVIOUS
<1> QED BY <1>1, AreaFacts

LEMMA CellAtStart ==
  ASSUME Plane, UNCHANGED <<job, flags>>, at \in 1 .. w * h, at' = at + 1,
         mode = 16 => flags[BlockOf(CellAt(at))] # 1
  PROVE  AtStart'
<1>1. at' \in Nat \ {0}
  BY NextPosition
<1>2. UNCHANGED job /\ flags' = flags
  OBVIOUS
<1>3. ASSUME mode = 16 PROVE StartsAt({b \in BlockIds : flags'[b] = 1}, at')
  <2>1. Blocks
    BY <1>3 DEF Blocks
  <2>2. BlockOf(CellAt(at)) \notin {b \in BlockIds : flags'[b] = 1}
    BY <1>2, <1>3
  <2> QED BY <2>1, <2>2, CellThenNext
<1> QED BY <1>1, <1>2, <1>3, AtStartNext

LEMMA FlatAtStart ==
  ASSUME Plane, Blocks, UNCHANGED <<job, flags>>, NEW b \in BlockIds,
         at' = Start(b) + Cardinality(CellsOf(b))
  PROVE  AtStart' /\ at' \in 1 .. w * h + 1
<1>1. UNCHANGED job /\ flags' = flags
  OBVIOUS
<1>2. at' \in 1 .. w * h + 1 /\ StartsAt({c \in BlockIds : flags'[c] = 1}, at')
  BY BlockThenNext
<1>3. at' \in Nat \ {0}
  BY <1>2
<1> QED BY <1>1, <1>2, <1>3, AtStartNext

LEMMA EncodeCellTypeInv == TypeInv /\ EncodeCell => TypeInv'
<1> SUFFICES ASSUME TypeInv, EncodeCell PROVE TypeInv'
  OBVIOUS
<1>1. /\ JobOK /\ Plane /\ trace \in Codes /\ read \in Nat \ {0}
      /\ rice \in RiceStates(Window) /\ valueRice \in RiceStates(ValueWindow)
      /\ dest \in [Cells -> Int] /\ agree \in BOOLEAN
      /\ phase \in {"encode", "decode"} => FlagsTyped /\ AtStart
  BY TypeFacts, Zenon DEF Codes
<1>2. /\ UNCHANGED job /\ phase' = phase /\ at' = at + 1 /\ valueRice' = valueRice
      /\ flags' = flags /\ read' = read /\ dest' = dest /\ agree' = agree
  BY Zenon DEF EncodeCell
<1>3. PICK n : n = CellAt(at)
  OBVIOUS
<1>4. phase = "encode" /\ at \in 1 .. w * h /\ n \in Cells /\ (mode = 16 => flags[BlockOf(CellAt(at))] # 1)
  BY <1>3, EncodeCellIs, Zenon
<1>5. PICK m \in Nat : trace' = Extended(trace, CellBits(Encoder, n, m)) /\ rice' = CellRice(Encoder, n, m, rice)
  BY <1>3, EncodeCellIs, Zenon
<1>6. Sided(Encoder)
  BY SidedEncoder
<1>7. CellBits(Encoder, n, m) \in Codes /\ rice' \in RiceStates(Window)
  BY <1>1, <1>4, <1>5, <1>6, CellBitsTyped, CellRiceTyped DEF Codes
<1>8. trace' \in Seq(Events)
  BY <1>1, <1>5, <1>7, ExtendedFacts DEF Codes
<1>9. at' \in 1 .. w * h + 1
  BY <1>1, <1>2, <1>4, NextPosition
<1>10. UNCHANGED <<job, flags>> /\ FlagsTyped /\ phase \in {"encode", "decode"}
  BY <1>1, <1>2, <1>4
<1>11. AtStart' /\ FlagsTyped'
  BY <1>1, <1>2, <1>4, <1>10, CellAtStart, FlagsNext
<1>12. /\ read' \in Nat \ {0} /\ valueRice' \in RiceStates(ValueWindow)
       /\ dest' \in [Cells -> Int] /\ agree' \in BOOLEAN
  BY <1>1, <1>2, Zenon
<1>13. phase' = "encode"
  BY <1>2, <1>4
<1> QED BY <1>2, <1>7, <1>8, <1>9, <1>11, <1>12, <1>13, TypeInvNext

LEMMA EncodeFlatTypeInv == TypeInv /\ EncodeFlat => TypeInv'
<1> SUFFICES ASSUME TypeInv, EncodeFlat PROVE TypeInv'
  OBVIOUS
<1>1. /\ JobOK /\ Plane /\ trace \in Codes /\ read \in Nat \ {0}
      /\ rice \in RiceStates(Window) /\ valueRice \in RiceStates(ValueWindow)
      /\ dest \in [Cells -> Int] /\ agree \in BOOLEAN
      /\ phase \in {"encode", "decode"} => FlagsTyped /\ AtStart
  BY TypeFacts, Zenon DEF Codes
<1>2. /\ UNCHANGED job /\ phase' = phase /\ rice' = rice
      /\ flags' = flags /\ read' = read /\ dest' = dest /\ agree' = agree
  BY Zenon DEF EncodeFlat
<1>3. PICK n, b : n = CellAt(at) /\ b = BlockOf(CellAt(at))
  OBVIOUS
<1>4. /\ phase = "encode" /\ n \in Cells /\ b \in BlockIds /\ Blocks
      /\ at = Start(b) /\ at' = at + Cardinality(CellsOf(b))
      /\ trace' = Extended(trace, FlatBits(Encoder, b, n))
      /\ valueRice' = FlatRice(Encoder, b, valueRice)
  BY <1>3, EncodeFlatIs, Zenon
<1>5. Sided(Encoder)
  BY SidedEncoder
<1>6. FlatBits(Encoder, b, n) \in Codes /\ valueRice' \in RiceStates(ValueWindow)
  BY <1>1, <1>4, <1>5, FlatBitsTyped, FlatRiceTyped DEF Codes
<1>7. trace' \in Seq(Events)
  BY <1>1, <1>4, <1>6, ExtendedFacts DEF Codes
<1>8. UNCHANGED <<job, flags>> /\ FlagsTyped /\ phase \in {"encode", "decode"}
  BY <1>1, <1>2, <1>4
<1>9. AtStart' /\ at' \in 1 .. w * h + 1
  BY <1>1, <1>4, <1>8, FlatAtStart
<1>10. FlagsTyped'
  BY <1>2, <1>8, FlagsNext
<1>11. /\ read' \in Nat \ {0} /\ rice' \in RiceStates(Window)
       /\ dest' \in [Cells -> Int] /\ agree' \in BOOLEAN
  BY <1>1, <1>2, Zenon
<1>12. phase' = "encode"
  BY <1>2, <1>4
<1> QED BY <1>2, <1>6, <1>7, <1>9, <1>10, <1>11, <1>12, TypeInvNext

LEMMA StartDecodingTypeInv == TypeInv /\ StartDecoding => TypeInv'
<1> SUFFICES ASSUME TypeInv, StartDecoding PROVE TypeInv'
  OBVIOUS
<1>1. /\ JobOK /\ Plane /\ trace \in Seq(Events) /\ read \in Nat \ {0}
      /\ dest \in [Cells -> Int] /\ agree \in BOOLEAN
  BY TypeFacts, Zenon
<1>2. /\ UNCHANGED job /\ phase' = "read flags" /\ at' = 1
      /\ rice' = Untracked(k0) /\ valueRice' = Untracked(0)
      /\ trace' = trace /\ read' = read /\ dest' = dest /\ agree' = agree
  BY Zenon DEF StartDecoding
<1>3. rice' \in RiceStates(Window) /\ valueRice' \in RiceStates(ValueWindow)
  <2>1. k0 \in 0 .. MaxK /\ 0 \in 0 .. MaxK
    BY <1>1 DEF JobOK, MaxK
  <2>2. Window \in Nat \ {0} /\ ValueWindow \in Nat \ {0}
    BY BandCoderAssumption
  <2> QED BY <1>2, <2>1, <2>2, UntrackedTyped
<1>4. at' \in 1 .. w * h + 1
  <2>1. PICK a : a = w * h
    OBVIOUS
  <2>2. a \in Nat
    BY <1>1, <2>1, AreaFacts
  <2>3. 1 \in 1 .. a + 1
    BY <2>2
  <2> QED BY <1>2, <2>1, <2>3, Zenon
<1>5. /\ trace' \in Seq(Events) /\ read' \in Nat \ {0}
      /\ dest' \in [Cells -> Int] /\ agree' \in BOOLEAN
  BY <1>1, <1>2, Zenon
<1> QED BY <1>2, <1>3, <1>4, <1>5, TypeInvNext

LEMMA EndDecodingTypeInv == TypeInv /\ EndDecoding => TypeInv'
<1> SUFFICES ASSUME TypeInv, EndDecoding PROVE TypeInv'
  OBVIOUS
<1>1. /\ at \in 1 .. w * h + 1 /\ trace \in Seq(Events) /\ read \in Nat \ {0}
      /\ rice \in RiceStates(Window) /\ valueRice \in RiceStates(ValueWindow)
      /\ dest \in [Cells -> Int] /\ agree \in BOOLEAN
  BY TypeFacts, Zenon
<1>2. /\ UNCHANGED job /\ phase' = "done" /\ at' = at /\ rice' = rice /\ valueRice' = valueRice
      /\ trace' = trace /\ read' = read /\ dest' = dest /\ agree' = agree
  BY Zenon DEF EndDecoding
<1>3. /\ at' \in 1 .. w * h + 1 /\ trace' \in Seq(Events) /\ read' \in Nat \ {0}
      /\ rice' \in RiceStates(Window) /\ valueRice' \in RiceStates(ValueWindow)
      /\ dest' \in [Cells -> Int] /\ agree' \in BOOLEAN
  BY <1>1, <1>2, Zenon
<1> QED BY <1>2, <1>3, TypeInvNext

--------------------------------------------------------------------------------
(* What the decoder asks for *)

CtxSet == (0 .. NumCtx - 1) \X BOOLEAN
SlowCtx(c) == <<c, FALSE>>
FastCtx(c) == <<c, Fast>>

\* The contexts of a zero, and of a signed value whose magnitude is read with those of R.
ZeroCtxs(c) == <<SlowCtx(c)>>
SignedCtxs(c, d, R) == <<SlowCtx(c)>> \o (<<SlowCtx(d)>> \o R)

LEMMA CtxTyped ==
  ASSUME NEW c \in 0 .. NumCtx - 1
  PROVE  SlowCtx(c) \in CtxSet /\ FastCtx(c) \in CtxSet
BY DEF SlowCtx, FastCtx, CtxSet, Fast

LEMMA SignedCtxsFacts ==
  ASSUME NEW c \in 0 .. NumCtx - 1, NEW d \in 0 .. NumCtx - 1, NEW R \in Seq(CtxSet)
  PROVE  /\ ZeroCtxs(c) \in Seq(CtxSet) /\ Len(ZeroCtxs(c)) = 1 /\ ZeroCtxs(c)[1] = SlowCtx(c)
         /\ SignedCtxs(c, d, R) \in Seq(CtxSet)
         /\ Len(R) \in Nat /\ Len(SignedCtxs(c, d, R)) = 2 + Len(R)
         /\ SignedCtxs(c, d, R)[1] = SlowCtx(c) /\ SignedCtxs(c, d, R)[2] = SlowCtx(d)
         /\ \A i \in 1 .. Len(R) : SignedCtxs(c, d, R)[2 + i] = R[i]
<1>1. PICK e, f : e = SlowCtx(c) /\ f = SlowCtx(d)
  OBVIOUS
<1>2. e \in CtxSet /\ f \in CtxSet
  BY <1>1, CtxTyped
<1>3. PICK a, b, l : a = <<e>> /\ b = <<f>> /\ l = Len(R)
  OBVIOUS
<1>4. /\ a \in Seq(CtxSet) /\ b \in Seq(CtxSet) /\ Len(a) = 1 /\ Len(b) = 1 /\ a[1] = e /\ b[1] = f
      /\ l \in Nat
  BY <1>2, <1>3
<1>5. PICK u : u = b \o R
  OBVIOUS
<1>6. /\ u \in Seq(CtxSet) /\ Len(u) = 1 + l
      /\ \A i \in 1 .. 1 + l : u[i] = IF i <= 1 THEN b[i] ELSE R[i - 1]
  <2>1. /\ b \o R \in Seq(CtxSet) /\ Len(b \o R) = Len(b) + Len(R)
        /\ \A i \in 1 .. Len(b) + Len(R) : (b \o R)[i] = IF i <= Len(b) THEN b[i] ELSE R[i - Len(b)]
    BY <1>4, ConcatProperties
  <2> QED BY <1>3, <1>4, <1>5, <2>1
<1>7. PICK v : v = a \o u
  OBVIOUS
<1>8. /\ v \in Seq(CtxSet) /\ Len(v) = 1 + (1 + l)
      /\ \A i \in 1 .. 1 + (1 + l) : v[i] = IF i <= 1 THEN a[i] ELSE u[i - 1]
  <2>1. /\ a \o u \in Seq(CtxSet) /\ Len(a \o u) = Len(a) + Len(u)
        /\ \A i \in 1 .. Len(a) + Len(u) : (a \o u)[i] = IF i <= Len(a) THEN a[i] ELSE u[i - Len(a)]
    BY <1>4, <1>6, ConcatProperties
  <2> QED BY <1>4, <1>6, <1>7, <2>1
<1>9. u[1] = f
  BY <1>4, <1>6
<1>10. v[1] = e /\ v[2] = f
  BY <1>4, <1>8, <1>9
<1>11. ASSUME NEW i \in 1 .. l PROVE v[2 + i] = R[i]
  <2>1. u[1 + i] = R[i]
    <3>1. 1 + i \in 1 .. 1 + l /\ ~(1 + i <= 1) /\ (1 + i) - 1 = i
      BY <1>4
    <3> QED BY <1>6, <3>1
  <2>2. 2 + i \in 1 .. 1 + (1 + l) /\ ~(2 + i <= 1) /\ (2 + i) - 1 = 1 + i
    BY <1>4
  <2> QED BY <1>8, <2>1, <2>2
<1>12. Len(v) = 2 + l
  BY <1>4, <1>8
<1>13. ZeroCtxs(c) = a /\ SignedCtxs(c, d, R) = v
  BY <1>1, <1>3, <1>5, <1>7, Zenon DEF ZeroCtxs, SignedCtxs
<1> QED BY <1>1, <1>3, <1>4, <1>8, <1>10, <1>11, <1>12, <1>13, Zenon

\* R are the contexts of a Rice code with the quotient q.
RiceRead(s, n, q, k, R) ==
  /\ R \in Seq(CtxSet) /\ Len(R) = q + 1 + k
  /\ \A i \in 1 .. q + 1 : R[i] = FastCtx(UnaryCtx(s, n, i - 1))
  /\ \A i \in 1 .. k : R[q + 1 + i] = SlowCtx(RemCtx(i - 1))

LEMMA RiceCtxsFacts ==
  ASSUME JobOK, NEW s, Sided(s), NEW n \in Cells, NEW q \in Nat, NEW k \in 0 .. MaxK
  PROVE  RiceRead(s, n, q, k, RiceCtxs(s, n, q, k))
<1>1. k \in Nat
  BY DEF MaxK
<1>2. PICK a, b : /\ a = [i \in 1 .. q + 1 |-> FastCtx(UnaryCtx(s, n, i - 1))]
                  /\ b = [i \in 1 .. k |-> SlowCtx(RemCtx(i - 1))]
  OBVIOUS
<1>3. ASSUME NEW i \in 1 .. q + 1 PROVE FastCtx(UnaryCtx(s, n, i - 1)) \in CtxSet
  <2>1. i - 1 \in Nat
    OBVIOUS
  <2>2. UnaryCtx(s, n, i - 1) \in 0 .. NumCtx - 1
    BY <2>1, UnaryCtxTyped DEF NumCtx
  <2> QED BY <2>2, CtxTyped
<1>4. ASSUME NEW i \in 1 .. k PROVE SlowCtx(RemCtx(i - 1)) \in CtxSet
  <2>1. i - 1 \in 0 .. MaxK
    BY <1>1 DEF MaxK
  <2> QED BY <2>1, RemCtxTyped, CtxTyped
<1>5. a \in Seq(CtxSet) /\ Len(a) = q + 1 /\ \A i \in 1 .. q + 1 : a[i] = FastCtx(UnaryCtx(s, n, i - 1))
  <2>1. a \in [1 .. q + 1 -> CtxSet] /\ q + 1 \in Nat
    BY <1>2, <1>3
  <2> QED BY <1>2, <2>1
<1>6. b \in Seq(CtxSet) /\ Len(b) = k /\ \A i \in 1 .. k : b[i] = SlowCtx(RemCtx(i - 1))
  <2>1. b \in [1 .. k -> CtxSet] /\ k \in Nat
    BY <1>1, <1>2, <1>4
  <2> QED BY <1>2, <2>1
<1>7. PICK u : u = a \o b
  OBVIOUS
<1>8. /\ u \in Seq(CtxSet) /\ Len(u) = q + 1 + k
      /\ \A i \in 1 .. q + 1 + k : u[i] = IF i <= q + 1 THEN a[i] ELSE b[i - (q + 1)]
  <2>1. /\ a \o b \in Seq(CtxSet) /\ Len(a \o b) = Len(a) + Len(b)
        /\ \A i \in 1 .. Len(a) + Len(b) : (a \o b)[i] = IF i <= Len(a) THEN a[i] ELSE b[i - Len(a)]
    BY <1>5, <1>6, ConcatProperties
  <2> QED BY <1>5, <1>6, <1>7, <2>1
<1>9. \A i \in 1 .. q + 1 : u[i] = a[i]
  BY <1>1, <1>8
<1>10. ASSUME NEW i \in 1 .. k PROVE u[q + 1 + i] = b[i]
  <2>1. q + 1 + i \in 1 .. q + 1 + k /\ ~(q + 1 + i <= q + 1) /\ (q + 1 + i) - (q + 1) = i
    BY <1>1
  <2> QED BY <1>8, <2>1
<1>11. RiceCtxs(s, n, q, k) = u
  BY <1>2, <1>7, Zenon DEF RiceCtxs, SlowCtx, FastCtx
<1>12. RiceRead(s, n, q, k, u)
  BY <1>5, <1>6, <1>8, <1>9, <1>10 DEF RiceRead
<1> QED BY <1>11, <1>12, Zenon

\* The value of a sign bit, and the magnitude that a Rice code stands for.
Sign(b) == IF b = 1 THEN -1 ELSE 1
Plain(s, n, c) == IF Residual THEN Unzigzag(c, MagPrediction(s, n)) ELSE c

\* The plane with x in the cells of a block.
Painted(b, x) == [n \in Cells |-> IF BlockOf(n) = b THEN x ELSE dest[n]]

CellCtxs(s, n) == SignedCtxs(SigCtx(s, n), SignCtx(s, n),
                             RiceCtxs(s, n, QuotientAt(read + 2), LocalK(s, n)))
FlatCtxs(s, b, n) == SignedCtxs(ValueCtx(s, b), ValueSignCtx(s, b),
                                RiceCtxs(s, n, QuotientAt(read + 2), ValueK(s, b)))

LEMMA PlainTyped ==
  ASSUME JobOK, NEW s, Sided(s), NEW n \in Cells, NEW c \in Nat
  PROVE  Plain(s, n, c) \in Int
<1>1. CASE Residual
  <2>1. MagPrediction(s, n) \in Int
    BY <1>1, MagPredictionTyped
  <2>2. PICK p : p = MagPrediction(s, n)
    OBVIOUS
  <2>3. Unzigzag(c, p) \in Int
    BY <2>1, <2>2 DEF Unzigzag
  <2> QED BY <1>1, <2>2, <2>3 DEF Plain
<1>2. CASE ~Residual
  BY <1>2 DEF Plain
<1> QED BY <1>1, <1>2

LEMMA DecodeCellIs ==
  ASSUME TypeInv, DecodeCell
  PROVE  LET n == CellAt(at)
             s == Decoder
             c == RiceAt(read + 2, LocalK(s, n))
         IN  /\ phase = "decode" /\ at \in 1 .. w * h /\ n \in Cells
             /\ mode = 16 => flags[BlockOf(n)] # 1
             /\ Skipped(s, n) => rice' = rice /\ read' = read /\ dest' = dest /\ agree' = agree
             /\ ~Skipped(s, n) /\ BitAt(read) = 0 =>
                  /\ dest' = [dest EXCEPT ![n] = Prediction(s, n)]
                  /\ read' = read + 1
                  /\ agree' = (agree /\ Asked(ZeroCtxs(SigCtx(s, n))))
                  /\ rice' = rice
             /\ ~Skipped(s, n) /\ BitAt(read) # 0 =>
                  /\ dest' = [dest EXCEPT ![n] = Sign(BitAt(read + 1)) * (Plain(s, n, c) + 1) + Prediction(s, n)]
                  /\ read' = read + Len(CellCtxs(s, n))
                  /\ agree' = (agree /\ Asked(CellCtxs(s, n)))
                  /\ rice' = Tracked(rice, IF mode = 14 /\ ~base THEN c ELSE Plain(s, n, c), Window)
<1>1. phase = "decode" /\ at <= w * h /\ ~InFlat(CellAt(at))
  BY DEF DecodeCell
<1>2. Plane
  BY TypeFacts, Zenon
<1>3. at \in 1 .. w * h
  BY <1>1, AtTyped
<1>4. PICK n, s : n = CellAt(at) /\ s = Decoder
  OBVIOUS
<1>5. n \in Cells
  BY <1>2, <1>3, <1>4, ScanCell
<1>6. mode = 16 => flags[BlockOf(n)] # 1
  BY <1>1, <1>4 DEF InFlat
<1>7. Passed(n) <=> Skipped(s, n)
  BY <1>4 DEF Passed, Skipped, Decoder
<1>8. PICK k, q, c : k = LocalK(s, n) /\ q = QuotientAt(read + 2) /\ c = RiceAt(read + 2, k)
  OBVIOUS
<1>9. PICK sig, all, p : sig = ZeroCtxs(SigCtx(s, n)) /\ all = CellCtxs(s, n) /\ p = Plain(s, n, c)
  OBVIOUS
<1>10. IF Passed(n) THEN UNCHANGED <<rice, read, dest, agree>>
       ELSE IF BitAt(read) = 0
       THEN /\ dest' = [dest EXCEPT ![n] = Prediction(s, n)]
            /\ read' = read + 1
            /\ agree' = (agree /\ Asked(sig))
            /\ UNCHANGED rice
       ELSE /\ dest' = [dest EXCEPT ![n] = Sign(BitAt(read + 1)) * (p + 1) + Prediction(s, n)]
            /\ read' = read + Len(all)
            /\ agree' = (agree /\ Asked(all))
            /\ rice' = Tracked(rice, IF mode = 14 /\ ~base THEN c ELSE p, Window)
  <2>1. all = <<<<SigCtx(s, n), FALSE>>>> \o (<<<<SignCtx(s, n), FALSE>>>> \o RiceCtxs(s, n, q, k))
    BY <1>8, <1>9, Zenon DEF CellCtxs, SignedCtxs, SlowCtx
  <2>2. sig = <<<<SigCtx(s, n), FALSE>>>>
    BY <1>9, Zenon DEF ZeroCtxs, SlowCtx
  <2>3. p = (IF Residual THEN Unzigzag(c, MagPrediction(s, n)) ELSE c)
    BY <1>9, Zenon DEF Plain
  <2>4. Sign(BitAt(read + 1)) = IF BitAt(read + 1) = 1 THEN -1 ELSE 1
    BY Zenon DEF Sign
  <2> QED BY <1>4, <1>8, <2>1, <2>2, <2>3, <2>4, Zenon DEF DecodeCell
<1>11. /\ Skipped(s, n) => rice' = rice /\ read' = read /\ dest' = dest /\ agree' = agree
       /\ ~Skipped(s, n) /\ BitAt(read) = 0 =>
            /\ dest' = [dest EXCEPT ![n] = Prediction(s, n)]
            /\ read' = read + 1
            /\ agree' = (agree /\ Asked(sig))
            /\ rice' = rice
       /\ ~Skipped(s, n) /\ BitAt(read) # 0 =>
            /\ dest' = [dest EXCEPT ![n] = Sign(BitAt(read + 1)) * (p + 1) + Prediction(s, n)]
            /\ read' = read + Len(all)
            /\ agree' = (agree /\ Asked(all))
            /\ rice' = Tracked(rice, IF mode = 14 /\ ~base THEN c ELSE p, Window)
  BY <1>7, <1>10, Zenon
<1> QED BY <1>1, <1>3, <1>4, <1>5, <1>6, <1>8, <1>9, <1>11, Zenon

LEMMA DecodeFlatIs ==
  ASSUME TypeInv, DecodeFlat
  PROVE  LET n == CellAt(at)
             b == BlockOf(n)
             s == Decoder
             m == RiceAt(read + 2, ValueK(s, b))
         IN  /\ phase = "decode" /\ at \in 1 .. w * h /\ n \in Cells /\ b \in BlockIds
             /\ mode = 16 /\ Blocks /\ flags[b] = 1 /\ at = Start(b)
             /\ at' = at + Cardinality(CellsOf(b))
             /\ BitAt(read) = 0 =>
                  /\ dest' = Painted(b, ValuePrediction(s, b) + 0)
                  /\ read' = read + Len(ZeroCtxs(ValueCtx(s, b)))
                  /\ agree' = (agree /\ Asked(ZeroCtxs(ValueCtx(s, b))))
                  /\ valueRice' = valueRice
             /\ BitAt(read) # 0 =>
                  /\ dest' = Painted(b, ValuePrediction(s, b) + IF BitAt(read + 1) = 1 THEN -(m + 1) ELSE m + 1)
                  /\ read' = read + Len(FlatCtxs(s, b, n))
                  /\ agree' = (agree /\ Asked(FlatCtxs(s, b, n)))
                  /\ valueRice' = Tracked(valueRice, m, ValueWindow)
<1>1. phase = "decode" /\ at <= w * h /\ InFlat(CellAt(at))
  BY DEF DecodeFlat
<1>2. PICK n, s : n = CellAt(at) /\ s = Decoder
  OBVIOUS
<1>3. PICK b : b = BlockOf(n)
  OBVIOUS
<1>4. mode = 16 /\ Blocks /\ b \in BlockIds /\ at = Start(b) /\ at \in 1 .. w * h
  BY <1>1, <1>2, <1>3, FlatFacts
<1>5. Plane
  BY TypeFacts, Zenon
<1>6. n \in Cells /\ flags[b] = 1
  BY <1>1, <1>2, <1>3, <1>4, <1>5, ScanCell DEF InFlat
<1>7. PICK k, m : k = ValueK(s, b) /\ m = RiceAt(read + 2, k)
  OBVIOUS
<1>8. PICK zero, all : zero = ZeroCtxs(ValueCtx(s, b)) /\ all = FlatCtxs(s, b, n)
  OBVIOUS
<1>9. <<<<ValueCtx(s, b), FALSE>>>> \o <<>> = zero
  <2>1. SlowCtx(ValueCtx(s, b)) \in CtxSet
    BY ValueCtxTyped, CtxTyped
  <2>2. PICK e : e = SlowCtx(ValueCtx(s, b))
    OBVIOUS
  <2>3. <<e>> \o <<>> = <<e>>
    <3>1. <<e>> \in Seq(CtxSet)
      BY <2>1, <2>2
    <3> QED BY <3>1, ConcatEmptySeq
  <2> QED BY <1>8, <2>2, <2>3, Zenon DEF ZeroCtxs, SlowCtx
<1>10. all = <<<<ValueCtx(s, b), FALSE>>>> \o (<<<<ValueSignCtx(s, b), FALSE>>>> \o RiceCtxs(s, n, QuotientAt(read + 2), k))
  BY <1>7, <1>8, Zenon DEF FlatCtxs, SignedCtxs, SlowCtx
<1>11. /\ at' = at + Cardinality(CellsOf(b))
       /\ BitAt(read) = 0 =>
            /\ dest' = Painted(b, ValuePrediction(s, b) + 0)
            /\ read' = read + Len(<<<<ValueCtx(s, b), FALSE>>>> \o <<>>)
            /\ agree' = (agree /\ Asked(<<<<ValueCtx(s, b), FALSE>>>> \o <<>>))
            /\ valueRice' = valueRice
       /\ BitAt(read) # 0 =>
            /\ dest' = Painted(b, ValuePrediction(s, b) + IF BitAt(read + 1) = 1 THEN -(m + 1) ELSE m + 1)
            /\ read' = read + Len(<<<<ValueCtx(s, b), FALSE>>>> \o (<<<<ValueSignCtx(s, b), FALSE>>>> \o RiceCtxs(s, n, QuotientAt(read + 2), k)))
            /\ agree' = (agree /\ Asked(<<<<ValueCtx(s, b), FALSE>>>> \o (<<<<ValueSignCtx(s, b), FALSE>>>> \o RiceCtxs(s, n, QuotientAt(read + 2), k))))
            /\ valueRice' = Tracked(valueRice, m, ValueWindow)
  <2>1. CASE BitAt(read) = 0
    BY <1>2, <1>3, <1>7, <2>1, Zenon DEF DecodeFlat, Painted
  <2>2. CASE BitAt(read) # 0
    BY <1>2, <1>3, <1>7, <2>2, Zenon DEF DecodeFlat, Painted
  <2> QED BY <2>1, <2>2, Zenon
<1> QED BY <1>1, <1>2, <1>3, <1>4, <1>6, <1>7, <1>8, <1>9, <1>10, <1>11, Zenon

LEMMA DecodeFlagsTypeInv == TypeInv /\ DecodeFlags => TypeInv'
<1> SUFFICES ASSUME TypeInv, DecodeFlags PROVE TypeInv'
  OBVIOUS
<1>1. /\ JobOK /\ Plane /\ at = 1 /\ at \in 1 .. w * h + 1
      /\ trace \in Seq(Events) /\ read \in Nat \ {0}
      /\ rice \in RiceStates(Window) /\ valueRice \in RiceStates(ValueWindow)
      /\ dest \in [Cells -> Int] /\ agree \in BOOLEAN
  BY TypeFacts, Zenon DEF DecodeFlags
<1>2. /\ UNCHANGED job /\ phase' = "decode" /\ at' = at /\ rice' = rice /\ valueRice' = valueRice
      /\ trace' = trace /\ dest' = dest
  BY Zenon DEF DecodeFlags
<1>3. Blocks => flags' \in [BlockIds -> {0, 1}]
  <2> SUFFICES ASSUME Blocks PROVE flags' \in [BlockIds -> {0, 1}]
    OBVIOUS
  <2>1. flags' = [b \in BlockIds |-> BitAt(b + 1)]
    BY Zenon DEF DecodeFlags
  <2>2. ASSUME NEW b \in BlockIds PROVE BitAt(b + 1) \in {0, 1}
    <3>1. b + 1 \in Nat \ {0}
      BY <1>1, BlockSizes
    <3> QED BY <1>1, <3>1, BitAtTyped
  <2> QED BY <2>1, <2>2
<1>4. AtStart'
  <2>1. mode = 16 => StartsAt({b \in BlockIds : flags'[b] = 1}, 1)
    BY <1>1, FirstStart DEF Blocks
  <2> QED BY <1>1, <1>2, <2>1, AtStartNext
<1>5. read' \in Nat \ {0} /\ agree' \in BOOLEAN
  <2>1. CASE Blocks
    <3>1. PICK l : l = Cardinality(BlockIds)
      OBVIOUS
    <3>2. l \in Nat
      BY <1>1, <3>1, BlockSizes
    <3>3. read' = read + l
      BY <2>1, <3>1, Zenon DEF DecodeFlags
    <3>4. \E c : agree' = Asked(c)
      BY <2>1, Zenon DEF DecodeFlags
    <3>5. agree' \in BOOLEAN
      BY <3>4, Zenon DEF Asked
    <3> QED BY <1>1, <3>2, <3>3, <3>5
  <2>2. CASE ~Blocks
    <3>1. read' = read /\ agree' = agree
      BY <2>2, Zenon DEF DecodeFlags
    <3> QED BY <1>1, <3>1, Zenon
  <2> QED BY <2>1, <2>2
<1>6. FlagsTyped'
  BY <1>2, <1>3, FlagsNext
<1>7. /\ at' \in 1 .. w * h + 1 /\ trace' \in Seq(Events)
      /\ rice' \in RiceStates(Window) /\ valueRice' \in RiceStates(ValueWindow)
      /\ dest' \in [Cells -> Int]
  BY <1>1, <1>2, Zenon
<1> QED BY <1>2, <1>4, <1>5, <1>6, <1>7, TypeInvNext

LEMMA AgreeTyped ==
  ASSUME NEW c, agree' = (agree /\ Asked(c))
  PROVE  agree' \in BOOLEAN
BY Zenon DEF Asked

LEMMA DecodeCellTypeInv == TypeInv /\ DecodeCell => TypeInv'
<1> SUFFICES ASSUME TypeInv, DecodeCell PROVE TypeInv'
  OBVIOUS
<1>1. /\ JobOK /\ Plane /\ trace \in Seq(Events) /\ read \in Nat \ {0}
      /\ rice \in RiceStates(Window) /\ valueRice \in RiceStates(ValueWindow)
      /\ dest \in [Cells -> Int] /\ agree \in BOOLEAN
      /\ phase \in {"encode", "decode"} => FlagsTyped /\ AtStart
  BY TypeFacts, Zenon
<1>2. /\ UNCHANGED job /\ phase' = phase /\ at' = at + 1 /\ valueRice' = valueRice
      /\ flags' = flags /\ trace' = trace
  BY Zenon DEF DecodeCell
<1>3. PICK n, s, k, c : n = CellAt(at) /\ s = Decoder /\ k = LocalK(s, n) /\ c = RiceAt(read + 2, k)
  OBVIOUS
<1>4. PICK all, p, x : all = CellCtxs(s, n) /\ p = Plain(s, n, c) /\ x = Prediction(s, n)
  OBVIOUS
<1>5. /\ phase = "decode" /\ at \in 1 .. w * h /\ n \in Cells
      /\ mode = 16 => flags[BlockOf(CellAt(at))] # 1
      /\ Skipped(s, n) => rice' = rice /\ read' = read /\ dest' = dest /\ agree' = agree
      /\ ~Skipped(s, n) /\ BitAt(read) = 0 =>
           /\ dest' = [dest EXCEPT ![n] = x]
           /\ read' = read + 1
           /\ agree' = (agree /\ Asked(ZeroCtxs(SigCtx(s, n))))
           /\ rice' = rice
      /\ ~Skipped(s, n) /\ BitAt(read) # 0 =>
           /\ dest' = [dest EXCEPT ![n] = Sign(BitAt(read + 1)) * (p + 1) + x]
           /\ read' = read + Len(all)
           /\ agree' = (agree /\ Asked(all))
           /\ rice' = Tracked(rice, IF mode = 14 /\ ~base THEN c ELSE p, Window)
  BY <1>3, <1>4, DecodeCellIs, Zenon
<1>6. Sided(s) /\ read + 2 \in Nat \ {0}
  BY <1>1, <1>3, SidedEncoder
<1>7. k \in 0 .. MaxK
  BY <1>3, <1>6, LocalKTyped
<1>8. c \in Nat /\ QuotientAt(read + 2) \in Nat
  BY <1>1, <1>3, <1>6, <1>7, RiceTyped
<1>9. p \in Int /\ x \in Int
  BY <1>1, <1>4, <1>5, <1>6, <1>8, PlainTyped, PredictionTyped
<1>10. Len(all) \in Nat
  <2>1. SigCtx(s, n) \in 0 .. NumCtx - 1 /\ SignCtx(s, n) \in 0 .. NumCtx - 1
    BY <1>1, <1>5, <1>6, SigCtxTyped DEF NumCtx
  <2>2. RiceCtxs(s, n, QuotientAt(read + 2), k) \in Seq(CtxSet)
    BY <1>1, <1>5, <1>6, <1>7, <1>8, RiceCtxsFacts DEF RiceRead
  <2>3. all = SignedCtxs(SigCtx(s, n), SignCtx(s, n), RiceCtxs(s, n, QuotientAt(read + 2), k))
    BY <1>3, <1>4, Zenon DEF CellCtxs
  <2>4. all \in Seq(CtxSet)
    BY <2>1, <2>2, <2>3, SignedCtxsFacts
  <2> QED BY <2>4
<1>11. /\ rice' \in RiceStates(Window) /\ read' \in Nat \ {0}
       /\ dest' \in [Cells -> Int] /\ agree' \in BOOLEAN
  <2>1. CASE Skipped(s, n)
    BY <1>1, <1>5, <2>1, Zenon
  <2>2. CASE ~Skipped(s, n) /\ BitAt(read) = 0
    <3>1. dest' \in [Cells -> Int]
      BY <1>1, <1>5, <1>9, <2>2
    <3>2. read' \in Nat \ {0}
      BY <1>1, <1>5, <2>2
    <3>3. agree' \in BOOLEAN
      BY <1>5, <2>2, AgreeTyped, Zenon
    <3> QED BY <1>1, <1>5, <2>2, <3>1, <3>2, <3>3, Zenon
  <2>3. CASE ~Skipped(s, n) /\ BitAt(read) # 0
    <3>1. Sign(BitAt(read + 1)) * (p + 1) + x \in Int
      BY <1>9 DEF Sign
    <3>2. dest' \in [Cells -> Int]
      BY <1>1, <1>5, <2>3, <3>1
    <3>3. read' \in Nat \ {0}
      BY <1>1, <1>5, <1>10, <2>3
    <3>4. agree' \in BOOLEAN
      BY <1>5, <2>3, AgreeTyped, Zenon
    <3>5. PICK y : y = IF mode = 14 /\ ~base THEN c ELSE p
      OBVIOUS
    <3>6. y \in Int
      BY <1>8, <1>9, <3>5
    <3>7. rice' = Tracked(rice, y, Window)
      BY <1>5, <2>3, <3>5, Zenon
    <3>8. Window \in Nat \ {0}
      BY BandCoderAssumption
    <3>9. Tracked(rice, y, Window) \in RiceStates(Window)
      BY <1>1, <3>6, <3>8, TrackedTyped
    <3> QED BY <3>2, <3>3, <3>4, <3>7, <3>9, Zenon
  <2> QED BY <2>1, <2>2, <2>3
<1>12. at' \in 1 .. w * h + 1
  BY <1>1, <1>2, <1>5, NextPosition
<1>13. UNCHANGED <<job, flags>> /\ FlagsTyped /\ phase \in {"encode", "decode"}
  BY <1>1, <1>2, <1>5
<1>14. AtStart' /\ FlagsTyped'
  BY <1>1, <1>2, <1>5, <1>13, CellAtStart, FlagsNext
<1>15. trace' \in Seq(Events) /\ valueRice' \in RiceStates(ValueWindow)
  BY <1>1, <1>2, Zenon
<1>16. phase' = "decode"
  BY <1>2, <1>5
<1> QED BY <1>2, <1>11, <1>12, <1>14, <1>15, <1>16, TypeInvNext

LEMMA DecodeFlatTypeInv == TypeInv /\ DecodeFlat => TypeInv'
<1> SUFFICES ASSUME TypeInv, DecodeFlat PROVE TypeInv'
  OBVIOUS
<1>1. /\ JobOK /\ Plane /\ trace \in Seq(Events) /\ read \in Nat \ {0}
      /\ rice \in RiceStates(Window) /\ valueRice \in RiceStates(ValueWindow)
      /\ dest \in [Cells -> Int] /\ agree \in BOOLEAN
      /\ phase \in {"encode", "decode"} => FlagsTyped /\ AtStart
  BY TypeFacts, Zenon
<1>2. /\ UNCHANGED job /\ phase' = phase /\ rice' = rice
      /\ flags' = flags /\ trace' = trace
  BY Zenon DEF DecodeFlat
<1>3. PICK n, b, s : n = CellAt(at) /\ b = BlockOf(CellAt(at)) /\ s = Decoder
  OBVIOUS
<1>4. PICK k, m, zero, all : /\ k = ValueK(s, b) /\ m = RiceAt(read + 2, k)
                             /\ zero = ZeroCtxs(ValueCtx(s, b)) /\ all = FlatCtxs(s, b, n)
  OBVIOUS
<1>5. PICK x, v : x = ValuePrediction(s, b) /\ v = IF BitAt(read + 1) = 1 THEN -(m + 1) ELSE m + 1
  OBVIOUS
<1>6. /\ phase = "decode" /\ n \in Cells /\ b \in BlockIds /\ Blocks
      /\ at = Start(b) /\ at' = at + Cardinality(CellsOf(b))
      /\ BitAt(read) = 0 =>
           /\ dest' = Painted(b, x + 0)
           /\ read' = read + Len(zero)
           /\ agree' = (agree /\ Asked(zero))
           /\ valueRice' = valueRice
      /\ BitAt(read) # 0 =>
           /\ dest' = Painted(b, x + v)
           /\ read' = read + Len(all)
           /\ agree' = (agree /\ Asked(all))
           /\ valueRice' = Tracked(valueRice, m, ValueWindow)
  BY <1>3, <1>4, <1>5, DecodeFlatIs, Zenon
<1>7. Sided(s) /\ read + 2 \in Nat \ {0}
  BY <1>1, <1>3, SidedEncoder
<1>8. k \in 0 .. MaxK
  BY <1>4, <1>7, ValueKTyped
<1>9. m \in Nat /\ QuotientAt(read + 2) \in Nat
  BY <1>1, <1>4, <1>7, <1>8, RiceTyped
<1>10. x \in Int /\ v \in Int
  BY <1>1, <1>5, <1>6, <1>7, <1>9, ResidueTyped
<1>11. Len(all) \in Nat /\ Len(zero) \in Nat
  <2>1. ValueCtx(s, b) \in 0 .. NumCtx - 1 /\ ValueSignCtx(s, b) \in 0 .. NumCtx - 1
    BY ValueCtxTyped
  <2>2. RiceCtxs(s, n, QuotientAt(read + 2), k) \in Seq(CtxSet)
    BY <1>1, <1>6, <1>7, <1>8, <1>9, RiceCtxsFacts DEF RiceRead
  <2>3. all = SignedCtxs(ValueCtx(s, b), ValueSignCtx(s, b), RiceCtxs(s, n, QuotientAt(read + 2), k))
    BY <1>4, Zenon DEF FlatCtxs
  <2>4. all \in Seq(CtxSet) /\ zero \in Seq(CtxSet)
    BY <1>4, <2>1, <2>2, <2>3, SignedCtxsFacts
  <2> QED BY <2>4
<1>12. /\ valueRice' \in RiceStates(ValueWindow) /\ read' \in Nat \ {0}
       /\ dest' \in [Cells -> Int] /\ agree' \in BOOLEAN
  <2>1. \A y \in Int : Painted(b, y) \in [Cells -> Int]
    BY <1>1 DEF Painted
  <2>2. CASE BitAt(read) = 0
    <3>1. dest' \in [Cells -> Int]
      BY <1>6, <1>10, <2>1, <2>2
    <3>2. read' \in Nat \ {0}
      BY <1>1, <1>6, <1>11, <2>2
    <3>3. agree' \in BOOLEAN
      BY <1>6, <2>2, AgreeTyped, Zenon
    <3> QED BY <1>1, <1>6, <2>2, <3>1, <3>2, <3>3, Zenon
  <2>3. CASE BitAt(read) # 0
    <3>1. dest' \in [Cells -> Int]
      BY <1>6, <1>10, <2>1, <2>3
    <3>2. read' \in Nat \ {0}
      BY <1>1, <1>6, <1>11, <2>3
    <3>3. agree' \in BOOLEAN
      BY <1>6, <2>3, AgreeTyped, Zenon
    <3>4. valueRice' \in RiceStates(ValueWindow)
      <4>1. valueRice' = Tracked(valueRice, m, ValueWindow)
        BY <1>6, <2>3, Zenon
      <4>2. ValueWindow \in Nat \ {0} /\ m \in Int
        BY <1>9, BandCoderAssumption
      <4>3. Tracked(valueRice, m, ValueWindow) \in RiceStates(ValueWindow)
        BY <1>1, <4>2, TrackedTyped
      <4> QED BY <4>1, <4>3, Zenon
    <3> QED BY <3>1, <3>2, <3>3, <3>4
  <2> QED BY <2>2, <2>3
<1>13. UNCHANGED <<job, flags>> /\ FlagsTyped /\ phase \in {"encode", "decode"}
  BY <1>1, <1>2, <1>6
<1>14. AtStart' /\ at' \in 1 .. w * h + 1
  BY <1>1, <1>6, <1>13, FlatAtStart
<1>15. FlagsTyped'
  BY <1>2, <1>13, FlagsNext
<1>16. trace' \in Seq(Events) /\ rice' \in RiceStates(Window)
  BY <1>1, <1>2, Zenon
<1>17. phase' = "decode"
  BY <1>2, <1>6
<1> QED BY <1>2, <1>12, <1>14, <1>15, <1>16, <1>17, TypeInvNext

LEMMA StutterTypeInv == TypeInv /\ UNCHANGED vars => TypeInv'
<1> SUFFICES ASSUME TypeInv, UNCHANGED vars PROVE TypeInv'
  OBVIOUS
<1>1. /\ at \in 1 .. w * h + 1 /\ trace \in Seq(Events) /\ read \in Nat \ {0}
      /\ rice \in RiceStates(Window) /\ valueRice \in RiceStates(ValueWindow)
      /\ dest \in [Cells -> Int] /\ agree \in BOOLEAN /\ JobOK /\ Plane
      /\ phase \in {"flags", "encode", "read flags", "decode", "done"}
      /\ phase \in {"encode", "decode"} => FlagsTyped /\ AtStart
      /\ phase \in {"flags", "read flags"} => at = 1
  BY TypeFacts, Zenon DEF TypeInv
<1>2. /\ UNCHANGED job /\ phase' = phase /\ at' = at /\ rice' = rice /\ valueRice' = valueRice
      /\ flags' = flags /\ trace' = trace /\ read' = read /\ dest' = dest /\ agree' = agree
  BY Zenon DEF vars
<1>3. /\ at' \in 1 .. w * h + 1 /\ trace' \in Seq(Events) /\ read' \in Nat \ {0}
      /\ rice' \in RiceStates(Window) /\ valueRice' \in RiceStates(ValueWindow)
      /\ dest' \in [Cells -> Int] /\ agree' \in BOOLEAN
      /\ phase' \in {"flags", "encode", "read flags", "decode", "done"}
      /\ phase' \in {"flags", "read flags"} => at' = 1
  BY <1>1, <1>2, Zenon
<1>4. ASSUME phase \in {"encode", "decode"} PROVE FlagsTyped' /\ AtStart'
  <2>1. FlagsTyped'
    BY <1>1, <1>2, <1>4, FlagsNext
  <2>2. mode = 16 => StartsAt({b \in BlockIds : flags'[b] = 1}, at')
    <3> SUFFICES ASSUME mode = 16, at <= w * h, BlockOf(CellAt(at)) \in {b \in BlockIds : flags[b] = 1}
                 PROVE  at = Start(BlockOf(CellAt(at)))
      BY <1>2 DEF StartsAt
    <3> QED BY <1>1, <1>4 DEF AtStart, InFlat
  <2>3. at' \in Nat \ {0}
    BY <1>2, AtTyped
  <2> QED BY <1>1, <1>2, <2>1, <2>2, <2>3, AtStartNext
<1> QED BY <1>2, <1>3, <1>4, TypeInvNext

LEMMA NextTypeInv == TypeInv /\ [Next]_vars => TypeInv'
<1> SUFFICES ASSUME TypeInv, [Next]_vars PROVE TypeInv'
  OBVIOUS
<1>1. CASE EncodeFlags
  BY <1>1, EncodeFlagsTypeInv
<1>2. CASE EncodeCell
  BY <1>2, EncodeCellTypeInv
<1>3. CASE EncodeFlat
  BY <1>3, EncodeFlatTypeInv
<1>4. CASE StartDecoding
  BY <1>4, StartDecodingTypeInv
<1>5. CASE DecodeFlags
  BY <1>5, DecodeFlagsTypeInv
<1>6. CASE DecodeCell
  BY <1>6, DecodeCellTypeInv
<1>7. CASE DecodeFlat
  BY <1>7, DecodeFlatTypeInv
<1>8. CASE EndDecoding
  BY <1>8, EndDecodingTypeInv
<1>9. CASE UNCHANGED vars
  BY <1>9, StutterTypeInv
<1> QED BY <1>1, <1>2, <1>3, <1>4, <1>5, <1>6, <1>7, <1>8, <1>9, Zenon DEF Next

\* TypeOK is implied: a coded bit has one of the contexts of BandProbs.
LEMMA TypeInvTypeOK == TypeInv => TypeOK
<1> SUFFICES ASSUME TypeInv PROVE TypeOK
  OBVIOUS
<1>1. /\ at \in 1 .. w * h + 1 /\ trace \in Seq(Events)
      /\ rice \in RiceStates(Window) /\ valueRice \in RiceStates(ValueWindow)
      /\ dest \in [Cells -> Int] /\ agree \in BOOLEAN
      /\ phase \in {"flags", "encode", "read flags", "decode", "done"}
  BY TypeFacts, Zenon DEF TypeInv
<1>2. \A i \in DOMAIN trace : trace[i] \in Events
  <2>1. trace \in Seq(Events)
    BY <1>1, Zenon
  <2> QED BY <2>1
<1>3. /\ rice.k \in 0 .. MaxK /\ rice.count \in 0 .. Window - 1
      /\ valueRice.k \in 0 .. MaxK /\ valueRice.count \in 0 .. ValueWindow - 1
  <2>1. rice \in RiceStates(Window) /\ valueRice \in RiceStates(ValueWindow)
    BY <1>1, Zenon
  <2> QED BY <2>1 DEF RiceStates
<1> QED BY <1>1, <1>2, <1>3, Zenon DEF TypeOK, Events

\* The types and the position at the start of a flat block are kept by every step.
THEOREM TypeInvariance == Spec => []TypeInv
<1>1. Init => TypeInv
  BY InitTypeInv
<1>2. TypeInv /\ [Next]_vars => TypeInv'
  BY NextTypeInv
<1> QED BY <1>1, <1>2, PTL DEF Spec

\* Every coded bit has one of the contexts of BandProbs, and the Rice state is in range.
THEOREM TypeCorrect == Spec => []TypeOK
<1>1. TypeInv => TypeOK
  BY TypeInvTypeOK
<1> QED BY <1>1, TypeInvariance, PTL

--------------------------------------------------------------------------------
(* The encoder's run, as a function of the job *)

\* Base bands in modes 13 and 14 code no magnitude: their quotient is never set.
MagnitudesCoded == \A kind \in Kinds : ~(kind[2] /\ kind[1] \in {13, 14})

Magnitude(s, n) == IF Residual THEN Zigzag(Abs(Diff(s, n)) - 1 - MagPrediction(s, n))
                   ELSE Abs(Diff(s, n)) - 1

Flags == IF Blocks THEN [b \in BlockIds |-> Flag(b)] ELSE <<>>
FlagBits == IF Blocks THEN [b \in 1 .. Cardinality(BlockIds) |-> Slow(FlagCtx(Flags, b - 1), Flags[b - 1])]
            ELSE <<>>
IsFlat(p) == mode = 16 /\ Flags[BlockOf(CellAt(p))] = 1

\* What the encoder sees, what it writes and where it stands afterwards, from where it stood at e.
Side(e) == [cells |-> band, parent |-> parent, scale |-> Steps[2],
            flags |-> Flags, k |-> e.rice.k, vk |-> e.valueRice.k]
Bits(e) == IF IsFlat(e.at) THEN FlatBits(Side(e), BlockOf(CellAt(e.at)), CellAt(e.at))
           ELSE CellBits(Side(e), CellAt(e.at), Magnitude(Side(e), CellAt(e.at)))
After(e) ==
  IF IsFlat(e.at)
  THEN [at |-> e.at + Cardinality(CellsOf(BlockOf(CellAt(e.at)))), rice |-> e.rice,
        valueRice |-> FlatRice(Side(e), BlockOf(CellAt(e.at)), e.valueRice),
        bits |-> e.bits + Len(Bits(e))]
  ELSE [at |-> e.at + 1,
        rice |-> CellRice(Side(e), CellAt(e.at), Magnitude(Side(e), CellAt(e.at)), e.rice),
        valueRice |-> e.valueRice, bits |-> e.bits + Len(Bits(e))]

\* Where it stands behind the flags.
First == [at |-> 1, rice |-> Untracked(k0), valueRice |-> Untracked(0), bits |-> Len(FlagBits)]

LEMMA SteadyRun ==
  ASSUME UNCHANGED job
  PROVE  /\ \A f, b : FlagCtx(f, b)' = FlagCtx(f, b)
         /\ Flags' = Flags
         /\ \A e : Side(e)' = Side(e)
         /\ \A p : (IsFlat(p)' <=> IsFlat(p))
         /\ \A e : Bits(e)' = Bits(e)
         /\ \A e : After(e)' = After(e)
         /\ FlagBits' = FlagBits
         /\ First' = First
<1>1. mode' = mode /\ base' = base /\ orient' = orient /\ w' = w /\ h' = h /\ band' = band
      /\ parent' = parent /\ k0' = k0
  BY JobKept
<1>2. /\ Cells' = Cells
      /\ \A n : X(n)' = X(n)
      /\ \A n : Y(n)' = Y(n)
      /\ (Blocks' <=> Blocks)
      /\ BlocksWide' = BlocksWide
      /\ BlockIds' = BlockIds
      /\ \A n : BlockOf(n)' = BlockOf(n)
      /\ \A i : CellAt(i)' = CellAt(i)
      /\ \A b : CellsOf(b)' = CellsOf(b)
      /\ \A b : Start(b)' = Start(b)
  BY SteadyPlane
<1>3. \A b : Flag(b)' = Flag(b)
  BY <1>1, <1>2 DEF Flag
<1>4. (ParentMag' <=> ParentMag)
  BY <1>1 DEF ParentMag
<1>5. (Residual' <=> Residual)
  BY <1>1 DEF Residual
<1>7. \A s, n : Left(s, n)' = Left(s, n)
  BY <1>1, <1>2 DEF Left
<1>8. \A s, n : Above(s, n)' = Above(s, n)
  BY <1>1, <1>2 DEF Above
<1>9. \A s, n : AboveLeft(s, n)' = AboveLeft(s, n)
  BY <1>1, <1>2 DEF AboveLeft
<1>10. \A s, n : ParentAt(s, n)' = ParentAt(s, n)
  BY <1>1, <1>2 DEF ParentAt
<1>11. \A s, n : ParentBlock(s, n)' = ParentBlock(s, n)
  BY <1>1, <1>2 DEF ParentBlock
<1>12. \A s, n : PClass(s, n)' = PClass(s, n)
  BY <1>1, <1>11 DEF PClass
<1>13. \A s, n : PMean(s, n)' = PMean(s, n)
  BY <1>1, <1>11 DEF PMean
<1>14. \A s, n : SigContext(s, n)' = SigContext(s, n)
  BY <1>1, <1>7, <1>8, <1>9 DEF SigContext
<1>15. \A s, n : SignContext(s, n)' = SignContext(s, n)
  BY <1>1, <1>7, <1>8 DEF SignContext
<1>16. \A s, n : Energy(s, n)' = Energy(s, n)
  BY <1>1, <1>7, <1>8, <1>9 DEF Energy
<1>17. \A s, n : (TextRun(s, n)' <=> TextRun(s, n))
  BY <1>1, <1>2 DEF TextRun
<1>18. \A s, n : SecondOrder(s, n)' = SecondOrder(s, n)
  BY <1>1, <1>2, <1>14 DEF SecondOrder
<1>19. \A s, n : Bit(TextRun(s, n)') = Bit(TextRun(s, n))
  BY <1>17 DEF Bit
<1>20. \A s, n : Bit(TextRun(s, n))' = Bit(TextRun(s, n))
  BY <1>17 DEF Bit
<1>21. \A s, n : SigCtx(s, n)' = SigCtx(s, n)
  BY <1>1, <1>10, <1>4, <1>14, <1>12, <1>16, <1>18, <1>17, <1>19, <1>20 DEF SigCtx
<1>22. \A s, n : SignCtx(s, n)' = SignCtx(s, n)
  BY <1>1, <1>4, <1>15, <1>10 DEF SignCtx
<1>23. \A s, n, i : UnaryCtx(s, n, i)' = UnaryCtx(s, n, i)
  BY <1>1, <1>7, <1>8, <1>4, <1>12 DEF UnaryCtx
<1>24. \A i : RemCtx(i)' = RemCtx(i)
  BY <1>1, <1>4 DEF RemCtx
<1>25. \A s, n : Gap(s, n)' = Gap(s, n)
  BY <1>1, <1>7, <1>8, <1>9, <1>2 DEF Gap
<1>26. \A s, n : Prediction(s, n)' = Prediction(s, n)
  BY <1>1, <1>7, <1>8, <1>9, <1>2, <1>25 DEF Prediction
<1>27. \A s, n : MagPrediction(s, n)' = MagPrediction(s, n)
  BY <1>1, <1>7, <1>8, <1>13 DEF MagPrediction
<1>28. \A s, there, n : NeighbourResidual(s, there, n)' = NeighbourResidual(s, there, n)
  BY <1>1, <1>13 DEF NeighbourResidual
<1>29. \A s, n : LocalK(s, n)' = LocalK(s, n)
  BY <1>1, <1>28, <1>2, <1>7, <1>8 DEF LocalK
<1>30. \A f, b : (FlagLeft(f, b)' <=> FlagLeft(f, b))
  BY <1>1, <1>2 DEF FlagLeft
<1>31. \A f, b : (FlagAbove(f, b)' <=> FlagAbove(f, b))
  BY <1>1, <1>2 DEF FlagAbove
<1>32. \A f, b : FlagCtx(f, b)' = FlagCtx(f, b)
  BY <1>1, <1>30, <1>31 DEF FlagCtx
<1>33. \A s, b : ValueOf(s, b)' = ValueOf(s, b)
  BY <1>1, <1>2 DEF ValueOf
<1>34. \A s, b : ValuePrediction(s, b)' = ValuePrediction(s, b)
  BY <1>1, <1>30, <1>31, <1>33, <1>2 DEF ValuePrediction
<1>35. \A s, b : Residue(s, b)' = Residue(s, b)
  BY <1>1, <1>33, <1>34 DEF Residue
<1>36. \A s, b : LeftResidue(s, b)' = LeftResidue(s, b)
  BY <1>1, <1>30, <1>35 DEF LeftResidue
<1>37. \A s, b : AboveResidue(s, b)' = AboveResidue(s, b)
  BY <1>1, <1>31, <1>35, <1>2 DEF AboveResidue
<1>38. \A s, b : ValueCtx(s, b)' = ValueCtx(s, b)
  BY <1>1, <1>36, <1>37 DEF ValueCtx
<1>39. \A s, b : ValueSignCtx(s, b)' = ValueSignCtx(s, b)
  BY <1>1, <1>36, <1>37 DEF ValueSignCtx
<1>40. \A s, b : ValueK(s, b)' = ValueK(s, b)
  BY <1>1, <1>36, <1>37 DEF ValueK
<1>41. \A s, n, m, k : Rice(s, n, m, k)' = Rice(s, n, m, k)
  <2> SUFFICES ASSUME NEW s, NEW n, NEW m, NEW k PROVE Rice(s, n, m, k)' = Rice(s, n, m, k)
    OBVIOUS
  <2>1. \A i : UnaryCtx(s, n, i - 1)' = UnaryCtx(s, n, i - 1)
    BY <1>23, Zenon
  <2>2. \A i : RemCtx(i - 1)' = RemCtx(i - 1)
    BY <1>24, Zenon
  <2>3. Fast' = Fast
    BY <1>1 DEF Fast
  <2> QED BY <2>1, <2>2, <2>3, ZenonT(30) DEF Rice
<1>42. \A s, n : (Skipped(s, n)' <=> Skipped(s, n))
  BY <1>1, <1>2 DEF Skipped
<1>43. \A s, n : Diff(s, n)' = Diff(s, n)
  BY <1>1, <1>26 DEF Diff
<1>44. \A s, n : Magnitude(s, n)' = Magnitude(s, n)
  BY <1>1, <1>5, <1>27, <1>43 DEF Magnitude
<1>45. \A s, n, m : CellBits(s, n, m)' = CellBits(s, n, m)
  BY <1>1, <1>42, <1>21, <1>22, <1>43, <1>41, <1>29 DEF CellBits
<1>46. \A s, n, m, r : CellRice(s, n, m, r)' = CellRice(s, n, m, r)
  BY <1>1, <1>42, <1>43 DEF CellRice
<1>47. \A s, b, n : FlatBits(s, b, n)' = FlatBits(s, b, n)
  BY <1>1, <1>38, <1>39, <1>35, <1>41, <1>40 DEF FlatBits
<1>48. \A s, b, r : FlatRice(s, b, r)' = FlatRice(s, b, r)
  BY <1>1, <1>35 DEF FlatRice
<1>49. Flags' = Flags
  BY <1>1, <1>2, <1>3 DEF Flags
<1>50. \A e : Side(e)' = Side(e)
  BY <1>1, <1>49 DEF Side
<1>51. \A p : (IsFlat(p)' <=> IsFlat(p))
  BY <1>1, <1>49, <1>2 DEF IsFlat
<1>52. \A e : Bits(e)' = Bits(e)
  BY <1>1, <1>51, <1>47, <1>45, <1>50, <1>2, <1>44 DEF Bits
<1>53. \A e : After(e)' = After(e)
  BY <1>1, <1>51, <1>52, <1>48, <1>46, <1>50, <1>2, <1>44 DEF After
<1>54. FlagBits' = FlagBits
  BY <1>1, <1>2, <1>32, <1>49 DEF FlagBits
<1>55. First' = First
  BY <1>1, <1>54 DEF First
<1> QED BY <1>32, <1>49, <1>50, <1>51, <1>52, <1>53, <1>54, <1>55

Entries == [at : Nat \ {0}, rice : RiceStates(Window), valueRice : RiceStates(ValueWindow), bits : Nat]

\* P is a run of the encoder that writes T: it begins behind the flags, every entry follows from
\* the one before, and what each step writes stands in T where the step began.
RunOK(P, T) ==
  /\ P \in Seq(Entries) /\ Len(P) > 0 /\ P[1] = First
  /\ \A j \in 1 .. Len(P) : P[j].at <= w * h + 1 /\ P[j].bits <= Len(T)
  /\ \A j \in 1 .. Len(P) - 1 :
       /\ P[j].at <= w * h /\ P[j + 1] = After(P[j])
       /\ \A i \in 1 .. Len(Bits(P[j])) : T[P[j].bits + i] = Bits(P[j])[i]
  /\ \A i \in 1 .. Len(FlagBits) : T[i] = FlagBits[i]
  /\ P[Len(P)].bits = Len(T)

Here == [at |-> at, rice |-> rice, valueRice |-> valueRice, bits |-> Len(trace)]

EncodeInv ==
  /\ ~(base /\ mode \in {13, 14})
  /\ phase = "flags" => /\ past = <<>> /\ trace = <<>> /\ flags = <<>>
                        /\ rice = Untracked(k0) /\ valueRice = Untracked(0)
  /\ phase # "flags" => RunOK(past, trace)
  /\ phase = "encode" => past[Len(past)] = Here /\ flags = Flags
  /\ phase \in {"read flags", "decode", "done"} => past[Len(past)].at = w * h + 1

\* The magnitude matters only where one is coded.
LEMMA MagnitudeUsed ==
  ASSUME NEW s, NEW n, NEW m, NEW r, ~Skipped(s, n) /\ Diff(s, n) # 0 => m = Magnitude(s, n)
  PROVE  /\ CellBits(s, n, m) = CellBits(s, n, Magnitude(s, n))
         /\ CellRice(s, n, m, r) = CellRice(s, n, Magnitude(s, n), r)
<1>1. CASE Skipped(s, n)
  BY <1>1, Zenon DEF CellBits, CellRice
<1>2. CASE ~Skipped(s, n) /\ Diff(s, n) = 0
  BY <1>2, Zenon DEF CellBits, CellRice, SignedBits
<1>3. CASE ~Skipped(s, n) /\ Diff(s, n) # 0
  BY <1>3, Zenon
<1> QED BY <1>1, <1>2, <1>3

LEMMA MagnitudeTyped ==
  ASSUME JobOK, NEW s, Sided(s), NEW n \in Cells, Diff(s, n) # 0
  PROVE  Magnitude(s, n) \in Nat
<1>1. PICK a : a = Abs(Diff(s, n)) - 1
  OBVIOUS
<1>2. a \in Nat
  BY <1>1, DiffTyped
<1>3. CASE Residual
  <2>1. a - MagPrediction(s, n) \in Int
    BY <1>2, <1>3, MagPredictionTyped
  <2>2. Magnitude(s, n) = Zigzag(a - MagPrediction(s, n))
    BY <1>1, <1>3, Zenon DEF Magnitude
  <2> QED BY <2>1, <2>2, ZigzagUndone
<1>4. CASE ~Residual
  BY <1>1, <1>2, <1>4 DEF Magnitude
<1> QED BY <1>3, <1>4

LEMMA SideTyped ==
  ASSUME JobOK, NEW e \in Entries
  PROVE  Sided(Side(e))
<1>1. e.rice.k \in 0 .. MaxK /\ e.valueRice.k \in 0 .. MaxK
  BY DEF Entries, RiceStates
<1>2. Steps[2] \in Nat
  BY BandCoderAssumption
<1>3. band \in [Cells -> Int] /\ (~base => parent \in [ParentCells -> Int])
  BY Zenon DEF JobOK
<1>4. /\ Side(e).cells = band /\ Side(e).parent = parent /\ Side(e).scale = Steps[2]
      /\ Side(e).k = e.rice.k /\ Side(e).vk = e.valueRice.k
  BY DEF Side
<1> QED BY <1>1, <1>2, <1>3, <1>4 DEF Sided

\* What a step writes is a list of bits, and it leaves the parameters in range.
LEMMA RunTyped ==
  ASSUME JobOK, NEW e \in Entries, e.at \in 1 .. w * h
  PROVE  /\ Bits(e) \in Codes /\ Len(Bits(e)) \in Nat /\ After(e).bits = e.bits + Len(Bits(e))
         /\ After(e).at \in Nat \ {0} => After(e) \in Entries
<1>1. Plane /\ Sided(Side(e))
  BY SideTyped DEF JobOK
<1>2. PICK n, s : n = CellAt(e.at) /\ s = Side(e)
  OBVIOUS
<1>3. PICK b : b = BlockOf(n)
  OBVIOUS
<1>4. n \in Cells /\ b \in BlockIds
  BY <1>1, <1>2, <1>3, ScanCell
<1>5. e.rice \in RiceStates(Window) /\ e.valueRice \in RiceStates(ValueWindow) /\ e.bits \in Nat
  BY DEF Entries
<1>6. CASE IsFlat(e.at)
  <2>1. Bits(e) = FlatBits(s, b, n)
    BY <1>2, <1>3, <1>6, Zenon DEF Bits
  <2>2. Bits(e) \in Codes
    BY <1>1, <1>2, <1>4, <2>1, FlatBitsTyped DEF Codes
  <2>3. Len(Bits(e)) \in Nat
    BY <2>2 DEF Codes
  <2>4. PICK a, v, l : a = e.at + Cardinality(CellsOf(b)) /\ v = FlatRice(s, b, e.valueRice) /\ l = e.bits + Len(Bits(e))
    OBVIOUS
  <2>5. After(e) = [at |-> a, rice |-> e.rice, valueRice |-> v, bits |-> l]
    BY <1>2, <1>3, <1>6, <2>4, Zenon DEF After
  <2>6. v \in RiceStates(ValueWindow) /\ l \in Nat
    BY <1>1, <1>2, <1>4, <1>5, <2>3, <2>4, FlatRiceTyped
  <2>7. After(e).at = a /\ After(e).bits = l
    BY <2>5
  <2>8. a \in Nat \ {0} => After(e) \in Entries
    BY <1>5, <2>5, <2>6 DEF Entries
  <2> QED BY <2>2, <2>3, <2>4, <2>7, <2>8
<1>7. CASE ~IsFlat(e.at)
  <2>1. Bits(e) = CellBits(s, n, Magnitude(s, n))
    BY <1>2, <1>7, Zenon DEF Bits
  <2>2. \E m \in Nat : /\ CellBits(s, n, m) = CellBits(s, n, Magnitude(s, n))
                       /\ CellRice(s, n, m, e.rice) = CellRice(s, n, Magnitude(s, n), e.rice)
    <3>1. CASE Diff(s, n) # 0
      <4>1. Magnitude(s, n) \in Nat
        BY <1>1, <1>2, <1>4, <3>1, MagnitudeTyped
      <4> QED BY <4>1, Zenon
    <3>2. CASE Diff(s, n) = 0
      <4>1. 0 \in Nat
        OBVIOUS
      <4> QED BY <3>2, <4>1, MagnitudeUsed, Zenon
    <3> QED BY <3>1, <3>2
  <2>3. PICK m \in Nat : /\ CellBits(s, n, m) = CellBits(s, n, Magnitude(s, n))
                         /\ CellRice(s, n, m, e.rice) = CellRice(s, n, Magnitude(s, n), e.rice)
    BY <2>2
  <2>4. Bits(e) \in Codes
    BY <1>1, <1>2, <1>4, <2>1, <2>3, CellBitsTyped DEF Codes
  <2>5. Len(Bits(e)) \in Nat
    BY <2>4 DEF Codes
  <2>6. PICK a, v, l : a = e.at + 1 /\ v = CellRice(s, n, Magnitude(s, n), e.rice) /\ l = e.bits + Len(Bits(e))
    OBVIOUS
  <2>7. After(e) = [at |-> a, rice |-> v, valueRice |-> e.valueRice, bits |-> l]
    BY <1>2, <1>7, <2>6, Zenon DEF After
  <2>8. v \in RiceStates(Window) /\ l \in Nat
    BY <1>1, <1>2, <1>4, <1>5, <2>3, <2>5, <2>6, CellRiceTyped
  <2>9. After(e).at = a /\ After(e).bits = l
    BY <2>7
  <2>10. a \in Nat \ {0} => After(e) \in Entries
    BY <1>5, <2>7, <2>8 DEF Entries
  <2> QED BY <2>4, <2>5, <2>6, <2>9, <2>10
<1> QED BY <1>6, <1>7

\* One more step.
LEMMA RunExtends ==
  ASSUME JobOK, NEW P, NEW T \in Codes, RunOK(P, T), P[Len(P)].at \in 1 .. w * h,
         After(P[Len(P)]).at \in 1 .. w * h + 1
  PROVE  RunOK(Append(P, After(P[Len(P)])), Extended(T, Bits(P[Len(P)])))
<1>1. PICK l : l = Len(P)
  OBVIOUS
<1>2. P \in Seq(Entries) /\ l \in Nat \ {0} /\ P[1] = First
  BY <1>1 DEF RunOK
<1>3. PICK e : e = P[l]
  OBVIOUS
<1>4. e \in Entries /\ e.bits \in Nat /\ e.bits = Len(T)
  <2>1. e \in Entries
    BY <1>1, <1>2, <1>3
  <2>2. e.bits = Len(T)
    BY <1>1, <1>3 DEF RunOK
  <2> QED BY <2>1, <2>2 DEF Entries
<1>5. PICK a : a = w * h + 1
  OBVIOUS
<1>6. After(e).at \in 1 .. a /\ a \in Nat /\ After(e).at \in Nat \ {0}
  <2>1. PICK x, y : x = w * h /\ y = After(e).at
    OBVIOUS
  <2>2. x \in Nat
    BY <2>1, AreaFacts DEF JobOK
  <2>3. y \in 1 .. x + 1
    BY <1>1, <1>3, <2>1
  <2> QED BY <1>5, <2>1, <2>2, <2>3
<1>7. PICK B, f : B = Bits(e) /\ f = After(e)
  OBVIOUS
<1>8. B \in Codes /\ Len(B) \in Nat /\ f \in Entries /\ f.bits = e.bits + Len(B) /\ f.at <= a
  BY <1>1, <1>3, <1>4, <1>6, <1>7, RunTyped, SMTT(30)
<1>9. PICK t, u : t = Len(T) /\ u = Len(B)
  OBVIOUS
<1>10. PICK T2, P2 : T2 = Extended(T, B) /\ P2 = Append(P, f)
  OBVIOUS
<1>11. /\ T2 \in Codes /\ Len(T2) = t + u /\ t \in Nat /\ u \in Nat
       /\ \A i \in 1 .. t : T2[i] = T[i]
       /\ \A i \in 1 .. u : T2[t + i] = B[i]
  BY <1>8, <1>9, <1>10, ExtendedFacts
<1>12. /\ P2 \in Seq(Entries) /\ Len(P2) = l + 1 /\ P2[l + 1] = f
       /\ \A j \in 1 .. l : P2[j] = P[j]
  BY <1>1, <1>2, <1>8, <1>10, AppendProperties
<1>13. Len(P2) > 0 /\ P2[1] = First
  BY <1>2, <1>12
<1>14. ASSUME NEW j \in 1 .. l + 1 PROVE P2[j].at <= a /\ P2[j].bits <= t + u
  <2>1. CASE j = l + 1
    BY <1>4, <1>8, <1>9, <1>11, <1>12, <2>1
  <2>2. CASE j \in 1 .. l
    <3>1. P[j].at <= a /\ P[j].bits <= t
      BY <1>1, <1>5, <1>9, <2>2 DEF RunOK
    <3>2. P[j] \in Entries
      BY <1>1, <1>2, <2>2
    <3>3. PICK x : x = P[j].bits
      OBVIOUS
    <3>4. x \in Nat
      BY <3>2, <3>3 DEF Entries
    <3>5. x <= t + u
      BY <1>11, <3>1, <3>3, <3>4
    <3> QED BY <1>12, <2>2, <3>1, <3>3, <3>5
  <2> QED BY <1>2, <2>1, <2>2
<1>15. ASSUME NEW j \in 1 .. l
       PROVE  /\ P2[j].at <= w * h /\ P2[j + 1] = After(P2[j])
              /\ \A i \in 1 .. Len(Bits(P2[j])) : T2[P2[j].bits + i] = Bits(P2[j])[i]
  <2>1. P2[j] = P[j]
    BY <1>12
  <2>2. CASE j = l
    <3>1. P2[j] = e /\ P2[j + 1] = f
      BY <1>3, <1>12, <2>1, <2>2
    <3>2. e.at <= w * h
      <4>1. PICK x, y : x = w * h /\ y = e.at
        OBVIOUS
      <4>2. y \in 1 .. x
        BY <1>1, <1>3, <4>1
      <4> QED BY <4>1, <4>2
    <3>3. \A i \in 1 .. Len(B) : T2[e.bits + i] = B[i]
      BY <1>4, <1>9, <1>11
    <3> QED BY <1>7, <3>1, <3>2, <3>3
  <2>3. CASE j # l
    <3>1. j \in 1 .. l - 1 /\ j + 1 \in 1 .. l
      BY <1>2, <2>3
    <3>2. /\ P[j].at <= w * h /\ P[j + 1] = After(P[j])
          /\ \A i \in 1 .. Len(Bits(P[j])) : T[P[j].bits + i] = Bits(P[j])[i]
      BY <1>1, <3>1 DEF RunOK
    <3>3. P2[j + 1] = P[j + 1]
      BY <1>12, <3>1
    <3>4. PICK c, x, v : c = Bits(P[j]) /\ x = P[j].bits /\ v = Len(Bits(P[j]))
      OBVIOUS
    <3>5. x \in Nat /\ v \in Nat /\ x + v <= t
      <4>1. P[j] \in Entries /\ P[j].at \in 1 .. w * h
        <5>1. P[j] \in Entries
          BY <1>2, <1>1
        <5>2. PICK y, z : y = P[j].at /\ z = w * h
          OBVIOUS
        <5>3. y \in Nat \ {0} /\ y <= z /\ z \in Nat
          BY <3>2, <5>1, <5>2, AreaFacts DEF Entries, JobOK
        <5> QED BY <5>1, <5>2, <5>3
      <4>2. v \in Nat /\ After(P[j]).bits = x + v
        BY <3>4, <4>1, RunTyped
      <4>3. P[j + 1].bits <= t
        BY <1>1, <1>9, <3>1 DEF RunOK
      <4> QED BY <3>2, <3>4, <4>1, <4>2, <4>3 DEF Entries
    <3>6. ASSUME NEW i \in 1 .. v PROVE T2[x + i] = c[i]
      <4>1. x + i \in 1 .. t
        BY <1>11, <3>5
      <4> QED BY <1>11, <3>2, <3>4, <4>1
    <3> QED BY <2>1, <3>2, <3>3, <3>4, <3>6
  <2> QED BY <2>2, <2>3
<1>16. \A i \in 1 .. Len(FlagBits) : T2[i] = FlagBits[i]
  <2>1. PICK g : g = Len(FlagBits)
    OBVIOUS
  <2>2. g \in Nat /\ g <= t
    <3>1. P[1].bits <= Len(T) /\ P[1] \in Entries
      BY <1>1, <1>2 DEF RunOK
    <3>2. P[1].bits = g
      BY <1>2, <2>1 DEF First
    <3> QED BY <1>9, <3>1, <3>2 DEF Entries
  <2>3. \A i \in 1 .. g : T[i] = FlagBits[i]
    BY <2>1 DEF RunOK
  <2> QED BY <1>11, <2>1, <2>2, <2>3
<1>17. P2[l + 1].bits = t + u
  BY <1>4, <1>8, <1>9, <1>12
<1>18. (l + 1) - 1 = l
  BY <1>2
<1>19. \A j \in 1 .. Len(P2) : P2[j].at <= w * h + 1 /\ P2[j].bits <= Len(T2)
  BY <1>5, <1>11, <1>12, <1>14, Zenon
<1>20. \A j \in 1 .. Len(P2) - 1 :
         /\ P2[j].at <= w * h /\ P2[j + 1] = After(P2[j])
         /\ \A i \in 1 .. Len(Bits(P2[j])) : T2[P2[j].bits + i] = Bits(P2[j])[i]
  BY <1>12, <1>15, <1>18, Zenon
<1>21. P2[Len(P2)].bits = Len(T2)
  BY <1>11, <1>12, <1>17, Zenon
<1>22. RunOK(P2, T2)
  BY <1>12, <1>13, <1>16, <1>19, <1>20, <1>21, Zenon DEF RunOK
<1> QED BY <1>1, <1>3, <1>7, <1>10, <1>22, Zenon

LEMMA SteadyRunOK ==
  ASSUME UNCHANGED job
  PROVE  \A P, T : (RunOK(P, T)' <=> RunOK(P, T))
<1>1. First' = First /\ FlagBits' = FlagBits /\ (\A e : Bits(e)' = Bits(e)) /\ (\A e : After(e)' = After(e))
  BY SteadyRun
<1>2. w' = w /\ h' = h
  BY JobKept
<1>3. (w * h)' = w * h
  BY <1>2
<1> TAKE P, T
<1>4. \A j : Bits(P[j])' = Bits(P[j]) /\ After(P[j])' = After(P[j])
  BY <1>1
<1> QED BY <1>1, <1>3, <1>4, Zenon DEF RunOK

LEMMA TypedNext ==
  ASSUME TypeInv', UNCHANGED job
  PROVE  trace' \in Codes /\ at' \in 1 .. w * h + 1
<1>1. trace' \in Seq(Events) /\ at' \in 1 .. w' * h' + 1
  BY Zenon DEF TypeInv
<1>2. w' = w /\ h' = h
  BY JobKept
<1> QED BY <1>1, <1>2 DEF Codes

LEMMA EncodeInvInit == MagnitudesCoded /\ Init => EncodeInv
<1> SUFFICES ASSUME MagnitudesCoded, Init PROVE EncodeInv
  OBVIOUS
<1>1. PICK kind \in Kinds : mode = kind[1] /\ base = kind[2]
  BY DEF Init
<1>2. ~(base /\ mode \in {13, 14})
  BY <1>1 DEF MagnitudesCoded
<1> QED BY <1>2 DEF EncodeInv, Init

LEMMA FirstRun ==
  ASSUME JobOK, FlagBits \in Codes
  PROVE  RunOK(<<First>>, FlagBits)
<1>1. Len(FlagBits) \in Nat
  BY DEF Codes
<1>2. PICK l : l = Len(FlagBits)
  OBVIOUS
<1>3. /\ Untracked(k0) \in RiceStates(Window) /\ Untracked(0) \in RiceStates(ValueWindow)
  <2>1. k0 \in 0 .. MaxK /\ 0 \in 0 .. MaxK
    BY DEF JobOK, MaxK
  <2> QED BY <2>1, UntrackedTyped, BandCoderAssumption
<1>4. First \in Entries /\ First.bits = l /\ First.at = 1
  <2>1. 1 \in Nat \ {0} /\ l \in Nat
    BY <1>1, <1>2
  <2> QED BY <1>2, <1>3, <2>1, Zenon DEF First, Entries
<1>5. PICK f, P : f = First /\ P = <<f>>
  OBVIOUS
<1>6. P \in Seq(Entries) /\ Len(P) = 1 /\ P[1] = f
  BY <1>4, <1>5
<1>7. 1 <= w * h + 1
  <2>1. PICK a : a = w * h
    OBVIOUS
  <2>2. a \in Nat
    BY <2>1, AreaFacts DEF JobOK
  <2> QED BY <2>1, <2>2
<1>8. \A j \in 1 .. Len(P) : P[j].at <= w * h + 1 /\ P[j].bits <= Len(FlagBits)
  BY <1>1, <1>2, <1>4, <1>5, <1>6, <1>7
<1>9. 1 .. Len(P) - 1 = {}
  BY <1>6
<1>10. \A j \in 1 .. Len(P) - 1 :
         /\ P[j].at <= w * h /\ P[j + 1] = After(P[j])
         /\ \A i \in 1 .. Len(Bits(P[j])) : FlagBits[P[j].bits + i] = Bits(P[j])[i]
  BY <1>9, Zenon
<1>11. Len(P) > 0 /\ P[1] = First /\ P[Len(P)].bits = Len(FlagBits)
  BY <1>2, <1>4, <1>5, <1>6
<1>12. RunOK(P, FlagBits)
  BY <1>6, <1>8, <1>10, <1>11, Zenon DEF RunOK
<1> QED BY <1>5, <1>12, Zenon

LEMMA EncodeFlagsRun == TypeInv /\ EncodeInv /\ EncodeFlags => EncodeInv'
<1> SUFFICES ASSUME TypeInv, EncodeInv, EncodeFlags PROVE EncodeInv'
  OBVIOUS
<1>1. /\ phase = "flags" /\ phase' = "encode" /\ UNCHANGED job
      /\ at' = at /\ rice' = rice /\ valueRice' = valueRice
  BY DEF EncodeFlags
<1>2. past = <<>> /\ trace = <<>> /\ flags = <<>> /\ rice = Untracked(k0) /\ valueRice = Untracked(0) /\ at = 1
  BY <1>1, TypeFacts DEF EncodeInv
<1>3. flags' = Flags
  BY <1>2, Zenon DEF EncodeFlags, Flags
<1>4. trace' = FlagBits
  <2>1. CASE Blocks
    <3>1. trace' = [b \in 1 .. Cardinality(BlockIds) |-> Event(FlagCtx(flags', b - 1), FALSE, flags'[b - 1])]
      BY <2>1, Zenon DEF EncodeFlags
    <3>2. trace' = [b \in 1 .. Cardinality(BlockIds) |-> Slow(FlagCtx(Flags, b - 1), Flags[b - 1])]
      BY <1>3, <3>1, Zenon DEF Slow
    <3> QED BY <2>1, <3>2, Zenon DEF FlagBits
  <2>2. CASE ~Blocks
    BY <1>2, <2>2, Zenon DEF EncodeFlags, FlagBits
  <2> QED BY <2>1, <2>2
<1>5. TypeInv'
  BY EncodeFlagsTypeInv
<1>6. JobOK /\ FlagBits \in Codes
  <2>1. trace' \in Codes
    BY <1>1, <1>5, TypedNext
  <2> QED BY <1>4, <2>1, TypeFacts, Zenon
<1>7. RunOK(<<First>>, FlagBits)
  BY <1>6, FirstRun
<1>8. past' = Append(past, [at |-> at', rice |-> rice', valueRice |-> valueRice', bits |-> Len(trace')])
  BY Zenon DEF EncodeFlags, Stands
<1>9. [at |-> at', rice |-> rice', valueRice |-> valueRice', bits |-> Len(trace')] = First
  BY <1>1, <1>2, <1>4 DEF First
<1>10. past' = <<First>>
  <2>1. PICK f : f = First
    OBVIOUS
  <2>2. past' = Append(<<>>, f)
    BY <1>2, <1>8, <1>9, <2>1, Zenon
  <2> QED BY <2>1, <2>2
<1>11. RunOK(past, trace)'
  BY <1>1, <1>4, <1>7, <1>10, SteadyRunOK
<1>12. past'[Len(past')] = First
  <2>1. PICK f : f = First
    OBVIOUS
  <2> QED BY <1>10, <2>1
<1>13. Here' = First
  BY <1>9 DEF Here
<1>14. Flags' = Flags /\ mode' = mode /\ base' = base
  BY <1>1, SteadyRun, JobKept
<1> QED BY <1>1, <1>3, <1>11, <1>12, <1>13, <1>14 DEF EncodeInv

\* The encoder goes on from where it stands.
LEMMA HereFacts ==
  ASSUME TypeInv, EncodeInv, phase = "encode"
  PROVE  /\ Encoder = Side(Here) /\ past[Len(past)] = Here /\ RunOK(past, trace)
         /\ trace \in Codes /\ Here \in Entries
         /\ Here.at = at /\ Here.rice = rice /\ Here.valueRice = valueRice /\ Here.bits = Len(trace)
<1>1. past[Len(past)] = Here /\ flags = Flags /\ RunOK(past, trace)
  BY Zenon DEF EncodeInv
<1>2. Here.at = at /\ Here.rice = rice /\ Here.valueRice = valueRice /\ Here.bits = Len(trace)
  BY DEF Here
<1>3. Encoder = Side(Here)
  BY <1>1, <1>2 DEF Encoder, Side
<1>4. trace \in Codes
  BY TypeFacts DEF Codes
<1>5. Here \in Entries
  <2>1. rice \in RiceStates(Window) /\ valueRice \in RiceStates(ValueWindow) /\ at \in Nat \ {0}
    BY TypeFacts, AtTyped, Zenon
  <2>2. Len(trace) \in Nat
    BY <1>4 DEF Codes
  <2> QED BY <2>1, <2>2 DEF Here, Entries
<1> QED BY <1>1, <1>2, <1>3, <1>4, <1>5, Zenon

\* One step of the scan takes the run on.
LEMMA RunGoesOn ==
  ASSUME TypeInv, EncodeInv, TypeInv', phase = "encode", phase' = "encode", UNCHANGED <<job, flags>>, Stands,
         at \in 1 .. w * h, After(Here) = Here', trace' = Extended(trace, Bits(Here))
  PROVE  EncodeInv'
<1>1. /\ past[Len(past)] = Here /\ RunOK(past, trace) /\ trace \in Codes /\ Here.at = at
  BY HereFacts, Zenon
<1>2. UNCHANGED job
  OBVIOUS
<1>3. After(Here).at \in 1 .. w * h + 1
  <2>1. Here'.at = at'
    BY DEF Here
  <2> QED BY <1>2, <2>1, TypedNext
<1>4. JobOK
  BY TypeFacts
<1>5. RunOK(Append(past, After(Here)), Extended(trace, Bits(Here)))
  BY <1>1, <1>3, <1>4, RunExtends
<1>6. past' = Append(past, Here')
  BY Zenon DEF Stands, Here
<1>7. RunOK(past, trace)'
  BY <1>2, <1>5, <1>6, SteadyRunOK
<1>8. past'[Len(past')] = Here'
  <2>1. past \in Seq(Entries)
    BY <1>1 DEF RunOK
  <2>2. PICK f, P : f = Here' /\ P = past
    OBVIOUS
  <2>3. Append(P, f)[Len(Append(P, f))] = f
    BY <2>1, <2>2, AppendProperties
  <2> QED BY <1>6, <2>2, <2>3, Zenon
<1>9. Flags' = Flags /\ mode' = mode /\ base' = base
  BY <1>2, SteadyRun, JobKept
<1>10. flags' = flags /\ flags = Flags
  BY DEF EncodeInv
<1> QED BY <1>7, <1>8, <1>9, <1>10 DEF EncodeInv

LEMMA EncodeCellRun == TypeInv /\ EncodeInv /\ EncodeCell => EncodeInv'
<1> SUFFICES ASSUME TypeInv, EncodeInv, EncodeCell PROVE EncodeInv'
  OBVIOUS
<1>1. /\ phase = "encode" /\ phase' = "encode" /\ UNCHANGED job /\ at' = at + 1 /\ flags' = flags
      /\ valueRice' = valueRice /\ Stands
  BY DEF EncodeCell
<1>2. PICK n, s : n = CellAt(at) /\ s = Encoder
  OBVIOUS
<1>3. /\ Side(Here) = s /\ Here.at = at /\ Here.rice = rice /\ Here.valueRice = valueRice /\ Here.bits = Len(trace)
      /\ trace \in Codes
  BY <1>1, <1>2, HereFacts, Zenon
<1>4. at \in 1 .. w * h /\ n \in Cells /\ (mode = 16 => flags[BlockOf(n)] # 1)
  BY <1>2, EncodeCellIs, Zenon
<1>5. PICK m \in Nat : /\ ~Skipped(s, n) /\ Diff(s, n) # 0 => m \in Coded(s, n, Abs(Diff(s, n)) - 1)
                       /\ trace' = Extended(trace, CellBits(s, n, m))
                       /\ rice' = CellRice(s, n, m, rice)
  BY <1>2, EncodeCellIs, Zenon
<1>6. ~Skipped(s, n) /\ Diff(s, n) # 0 => m = Magnitude(s, n)
  <2>1. ~(base /\ mode \in {13, 14})
    BY DEF EncodeInv
  <2> QED BY <1>5, <2>1 DEF Coded, Magnitude
<1>7. /\ trace' = Extended(trace, CellBits(s, n, Magnitude(s, n)))
      /\ rice' = CellRice(s, n, Magnitude(s, n), rice)
  BY <1>5, <1>6, MagnitudeUsed
<1>8. ~IsFlat(at)
  <2>1. flags = Flags
    BY <1>1 DEF EncodeInv
  <2> QED BY <1>2, <1>4, <2>1 DEF IsFlat
<1>9. Bits(Here) = CellBits(s, n, Magnitude(s, n))
  BY <1>2, <1>3, <1>8, Zenon DEF Bits
<1>10. Len(trace') = Len(trace) + Len(Bits(Here))
  <2>1. PICK e : e = Here
    OBVIOUS
  <2>2. e \in Entries /\ JobOK /\ e.at \in 1 .. w * h
    BY <1>1, <1>3, <1>4, <2>1, HereFacts, TypeFacts
  <2>3. Bits(e) \in Codes
    BY <2>2, RunTyped
  <2>4. trace' = Extended(trace, Bits(e))
    BY <1>7, <1>9, <2>1, Zenon
  <2> QED BY <1>3, <2>1, <2>3, <2>4, ExtendedFacts
<1>11. After(Here) = [at |-> at + 1, rice |-> CellRice(s, n, Magnitude(s, n), rice), valueRice |-> valueRice,
                      bits |-> Len(trace) + Len(Bits(Here))]
  BY <1>2, <1>3, <1>8, Zenon DEF After
<1>12. After(Here) = Here'
  BY <1>1, <1>7, <1>10, <1>11, Zenon DEF Here
<1>13. TypeInv'
  BY EncodeCellTypeInv
<1> QED BY <1>1, <1>4, <1>7, <1>9, <1>12, <1>13, RunGoesOn

LEMMA EncodeFlatRun == TypeInv /\ EncodeInv /\ EncodeFlat => EncodeInv'
<1> SUFFICES ASSUME TypeInv, EncodeInv, EncodeFlat PROVE EncodeInv'
  OBVIOUS
<1>1. /\ phase = "encode" /\ phase' = "encode" /\ UNCHANGED job /\ flags' = flags
      /\ rice' = rice /\ Stands
  BY DEF EncodeFlat
<1>2. PICK n, s, b : n = CellAt(at) /\ s = Encoder /\ b = BlockOf(CellAt(at))
  OBVIOUS
<1>3. /\ Side(Here) = s /\ Here.at = at /\ Here.rice = rice /\ Here.valueRice = valueRice /\ Here.bits = Len(trace)
      /\ trace \in Codes
  BY <1>1, <1>2, HereFacts, Zenon
<1>4. /\ at \in 1 .. w * h /\ mode = 16 /\ flags[b] = 1
      /\ at' = at + Cardinality(CellsOf(b))
      /\ trace' = Extended(trace, FlatBits(s, b, n))
      /\ valueRice' = FlatRice(s, b, valueRice)
  BY <1>2, EncodeFlatIs, Zenon
<1>5. IsFlat(at)
  <2>1. flags = Flags
    BY <1>1 DEF EncodeInv
  <2> QED BY <1>2, <1>4, <2>1 DEF IsFlat
<1>6. Bits(Here) = FlatBits(s, b, n)
  BY <1>2, <1>3, <1>5, Zenon DEF Bits
<1>7. Len(trace') = Len(trace) + Len(Bits(Here))
  <2>1. PICK e : e = Here
    OBVIOUS
  <2>2. e \in Entries /\ JobOK /\ e.at \in 1 .. w * h
    BY <1>1, <1>3, <1>4, <2>1, HereFacts, TypeFacts
  <2>3. Bits(e) \in Codes
    BY <2>2, RunTyped
  <2>4. trace' = Extended(trace, Bits(e))
    BY <1>4, <1>6, <2>1, Zenon
  <2> QED BY <1>3, <2>1, <2>3, <2>4, ExtendedFacts
<1>8. After(Here) = [at |-> at + Cardinality(CellsOf(b)), rice |-> rice,
                     valueRice |-> FlatRice(s, b, valueRice), bits |-> Len(trace) + Len(Bits(Here))]
  BY <1>2, <1>3, <1>5, Zenon DEF After
<1>9. After(Here) = Here'
  BY <1>1, <1>4, <1>7, <1>8, Zenon DEF Here
<1>10. TypeInv'
  BY EncodeFlatTypeInv
<1> QED BY <1>1, <1>4, <1>6, <1>9, <1>10, RunGoesOn

\* What comes after the encoder leaves its run alone.
LEMMA RunKept ==
  ASSUME TypeInv, EncodeInv, UNCHANGED <<job, trace, past>>, phase # "flags",
         phase' \in {"read flags", "decode", "done"}, phase = "encode" => at = w * h + 1
  PROVE  EncodeInv'
<1>1. RunOK(past, trace)
  BY DEF EncodeInv
<1>2. RunOK(past, trace)'
  BY <1>1, SteadyRunOK
<1>3. past[Len(past)].at = w * h + 1
  <2>1. phase \in {"encode", "read flags", "decode", "done"}
    BY DEF TypeInv
  <2>2. CASE phase = "encode"
    <3>1. past[Len(past)] = Here /\ Here.at = at
      BY <2>2, HereFacts, Zenon
    <3> QED BY <2>2, <3>1
  <2>3. CASE phase # "encode"
    BY <2>1, <2>3 DEF EncodeInv
  <2> QED BY <2>2, <2>3
<1>4. mode' = mode /\ base' = base /\ (w * h + 1)' = w * h + 1
  BY JobKept
<1>5. past'[Len(past')].at = w' * h' + 1
  BY <1>3, <1>4
<1> QED BY <1>2, <1>4, <1>5 DEF EncodeInv

LEMMA StutterRun == EncodeInv /\ UNCHANGED vars => EncodeInv'
<1> SUFFICES ASSUME EncodeInv, UNCHANGED vars PROVE EncodeInv'
  OBVIOUS
<1>1. /\ UNCHANGED job /\ phase' = phase /\ at' = at /\ rice' = rice /\ valueRice' = valueRice
      /\ flags' = flags /\ trace' = trace /\ past' = past
  BY DEF vars
<1>2. RunOK(past, trace) => RunOK(past, trace)'
  BY <1>1, SteadyRunOK
<1>3. Here' = Here /\ Flags' = Flags
  BY <1>1, SteadyRun DEF Here
<1>4. mode' = mode /\ base' = base /\ (w * h + 1)' = w * h + 1 /\ k0' = k0
  BY <1>1, JobKept
<1>5. phase \in {"read flags", "decode", "done"} => past'[Len(past')].at = w' * h' + 1
  BY <1>1, <1>4 DEF EncodeInv
<1> QED BY <1>1, <1>2, <1>3, <1>4, <1>5 DEF EncodeInv, Untracked

LEMMA NextRun == TypeInv /\ EncodeInv /\ [Next]_vars => EncodeInv'
<1> SUFFICES ASSUME TypeInv, EncodeInv, [Next]_vars PROVE EncodeInv'
  OBVIOUS
<1>1. CASE EncodeFlags
  BY <1>1, EncodeFlagsRun
<1>2. CASE EncodeCell
  BY <1>2, EncodeCellRun
<1>3. CASE EncodeFlat
  BY <1>3, EncodeFlatRun
<1>4. CASE StartDecoding
  BY <1>4, RunKept DEF StartDecoding
<1>5. CASE DecodeFlags
  BY <1>5, RunKept DEF DecodeFlags
<1>6. CASE DecodeCell
  BY <1>6, RunKept DEF DecodeCell
<1>7. CASE DecodeFlat
  BY <1>7, RunKept DEF DecodeFlat
<1>8. CASE EndDecoding
  BY <1>8, RunKept DEF EndDecoding
<1>9. CASE UNCHANGED vars
  BY <1>9, StutterRun
<1> QED BY <1>1, <1>2, <1>3, <1>4, <1>5, <1>6, <1>7, <1>8, <1>9 DEF Next

--------------------------------------------------------------------------------
(* What both sides see *)

\* t sees what s sees of the cells before n, of the flags, of the parameters and, dequantised,
\* of the parent.
Seen(t, s, n) ==
  /\ t.flags = s.flags /\ t.k = s.k /\ t.vk = s.vk
  /\ \A m \in Cells : Before(m, n) => t.cells[m] = s.cells[m]
  /\ ~base => /\ s.parent \in [ParentCells -> Int] /\ s.scale \in Nat \ {0} /\ t.scale = 1
              /\ \A p \in ParentCells : t.parent[p] = s.parent[p] * s.scale

LEMMA SeenNeighbours ==
  ASSUME Plane, NEW s, NEW t, NEW n \in Cells, Seen(t, s, n)
  PROVE  /\ Left(t, n) = Left(s, n) /\ Above(t, n) = Above(s, n) /\ AboveLeft(t, n) = AboveLeft(s, n)
         /\ X(n) > 0 => t.cells[n - 1] = s.cells[n - 1]
         /\ Y(n) > 0 => t.cells[n - w] = s.cells[n - w]
         /\ X(n) > 1 => t.cells[n - 2] = s.cells[n - 2]
         /\ Y(n) > 1 => t.cells[n - 2 * w] = s.cells[n - 2 * w]
         /\ ~Blocks /\ X(n) > 0 /\ Y(n) > 0 => t.cells[n - w + 1] = s.cells[n - w + 1]
<1>1. \A m \in Cells : Before(m, n) => t.cells[m] = s.cells[m]
  BY DEF Seen
<1>2. /\ X(n) > 0 => n - 1 \in Cells /\ Before(n - 1, n)
      /\ Y(n) > 0 => n - w \in Cells /\ Before(n - w, n)
      /\ X(n) > 0 /\ Y(n) > 0 => n - w - 1 \in Cells /\ Before(n - w - 1, n)
      /\ X(n) > 1 => n - 2 \in Cells /\ Before(n - 2, n)
      /\ Y(n) > 1 => n - 2 * w \in Cells /\ Before(n - 2 * w, n)
      /\ X(n) > 0 /\ Y(n) > 0 => n - w + 1 \in Cells /\ n - w + 1 < n
  BY Neighbours
<1>3. /\ X(n) > 0 => t.cells[n - 1] = s.cells[n - 1]
      /\ Y(n) > 0 => t.cells[n - w] = s.cells[n - w]
      /\ X(n) > 0 /\ Y(n) > 0 => t.cells[n - w - 1] = s.cells[n - w - 1]
      /\ X(n) > 1 => t.cells[n - 2] = s.cells[n - 2]
      /\ Y(n) > 1 => t.cells[n - 2 * w] = s.cells[n - 2 * w]
  BY <1>1, <1>2, Zenon
<1>4. ~Blocks /\ X(n) > 0 /\ Y(n) > 0 => Before(n - w + 1, n)
  BY <1>2 DEF Before
<1>5. ~Blocks /\ X(n) > 0 /\ Y(n) > 0 => t.cells[n - w + 1] = s.cells[n - w + 1]
  BY <1>1, <1>2, <1>4, Zenon
<1> QED BY <1>3, <1>5 DEF Left, Above, AboveLeft

LEMMA SeenContexts ==
  ASSUME Plane, NEW s, NEW t, NEW n \in Cells, Seen(t, s, n)
  PROVE  /\ SigContext(t, n) = SigContext(s, n) /\ SignContext(t, n) = SignContext(s, n)
         /\ Energy(t, n) = Energy(s, n) /\ SecondOrder(t, n) = SecondOrder(s, n)
         /\ (TextRun(t, n) <=> TextRun(s, n))
<1>1. /\ Left(t, n) = Left(s, n) /\ Above(t, n) = Above(s, n) /\ AboveLeft(t, n) = AboveLeft(s, n)
      /\ X(n) > 0 => t.cells[n - 1] = s.cells[n - 1]
      /\ Y(n) > 0 => t.cells[n - w] = s.cells[n - w]
      /\ X(n) > 1 => t.cells[n - 2] = s.cells[n - 2]
      /\ Y(n) > 1 => t.cells[n - 2 * w] = s.cells[n - 2 * w]
  BY SeenNeighbours
<1>2. SigContext(t, n) = SigContext(s, n) /\ SignContext(t, n) = SignContext(s, n)
  BY <1>1 DEF SigContext, SignContext
<1>3. Energy(t, n) = Energy(s, n)
  BY <1>1 DEF Energy
<1>4. SecondOrder(t, n) = SecondOrder(s, n)
  <2>1. PICK c : c = SigContext(s, n)
    OBVIOUS
  <2>2. /\ SecondOrder(s, n) = c + 8 * Bit(X(n) > 1 /\ s.cells[n - 2] # 0) + 16 * Bit(Y(n) > 1 /\ s.cells[n - 2 * w] # 0)
        /\ SecondOrder(t, n) = c + 8 * Bit(X(n) > 1 /\ t.cells[n - 2] # 0) + 16 * Bit(Y(n) > 1 /\ t.cells[n - 2 * w] # 0)
    BY <1>2, <2>1, Zenon DEF SecondOrder
  <2>3. /\ Bit(X(n) > 1 /\ t.cells[n - 2] # 0) = Bit(X(n) > 1 /\ s.cells[n - 2] # 0)
        /\ Bit(Y(n) > 1 /\ t.cells[n - 2 * w] # 0) = Bit(Y(n) > 1 /\ s.cells[n - 2 * w] # 0)
    BY <1>1 DEF Bit
  <2> QED BY <2>2, <2>3, Zenon
<1>5. TextRun(t, n) <=> TextRun(s, n)
  <2>1. n \in Nat /\ X(n) \in Nat /\ Y(n) \in Nat
    BY CellFacts DEF Plane
  <2> QED BY <1>1, <2>1 DEF TextRun
<1> QED BY <1>2, <1>3, <1>4, <1>5

LEMMA Scaled ==
  ASSUME NEW a \in Int, NEW c \in Nat \ {0}
  PROVE  Abs(a * c) * 1 = Abs(a) * c /\ (a * c < 0 <=> a < 0) /\ (a * c # 0 <=> a # 0)
<1>1. CASE a >= 0
  <2>1. a * c \in Nat /\ (a > 0 => a * c > 0)
    BY <1>1, MulNat
  <2>2. a = 0 => a * c = 0
    OBVIOUS
  <2>3. Abs(a) = a
    BY <1>1 DEF Abs
  <2>4. PICK p : p = a * c
    OBVIOUS
  <2>5. Abs(p) * 1 = p
    BY <2>1, <2>4 DEF Abs
  <2> QED BY <1>1, <2>1, <2>2, <2>3, <2>4, <2>5
<1>2. CASE a < 0
  <2>1. PICK b : b = -a
    OBVIOUS
  <2>2. b \in Nat /\ b > 0 /\ a = 0 - b /\ c \in Nat
    BY <1>2, <2>1
  <2>3. b * c \in Nat /\ b * c > 0
    BY <2>2, MulNat
  <2>4. a * c = 0 * c - b * c /\ 0 * c = 0
    BY <2>2, MulAdd
  <2>5. PICK p, q : p = a * c /\ q = b * c
    OBVIOUS
  <2>6. p = -q /\ q \in Nat /\ q > 0
    BY <2>3, <2>4, <2>5
  <2>7. Abs(p) * 1 = q
    BY <2>6 DEF Abs
  <2>8. Abs(a) = b
    BY <1>2, <2>1 DEF Abs
  <2> QED BY <1>2, <2>5, <2>6, <2>7, <2>8
<1> QED BY <1>1, <1>2

\* The parent block, in units of the child's step, is the same for both.
LEMMA SeenParent ==
  ASSUME JobOK, ~base, NEW s, NEW t, NEW n, Seen(t, s, n), NEW m \in Cells
  PROVE  /\ ParentBlock(t, m) = ParentBlock(s, m)
         /\ PMean(t, m) = PMean(s, m) /\ PClass(t, m) = PClass(s, m)
         /\ (ParentAt(t, m) # 0 <=> ParentAt(s, m) # 0) /\ (ParentAt(t, m) < 0 <=> ParentAt(s, m) < 0)
<1>1. /\ s.parent \in [ParentCells -> Int] /\ s.scale \in Nat \ {0} /\ t.scale = 1
      /\ \A p \in ParentCells : t.parent[p] = s.parent[p] * s.scale
  BY DEF Seen
<1>2. \A p \in ParentCells : /\ Abs(t.parent[p]) * t.scale = Abs(s.parent[p]) * s.scale
                             /\ (t.parent[p] # 0 <=> s.parent[p] # 0) /\ (t.parent[p] < 0 <=> s.parent[p] < 0)
  <2> SUFFICES ASSUME NEW p \in ParentCells
               PROVE  /\ Abs(t.parent[p]) * t.scale = Abs(s.parent[p]) * s.scale
                      /\ (t.parent[p] # 0 <=> s.parent[p] # 0) /\ (t.parent[p] < 0 <=> s.parent[p] < 0)
    OBVIOUS
  <2>1. PICK a, c : a = s.parent[p] /\ c = s.scale
    OBVIOUS
  <2>2. a \in Int /\ c \in Nat \ {0} /\ t.parent[p] = a * c
    BY <1>1, <2>1
  <2>3. Abs(a * c) * 1 = Abs(a) * c /\ (a * c < 0 <=> a < 0) /\ (a * c # 0 <=> a # 0)
    BY <2>2, Scaled
  <2> QED BY <1>1, <2>1, <2>2, <2>3, Zenon
<1>3. X(m) \in Nat /\ Y(m) \in Nat
  BY CellFacts DEF JobOK, Plane
<1>4. PICK x, y : x = Min({X(m) \div 2, ParentSize[1] - 1}) /\ y = Min({Y(m) \div 2, ParentSize[2] - 1})
  OBVIOUS
<1>5. x \in Nat /\ y \in Nat /\ X(m) \div 2 \in Nat /\ Y(m) \div 2 \in Nat
  <2>1. X(m) \div 2 \in Nat /\ Y(m) \div 2 \in Nat /\ ParentSize[1] - 1 \in Nat /\ ParentSize[2] - 1 \in Nat
    <3>1. ParentSize[1] \in Nat \ {0} /\ ParentSize[2] \in Nat \ {0}
      BY BandCoderAssumption
    <3>2. X(m) \div 2 \in Nat /\ Y(m) \div 2 \in Nat
      BY <1>3
    <3> QED BY <3>1, <3>2
  <2>2. PICK a, b, c, e : a = X(m) \div 2 /\ b = ParentSize[1] - 1 /\ c = Y(m) \div 2 /\ e = ParentSize[2] - 1
    OBVIOUS
  <2>3. a \in Nat /\ b \in Nat /\ c \in Nat /\ e \in Nat
    BY <2>1, <2>2
  <2>4. Min({a, b}) = (IF a <= b THEN a ELSE b) /\ Min({c, e}) = IF c <= e THEN c ELSE e
    BY <2>3, Two
  <2> QED BY <1>4, <2>1, <2>2, <2>3, <2>4
<1>6. \A d \in {0, 1} \X {0, 1} : ParentCell(x + d[1], y + d[2]) \in ParentCells
  <2> SUFFICES ASSUME NEW d \in {0, 1} \X {0, 1} PROVE ParentCell(x + d[1], y + d[2]) \in ParentCells
    OBVIOUS
  <2>1. x + d[1] \in Nat /\ y + d[2] \in Nat
    BY <1>5
  <2> QED BY <2>1, ParentCellTyped
<1>7. \A d \in {0, 1} \X {0, 1} :
        (Abs(t.parent[ParentCell(x + d[1], y + d[2])]) * t.scale) \div Steps[1]
          = (Abs(s.parent[ParentCell(x + d[1], y + d[2])]) * s.scale) \div Steps[1]
  BY <1>2, <1>6, Zenon
<1>8. ParentBlock(t, m) = ParentBlock(s, m)
  <2>1. /\ ParentBlock(t, m) = [d \in {0, 1} \X {0, 1} |-> (Abs(t.parent[ParentCell(x + d[1], y + d[2])]) * t.scale) \div Steps[1]]
        /\ ParentBlock(s, m) = [d \in {0, 1} \X {0, 1} |-> (Abs(s.parent[ParentCell(x + d[1], y + d[2])]) * s.scale) \div Steps[1]]
    BY <1>4, Zenon DEF ParentBlock
  <2> QED BY <1>7, <2>1, Zenon
<1>9. PMean(t, m) = PMean(s, m) /\ PClass(t, m) = PClass(s, m)
  BY <1>8, Zenon DEF PMean, PClass
<1>10. (ParentAt(t, m) # 0 <=> ParentAt(s, m) # 0) /\ (ParentAt(t, m) < 0 <=> ParentAt(s, m) < 0)
  <2>1. PICK p : p = ParentCell(X(m) \div 2, Y(m) \div 2)
    OBVIOUS
  <2>2. p \in ParentCells
    BY <1>5, <2>1, ParentCellTyped
  <2>3. ParentAt(t, m) = t.parent[p] /\ ParentAt(s, m) = s.parent[p]
    BY <2>1, Zenon DEF ParentAt
  <2> QED BY <1>2, <2>2, <2>3, Zenon
<1> QED BY <1>8, <1>9, <1>10

LEMMA SeenParentBits ==
  ASSUME JobOK, NEW s, NEW t, NEW n, Seen(t, s, n), NEW m \in Cells
  PROVE  /\ Bit(ParentAt(t, m) # 0) = Bit(ParentAt(s, m) # 0)
         /\ (ParentAt(t, m) < 0 <=> ParentAt(s, m) < 0)
<1>1. CASE base
  BY <1>1 DEF ParentAt
<1>2. CASE ~base
  BY <1>2, SeenParent DEF Bit
<1> QED BY <1>1, <1>2

LEMMA SeenSig ==
  ASSUME JobOK, NEW s, NEW t, NEW n \in Cells, Seen(t, s, n)
  PROVE  SigCtx(t, n) = SigCtx(s, n) /\ SignCtx(t, n) = SignCtx(s, n)
<1>1. Plane
  BY DEF JobOK
<1>2. /\ SigContext(t, n) = SigContext(s, n) /\ SignContext(t, n) = SignContext(s, n)
      /\ Energy(t, n) = Energy(s, n) /\ SecondOrder(t, n) = SecondOrder(s, n)
      /\ Bit(TextRun(t, n)) = Bit(TextRun(s, n))
  BY <1>1, SeenContexts DEF Bit
<1>3. /\ Bit(ParentAt(t, n) # 0) = Bit(ParentAt(s, n) # 0)
      /\ (ParentAt(t, n) < 0 <=> ParentAt(s, n) < 0)
  BY SeenParentBits
<1>4. ParentMag => PClass(t, n) = PClass(s, n)
  BY SeenParent DEF ParentMag
<1>5. Bit(mode = 4 /\ ParentAt(t, n) < 0) = Bit(mode = 4 /\ ParentAt(s, n) < 0)
  BY <1>3 DEF Bit
<1>6. SignCtx(t, n) = SignCtx(s, n)
  BY <1>2, <1>5, Zenon DEF SignCtx
<1>7. SigCtx(t, n) = SigCtx(s, n)
  BY <1>2, <1>3, <1>4, Zenon DEF SigCtx
<1> QED BY <1>6, <1>7

LEMMA SeenUnary ==
  ASSUME JobOK, NEW s, NEW t, NEW n \in Cells, Seen(t, s, n), NEW i
  PROVE  UnaryCtx(t, n, i) = UnaryCtx(s, n, i)
<1>1. Left(t, n) = Left(s, n) /\ Above(t, n) = Above(s, n)
  BY SeenNeighbours DEF JobOK
<1>2. ParentMag => PClass(t, n) = PClass(s, n)
  BY SeenParent DEF ParentMag
<1> QED BY <1>1, <1>2, Zenon DEF UnaryCtx

\* gap_predict looks at the north-east neighbour, which a scan by blocks may not have come to.
LEMMA SeenGap ==
  ASSUME Plane, ~Blocks, NEW s, NEW t, NEW n \in Cells, Seen(t, s, n)
  PROVE  Gap(t, n) = Gap(s, n)
<1>1. /\ Left(t, n) = Left(s, n) /\ Above(t, n) = Above(s, n) /\ AboveLeft(t, n) = AboveLeft(s, n)
      /\ X(n) > 1 => t.cells[n - 2] = s.cells[n - 2]
      /\ Y(n) > 1 => t.cells[n - 2 * w] = s.cells[n - 2 * w]
      /\ X(n) > 0 /\ Y(n) > 0 => t.cells[n - w + 1] = s.cells[n - w + 1]
  BY SeenNeighbours
<1>2. X(n) \in Nat /\ Y(n) \in Nat
  BY CellFacts DEF Plane
<1>3. CASE X(n) = 0 \/ Y(n) = 0
  BY <1>1, <1>3, Zenon DEF Gap
<1>4. CASE ~(X(n) = 0 \/ Y(n) = 0)
  <2>1. t.cells[n - w + 1] = s.cells[n - w + 1]
    BY <1>1, <1>2, <1>4
  <2>2. (IF X(n) > 1 THEN t.cells[n - 2] ELSE 0) = (IF X(n) > 1 THEN s.cells[n - 2] ELSE 0)
    BY <1>1
  <2>3. (IF Y(n) > 1 THEN t.cells[n - 2 * w] ELSE 0) = (IF Y(n) > 1 THEN s.cells[n - 2 * w] ELSE 0)
    BY <1>1
  <2> QED BY <1>1, <2>1, <2>2, <2>3, Zenon DEF Gap
<1> QED BY <1>3, <1>4

LEMMA SeenPrediction ==
  ASSUME JobOK, NEW s, NEW t, NEW n \in Cells, Seen(t, s, n)
  PROVE  Prediction(t, n) = Prediction(s, n) /\ (Residual => MagPrediction(t, n) = MagPrediction(s, n))
<1>1. /\ Left(t, n) = Left(s, n) /\ Above(t, n) = Above(s, n) /\ AboveLeft(t, n) = AboveLeft(s, n)
  BY SeenNeighbours DEF JobOK
<1>2. mode = 7 => Gap(t, n) = Gap(s, n)
  BY SeenGap DEF JobOK, Blocks
<1>3. Prediction(t, n) = Prediction(s, n)
  BY <1>1, <1>2, Zenon DEF Prediction
<1>4. Residual /\ mode # 9 => PMean(t, n) = PMean(s, n)
  BY SeenParent DEF Residual
<1>5. Residual => MagPrediction(t, n) = MagPrediction(s, n)
  BY <1>1, <1>4, Zenon DEF MagPrediction
<1> QED BY <1>3, <1>5

LEMMA SeenK ==
  ASSUME JobOK, NEW s, NEW t, NEW n \in Cells, Seen(t, s, n)
  PROVE  LocalK(t, n) = LocalK(s, n)
<1>1. /\ Left(t, n) = Left(s, n) /\ Above(t, n) = Above(s, n) /\ t.k = s.k
      /\ X(n) > 0 => t.cells[n - 1] = s.cells[n - 1]
      /\ Y(n) > 0 => t.cells[n - w] = s.cells[n - w]
  BY SeenNeighbours DEF JobOK, Seen
<1>2. ~base => /\ NeighbourResidual(t, X(n) > 0, n - 1) = NeighbourResidual(s, X(n) > 0, n - 1)
               /\ NeighbourResidual(t, Y(n) > 0, n - w) = NeighbourResidual(s, Y(n) > 0, n - w)
  <2> SUFFICES ASSUME ~base
               PROVE  /\ NeighbourResidual(t, X(n) > 0, n - 1) = NeighbourResidual(s, X(n) > 0, n - 1)
                      /\ NeighbourResidual(t, Y(n) > 0, n - w) = NeighbourResidual(s, Y(n) > 0, n - w)
    OBVIOUS
  <2>1. (X(n) > 0 => n - 1 \in Cells) /\ (Y(n) > 0 => n - w \in Cells)
    BY Neighbours DEF JobOK
  <2>2. /\ X(n) > 0 => PMean(t, n - 1) = PMean(s, n - 1)
        /\ Y(n) > 0 => PMean(t, n - w) = PMean(s, n - w)
    BY <2>1, SeenParent
  <2> QED BY <1>1, <2>2, Zenon DEF NeighbourResidual
<1> QED BY <1>1, <1>2, Zenon DEF LocalK

LEMMA SeenSkipped ==
  ASSUME NEW s, NEW t, NEW n, Seen(t, s, n)
  PROVE  Skipped(t, n) <=> Skipped(s, n)
BY DEF Seen, Skipped

\* The contexts of a Rice code.
LEMMA SeenRice ==
  ASSUME JobOK, NEW s, NEW t, NEW n \in Cells, Seen(t, s, n), NEW q, NEW k
  PROVE  RiceCtxs(t, n, q, k) = RiceCtxs(s, n, q, k)
<1>1. \A i : UnaryCtx(t, n, i) = UnaryCtx(s, n, i)
  BY SeenUnary
<1> QED BY <1>1, Zenon DEF RiceCtxs

\* The value of a flat block is seen when the scan is behind it.
SeenBlocks(t, s, b) == \A c \in BlockIds : c < b => ValueOf(t, c) = ValueOf(s, c)

LEMMA SeenValues ==
  ASSUME Plane, Blocks, NEW s, NEW t, NEW n \in Cells, Seen(t, s, n)
  PROVE  SeenBlocks(t, s, BlockOf(n))
<1> SUFFICES ASSUME NEW c \in BlockIds, c < BlockOf(n) PROVE ValueOf(t, c) = ValueOf(s, c)
  BY DEF SeenBlocks
<1>1. PICK m : m = Min(CellsOf(c))
  OBVIOUS
<1>2. m \in CellsOf(c)
  <2>1. CellsOf(c) \in SUBSET Nat
    BY CellFacts DEF CellsOf
  <2> QED BY <1>1, <2>1, BlockHasCells, MinExists
<1>3. m \in Cells /\ BlockOf(m) = c
  BY <1>2 DEF CellsOf
<1>4. Before(m, n)
  BY <1>3 DEF Before, Earlier
<1>5. t.cells[m] = s.cells[m]
  BY <1>3, <1>4 DEF Seen
<1> QED BY <1>1, <1>5 DEF ValueOf

LEMMA SeenResidues ==
  ASSUME Plane, NEW s, NEW t, NEW b \in BlockIds, SeenBlocks(t, s, b), t.flags = s.flags
  PROVE  /\ ValuePrediction(t, b) = ValuePrediction(s, b)
         /\ LeftResidue(t, b) = LeftResidue(s, b) /\ AboveResidue(t, b) = AboveResidue(s, b)
<1>0. b \in Nat /\ \A c \in BlockIds : c \in Nat
  BY BlockSizes
<1>1. \A c \in BlockIds : /\ FlagLeft(s.flags, c) => c - 1 \in BlockIds /\ c - 1 < c
                          /\ FlagAbove(s.flags, c) => c - BlocksWide \in BlockIds /\ c - BlocksWide < c
  BY BlockNeighbours
<1>2. ASSUME NEW c \in BlockIds, c <= b PROVE ValuePrediction(t, c) = ValuePrediction(s, c)
  <2>1. ASSUME NEW d \in BlockIds, d < c PROVE d < b
    <3>1. b \in Nat /\ c \in Nat /\ d \in Nat
      BY <1>0
    <3> QED BY <1>2, <2>1, <3>1
  <2>2. /\ FlagLeft(s.flags, c) => ValueOf(t, c - 1) = ValueOf(s, c - 1)
        /\ FlagAbove(s.flags, c) => ValueOf(t, c - BlocksWide) = ValueOf(s, c - BlocksWide)
    BY <1>1, <2>1, Zenon DEF SeenBlocks
  <2> QED BY <2>2, Zenon DEF ValuePrediction
<1>3. \A c \in BlockIds : c < b => Residue(t, c) = Residue(s, c)
  <2> SUFFICES ASSUME NEW c \in BlockIds, c < b PROVE Residue(t, c) = Residue(s, c)
    OBVIOUS
  <2>1. c <= b
    BY <1>0
  <2>2. ValueOf(t, c) = ValueOf(s, c)
    BY Zenon DEF SeenBlocks
  <2> QED BY <1>2, <2>1, <2>2, Zenon DEF Residue
<1>4. LeftResidue(t, b) = LeftResidue(s, b) /\ AboveResidue(t, b) = AboveResidue(s, b)
  BY <1>1, <1>3, Zenon DEF LeftResidue, AboveResidue
<1>5. b <= b
  BY <1>0
<1> QED BY <1>2, <1>4, <1>5

LEMMA SeenFlat ==
  ASSUME Plane, Blocks, NEW s, NEW t, NEW n \in Cells, Seen(t, s, n)
  PROVE  LET b == BlockOf(n)
         IN  /\ ValuePrediction(t, b) = ValuePrediction(s, b) /\ ValueK(t, b) = ValueK(s, b)
             /\ ValueCtx(t, b) = ValueCtx(s, b) /\ ValueSignCtx(t, b) = ValueSignCtx(s, b)
<1>1. PICK b : b = BlockOf(n)
  OBVIOUS
<1>2. b \in BlockIds /\ SeenBlocks(t, s, b) /\ t.flags = s.flags /\ t.vk = s.vk
  BY <1>1, BlockFacts, SeenValues DEF Seen
<1>3. /\ ValuePrediction(t, b) = ValuePrediction(s, b)
      /\ LeftResidue(t, b) = LeftResidue(s, b) /\ AboveResidue(t, b) = AboveResidue(s, b)
  BY <1>2, SeenResidues
<1> QED BY <1>1, <1>2, <1>3, Zenon DEF ValueK, ValueCtx, ValueSignCtx

--------------------------------------------------------------------------------
(* Reading what was written *)

\* The last of the q + 1 unary digits is a one.
Digit(i, q) == Bit(i > q)
RemBit(m, i) == (m \div 2^(i - 1)) % 2

\* r is the Rice code of m, with the quotient q.
RiceIs(s, n, m, k, q, r) ==
  /\ q \in Nat /\ r \in Codes /\ Len(r) = q + 1 + k
  /\ \A i \in 1 .. q + 1 : r[i].ctx = FastCtx(UnaryCtx(s, n, i - 1)) /\ r[i].bit = Digit(i, q)
  /\ \A i \in 1 .. k : r[q + 1 + i].ctx = SlowCtx(RemCtx(i - 1)) /\ r[q + 1 + i].bit = RemBit(m, i)

LEMMA RiceBitsAre ==
  ASSUME JobOK, NEW s, Sided(s), NEW n \in Cells, NEW m \in Nat, NEW k \in 0 .. MaxK,
         NEW q, q = m \div 2^k, NEW r, r = Rice(s, n, m, k)
  PROVE  RiceIs(s, n, m, k, q, r)
<1>1. /\ q \in Nat /\ r \in Seq(Events) /\ Len(r) = q + 1 + k
      /\ \A i \in 1 .. q + 1 : r[i] = Event(UnaryCtx(s, n, i - 1), Fast, Digit(i, q))
      /\ \A i \in 1 .. k : /\ r[q + 1 + i] = Event(RemCtx(i - 1), FALSE, RemBit(m, i))
                           /\ RemBit(m, i) \in {0, 1}
  <2>1. /\ m \div 2^k \in Nat
        /\ Rice(s, n, m, k) \in Seq(Events)
        /\ Len(Rice(s, n, m, k)) = m \div 2^k + 1 + k
        /\ \A i \in 1 .. m \div 2^k + 1 :
             Rice(s, n, m, k)[i] = Event(UnaryCtx(s, n, i - 1), Fast, Bit(i > m \div 2^k))
        /\ \A i \in 1 .. k :
             /\ Rice(s, n, m, k)[m \div 2^k + 1 + i] = Event(RemCtx(i - 1), FALSE, (m \div 2^(i - 1)) % 2)
             /\ (m \div 2^(i - 1)) % 2 \in {0, 1}
    BY RiceBits, Zenon
  <2> QED BY <2>1, Zenon DEF Digit, RemBit
<1>2. ASSUME NEW i \in 1 .. q + 1
      PROVE  r[i].ctx = FastCtx(UnaryCtx(s, n, i - 1)) /\ r[i].bit = Digit(i, q)
  <2>1. i - 1 \in Nat
    BY <1>1
  <2>2. UnaryCtx(s, n, i - 1) \in 0 .. NumCtx - 1
    BY <2>1, UnaryCtxTyped DEF NumCtx
  <2>3. Digit(i, q) \in {0, 1} /\ Fast \in BOOLEAN
    BY BitTyped DEF Digit, Fast
  <2>4. PICK c, b : c = UnaryCtx(s, n, i - 1) /\ b = Digit(i, q)
    OBVIOUS
  <2>5. Event(c, Fast, b).ctx = <<c, Fast>> /\ Event(c, Fast, b).bit = b
    BY <2>2, <2>3, <2>4, EventTyped
  <2>6. r[i] = Event(c, Fast, b)
    BY <1>1, <2>4, Zenon
  <2> QED BY <2>4, <2>5, <2>6, Zenon DEF FastCtx
<1>3. ASSUME NEW i \in 1 .. k
      PROVE  r[q + 1 + i].ctx = SlowCtx(RemCtx(i - 1)) /\ r[q + 1 + i].bit = RemBit(m, i)
  <2>1. i - 1 \in 0 .. MaxK
    BY DEF MaxK
  <2>2. RemCtx(i - 1) \in 0 .. NumCtx - 1 /\ RemBit(m, i) \in {0, 1}
    BY <1>1, <2>1, RemCtxTyped
  <2>3. PICK c, b : c = RemCtx(i - 1) /\ b = RemBit(m, i)
    OBVIOUS
  <2>4. Slow(c, b).ctx = <<c, FALSE>> /\ Slow(c, b).bit = b
    BY <2>2, <2>3, SlowTyped
  <2>5. r[q + 1 + i] = Slow(c, b)
    BY <1>1, <2>3, Zenon DEF Slow
  <2> QED BY <2>3, <2>4, <2>5, Zenon DEF SlowCtx
<1> QED BY <1>1, <1>2, <1>3 DEF Codes, RiceIs

\* B stands in the trace where the decoder reads on.
Ahead(B) == /\ B \in Codes /\ read - 1 + Len(B) <= Len(trace)
            /\ \A i \in 1 .. Len(B) : trace[read - 1 + i] = B[i]

LEMMA AheadFacts ==
  ASSUME trace \in Codes, read \in Nat \ {0}, NEW B, Ahead(B)
  PROVE  /\ Len(B) \in Nat /\ Len(trace) \in Nat
         /\ \A i \in 1 .. Len(B) : BitAt(read - 1 + i) = B[i].bit
         /\ \A C : C \in Seq(CtxSet) /\ Len(C) = Len(B) /\ (\A i \in 1 .. Len(B) : B[i].ctx = C[i]) => Asked(C)
<1>1. B \in Codes /\ read - 1 + Len(B) <= Len(trace) /\ \A i \in 1 .. Len(B) : trace[read - 1 + i] = B[i]
  BY DEF Ahead
<1>2. Len(B) \in Nat /\ Len(trace) \in Nat
  BY <1>1 DEF Codes
<1>3. PICK l, u : l = Len(B) /\ u = Len(trace)
  OBVIOUS
<1>4. ASSUME NEW i \in 1 .. l PROVE BitAt(read - 1 + i) = B[i].bit
  <2>1. read - 1 + i <= u
    BY <1>1, <1>2, <1>3
  <2> QED BY <1>1, <1>3, <2>1 DEF BitAt
<1>5. ASSUME NEW C, C \in Seq(CtxSet), Len(C) = l, \A i \in 1 .. l : B[i].ctx = C[i]
      PROVE  Asked(C)
  <2>1. DOMAIN C = 1 .. l
    BY <1>5
  <2>2. read + Len(C) - 1 <= Len(trace)
    BY <1>1, <1>2, <1>3, <1>5
  <2>3. ASSUME NEW i \in 1 .. l PROVE trace[read + i - 1].ctx = C[i]
    <3>1. read + i - 1 = read - 1 + i
      BY <1>2, <1>3
    <3>2. trace[read - 1 + i] = B[i]
      BY <1>1, <1>3
    <3> QED BY <1>5, <3>1, <3>2
  <2> QED BY <2>1, <2>2, <2>3, Zenon DEF Asked
<1> QED BY <1>2, <1>3, <1>4, <1>5

\* A signed value is read as it was written, in the contexts in which it was written.
LEMMA ZeroRead ==
  ASSUME trace \in Codes, read \in Nat \ {0}, NEW c \in 0 .. NumCtx - 1, NEW d \in 0 .. NumCtx - 1,
         NEW v, v = 0, NEW r, Ahead(SignedBits(c, d, v, r))
  PROVE  /\ BitAt(read) = 0 /\ Asked(ZeroCtxs(c)) /\ Len(SignedBits(c, d, v, r)) = 1
         /\ Len(ZeroCtxs(c)) = 1
<1>1. PICK B, C : B = SignedBits(c, d, v, r) /\ C = ZeroCtxs(c)
  OBVIOUS
<1>2. Len(B) = 1 /\ B[1] = Slow(c, 0)
  <2>1. PICK e : e = Slow(c, 0)
    OBVIOUS
  <2>2. B = <<e>>
    BY <1>1, <2>1, Zenon DEF SignedBits
  <2> QED BY <2>1, <2>2
<1>3. Slow(c, 0).ctx = <<c, FALSE>> /\ Slow(c, 0).bit = 0
  BY SlowTyped
<1>4. /\ \A i \in 1 .. 1 : BitAt(read - 1 + i) = B[i].bit
      /\ \A D : D \in Seq(CtxSet) /\ Len(D) = 1 /\ (\A i \in 1 .. 1 : B[i].ctx = D[i]) => Asked(D)
  BY <1>1, <1>2, AheadFacts
<1>5. C \in Seq(CtxSet) /\ Len(C) = 1 /\ C[1] = SlowCtx(c)
  <2>1. <<>> \in Seq(CtxSet)
    OBVIOUS
  <2> QED BY <1>1, <2>1, SignedCtxsFacts
<1>6. \A i \in 1 .. 1 : i = 1
  OBVIOUS
<1>7. \A i \in 1 .. 1 : B[i].ctx = C[i]
  BY <1>2, <1>3, <1>5, <1>6, Zenon DEF SlowCtx
<1>8. Asked(C)
  BY <1>4, <1>5, <1>7
<1>9. BitAt(read) = 0
  <2>1. BitAt(read - 1 + 1) = B[1].bit
    BY <1>4
  <2>2. read - 1 + 1 = read
    OBVIOUS
  <2> QED BY <1>2, <1>3, <2>1, <2>2
<1> QED BY <1>1, <1>2, <1>5, <1>8, <1>9

LEMMA SignedRead ==
  ASSUME JobOK, trace \in Codes, read \in Nat \ {0}, NEW c \in 0 .. NumCtx - 1, NEW d \in 0 .. NumCtx - 1,
         NEW s, Sided(s), NEW n \in Cells, NEW m \in Nat, NEW k \in 0 .. MaxK, NEW v \in Int, v # 0,
         NEW B, B = SignedBits(c, d, v, Rice(s, n, m, k)), Ahead(B),
         NEW C, C = SignedCtxs(c, d, RiceCtxs(s, n, QuotientAt(read + 2), k))
  PROVE  /\ BitAt(read) = 1 /\ BitAt(read + 1) = Minus(v) /\ RiceAt(read + 2, k) = m
         /\ Asked(C) /\ Len(C) = Len(B)
<1>1. PICK q, r : q = m \div 2^k /\ r = Rice(s, n, m, k)
  OBVIOUS
<1>2. /\ q \in Nat /\ r \in Codes /\ Len(r) = q + 1 + k
      /\ \A i \in 1 .. q + 1 : r[i].ctx = FastCtx(UnaryCtx(s, n, i - 1)) /\ r[i].bit = Digit(i, q)
      /\ \A i \in 1 .. k : r[q + 1 + i].ctx = SlowCtx(RemCtx(i - 1)) /\ r[q + 1 + i].bit = RemBit(m, i)
  <2>1. q = m \div 2^k
    BY <1>1
  <2>2. r = Rice(s, n, m, k)
    BY <1>1
  <2>3. RiceIs(s, n, m, k, q, r)
    BY <2>1, <2>2, RiceBitsAre
  <2> QED BY <2>3, Zenon DEF RiceIs
<1>3. k \in Nat
  BY DEF MaxK
<1>4. /\ Len(B) = 2 + Len(r) /\ B[1] = Slow(c, 1) /\ B[2] = Slow(d, Minus(v))
      /\ \A i \in 1 .. Len(r) : B[2 + i] = r[i]
  <2>1. r \in Seq(Events)
    BY <1>2 DEF Codes
  <2>2. B = SignedBits(c, d, v, r)
    BY <1>1, Zenon
  <2> QED BY <2>1, <2>2, SignedBitsFacts
<1>5. /\ Len(B) \in Nat /\ Len(trace) \in Nat /\ read - 1 + Len(B) <= Len(trace)
      /\ \A i \in 1 .. Len(B) : BitAt(read - 1 + i) = B[i].bit
  BY AheadFacts, Zenon DEF Ahead
<1>6. /\ Slow(c, 1).ctx = SlowCtx(c) /\ Slow(c, 1).bit = 1
      /\ Slow(d, Minus(v)).ctx = SlowCtx(d) /\ Slow(d, Minus(v)).bit = Minus(v)
  <2>1. PICK b : b = Minus(v)
    OBVIOUS
  <2>2. b \in {0, 1}
    BY <2>1, MinusTyped
  <2> QED BY <2>1, <2>2, SlowTyped DEF SlowCtx
<1>7. PICK l : l = Len(B)
  OBVIOUS
<1>8. l = q + 3 + k /\ read - 1 + l <= Len(trace)
  BY <1>2, <1>3, <1>4, <1>5, <1>7
<1>9. BitAt(read) = 1 /\ BitAt(read + 1) = Minus(v)
  <2>1. 1 \in 1 .. l /\ 2 \in 1 .. l /\ read - 1 + 1 = read /\ read - 1 + 2 = read + 1
    BY <1>2, <1>3, <1>8
  <2>2. BitAt(read - 1 + 1) = B[1].bit /\ BitAt(read - 1 + 2) = B[2].bit
    BY <1>5, <1>7, <2>1, Zenon
  <2> QED BY <1>4, <1>6, <2>1, <2>2, Zenon
<1>10. ASSUME NEW i \in 1 .. q + 1 + k PROVE BitAt(read + 1 + i) = r[i].bit
  <2>1. 2 + i \in 1 .. l /\ read - 1 + (2 + i) = read + 1 + i
    BY <1>2, <1>3, <1>8
  <2>2. BitAt(read - 1 + (2 + i)) = B[2 + i].bit /\ B[2 + i] = r[i]
    BY <1>2, <1>4, <1>5, <1>7, <2>1, Zenon
  <2> QED BY <2>1, <2>2, Zenon
<1>11. ASSUME NEW j \in 0 .. q PROVE BitAt(read + 2 + j) = Bit(j >= q)
  <2>1. j + 1 \in 1 .. q + 1 /\ j + 1 \in 1 .. q + 1 + k /\ read + 1 + (j + 1) = read + 2 + j
    BY <1>2, <1>3
  <2>2. BitAt(read + 1 + (j + 1)) = r[j + 1].bit /\ r[j + 1].bit = Digit(j + 1, q)
    BY <1>2, <1>10, <2>1, Zenon
  <2>3. BitAt(read + 2 + j) = Digit(j + 1, q)
    BY <2>1, <2>2, Zenon
  <2>4. j + 1 > q <=> j >= q
    BY <1>2
  <2>5. Digit(j + 1, q) = Bit(j >= q)
    BY <2>4 DEF Digit, Bit
  <2> QED BY <2>3, <2>5, Zenon
<1>12. ASSUME NEW j \in 1 .. k PROVE BitAt(read + 2 + q + j) = RemBit(m, j)
  <2>1. q + 1 + j \in 1 .. q + 1 + k /\ read + 1 + (q + 1 + j) = read + 2 + q + j
    BY <1>2, <1>3
  <2>2. BitAt(read + 1 + (q + 1 + j)) = r[q + 1 + j].bit /\ r[q + 1 + j].bit = RemBit(m, j)
    BY <1>2, <1>10, <2>1, Zenon
  <2> QED BY <2>1, <2>2, Zenon
<1>13. QuotientAt(read + 2) = q /\ RiceAt(read + 2, k) = m
  <2>1. read + 2 \in Nat \ {0} /\ read + 2 + q <= Len(trace)
    BY <1>2, <1>3, <1>5, <1>8
  <2>2. \A j \in 0 .. m \div 2^k : BitAt(read + 2 + j) = Bit(j >= m \div 2^k)
    BY <1>1, <1>11, Zenon
  <2>3. \A j \in 1 .. k : BitAt(read + 2 + m \div 2^k + j) = (m \div 2^(j - 1)) % 2
    BY <1>1, <1>12, Zenon DEF RemBit
  <2>4. read + 2 + m \div 2^k <= Len(trace)
    BY <1>1, <2>1, Zenon
  <2>5. trace \in Seq(Events)
    BY DEF Codes
  <2> QED BY <1>1, <2>1, <2>2, <2>3, <2>4, <2>5, RiceUndone, Zenon
<1>14. PICK R : R = RiceCtxs(s, n, q, k)
  OBVIOUS
<1>15. /\ R \in Seq(CtxSet) /\ Len(R) = q + 1 + k
       /\ \A i \in 1 .. q + 1 : R[i] = FastCtx(UnaryCtx(s, n, i - 1))
       /\ \A i \in 1 .. k : R[q + 1 + i] = SlowCtx(RemCtx(i - 1))
  <2>1. q \in Nat
    BY <1>2
  <2>2. RiceRead(s, n, q, k, R)
    BY <1>14, <2>1, RiceCtxsFacts
  <2> QED BY <2>2, Zenon DEF RiceRead
<1>16. ASSUME NEW i \in 1 .. q + 1 + k PROVE r[i].ctx = R[i]
  <2>1. CASE i \in 1 .. q + 1
    BY <1>2, <1>15, <2>1, Zenon
  <2>2. CASE i \notin 1 .. q + 1
    <3>1. i - (q + 1) \in 1 .. k /\ q + 1 + (i - (q + 1)) = i
      BY <1>2, <1>3, <2>2
    <3>2. r[q + 1 + (i - (q + 1))].ctx = R[q + 1 + (i - (q + 1))]
      BY <1>2, <1>15, <3>1, Zenon
    <3> QED BY <3>1, <3>2, Zenon
  <2> QED BY <2>1, <2>2
<1>17. /\ C \in Seq(CtxSet) /\ Len(C) = 2 + Len(R) /\ C[1] = SlowCtx(c) /\ C[2] = SlowCtx(d)
       /\ \A i \in 1 .. Len(R) : C[2 + i] = R[i]
  <2>1. C = SignedCtxs(c, d, R)
    BY <1>13, <1>14, Zenon
  <2>2. R \in Seq(CtxSet)
    BY <1>15
  <2>3. /\ SignedCtxs(c, d, R) \in Seq(CtxSet) /\ Len(SignedCtxs(c, d, R)) = 2 + Len(R)
        /\ SignedCtxs(c, d, R)[1] = SlowCtx(c) /\ SignedCtxs(c, d, R)[2] = SlowCtx(d)
        /\ \A i \in 1 .. Len(R) : SignedCtxs(c, d, R)[2 + i] = R[i]
    BY <2>2, SignedCtxsFacts, ZenonT(40)
  <2> QED BY <2>1, <2>3, Zenon
<1>18. Len(C) = l
  BY <1>2, <1>3, <1>8, <1>15, <1>17
<1>19. ASSUME NEW i \in 1 .. l PROVE B[i].ctx = C[i]
  <2>1. CASE i = 1
    BY <1>4, <1>6, <1>17, <2>1, Zenon
  <2>2. CASE i = 2
    BY <1>4, <1>6, <1>17, <2>2, Zenon
  <2>3. CASE i # 1 /\ i # 2
    <3>1. i - 2 \in 1 .. q + 1 + k /\ 2 + (i - 2) = i
      BY <1>2, <1>3, <1>8, <2>3
    <3>2. B[2 + (i - 2)] = r[i - 2] /\ C[2 + (i - 2)] = R[i - 2] /\ r[i - 2].ctx = R[i - 2]
      BY <1>2, <1>4, <1>15, <1>16, <1>17, <3>1, Zenon
    <3> QED BY <3>1, <3>2, Zenon
  <2> QED BY <2>1, <2>2, <2>3
<1>20. Asked(C)
  <2>1. /\ C \in Seq(CtxSet) /\ Len(C) = Len(B)
    BY <1>7, <1>17, <1>18
  <2>2. \A i \in 1 .. Len(B) : B[i].ctx = C[i]
    BY <1>7, <1>19, Zenon
  <2>3. \A D : D \in Seq(CtxSet) /\ Len(D) = Len(B) /\ (\A i \in 1 .. Len(B) : B[i].ctx = D[i]) => Asked(D)
    BY AheadFacts, Zenon
  <2> QED BY <2>1, <2>2, <2>3, Zenon
<1> QED BY <1>7, <1>9, <1>13, <1>18, <1>20, Zenon

--------------------------------------------------------------------------------
(* The decoder follows the encoder's run *)

\* Where the decoder stands, as the encoder stood when it came there.
There == [at |-> at, rice |-> rice, valueRice |-> valueRice, bits |-> read - 1]

\* The cells in front of the scan are decoded, the others untouched.
Decoded == \A n \in Cells : dest[n] = IF Rank(n) + 1 < at THEN band[n] ELSE 0

DecodeInv ==
  /\ phase \in {"flags", "encode", "read flags"} => dest = [n \in Cells |-> 0] /\ read = 1 /\ agree = TRUE
  /\ phase = "read flags" => rice = Untracked(k0) /\ valueRice = Untracked(0) /\ flags = <<>>
  /\ phase \in {"decode", "done"} => /\ agree = TRUE /\ flags = Flags /\ Decoded
                                     /\ \E j \in 1 .. Len(past) : past[j] = There
  /\ phase = "done" => at = w * h + 1

Reached(e) == \E j \in 1 .. Len(past) : past[j] = e

\* Where the encoder went on, its bits lie ahead of the decoder.
LEMMA RunStep ==
  ASSUME JobOK, NEW P, NEW T \in Codes, RunOK(P, T), P[Len(P)].at = w * h + 1,
         NEW j \in 1 .. Len(P), P[j].at <= w * h
  PROVE  /\ j + 1 \in 1 .. Len(P) /\ P[j] \in Entries /\ P[j].at \in 1 .. w * h /\ P[j + 1] = After(P[j])
         /\ \A i \in 1 .. Len(Bits(P[j])) : T[P[j].bits + i] = Bits(P[j])[i]
         /\ P[j].bits + Len(Bits(P[j])) <= Len(T)
<1>1. PICK l, a, e : l = Len(P) /\ a = w * h /\ e = P[j]
  OBVIOUS
<1>2. l \in Nat /\ a \in Nat /\ e \in Entries
  <2>1. P \in Seq(Entries)
    BY DEF RunOK
  <2> QED BY <1>1, <2>1, AreaFacts DEF JobOK
<1>3. j \in 1 .. l - 1 /\ j + 1 \in 1 .. l
  <2>1. j # l
    BY <1>1, <1>2
  <2> QED BY <1>1, <1>2, <2>1
<1>4. e.at \in 1 .. a
  <2>1. PICK y : y = e.at
    OBVIOUS
  <2>2. y \in Nat \ {0} /\ y <= a
    BY <1>1, <1>2, <2>1 DEF Entries
  <2> QED BY <1>2, <2>1, <2>2
<1>5. /\ P[j + 1] = After(P[j])
      /\ \A i \in 1 .. Len(Bits(P[j])) : T[P[j].bits + i] = Bits(P[j])[i]
  BY <1>1, <1>3, Zenon DEF RunOK
<1>6. P[j + 1].bits <= Len(T)
  BY <1>1, <1>3, Zenon DEF RunOK
<1>7. After(e).bits = e.bits + Len(Bits(e))
  BY <1>1, <1>2, <1>4, RunTyped
<1> QED BY <1>1, <1>2, <1>3, <1>4, <1>5, <1>6, <1>7, Zenon

LEMMA ThereFacts ==
  ASSUME TypeInv, EncodeInv, DecodeInv, phase = "decode", at \in 1 .. w * h
  PROVE  /\ There \in Entries /\ There.at = at /\ There.rice = rice /\ There.valueRice = valueRice
         /\ There.bits = read - 1 /\ Ahead(Bits(There)) /\ Reached(After(There))
<1>1. There.at = at /\ There.rice = rice /\ There.valueRice = valueRice /\ There.bits = read - 1
  BY DEF There
<1>2. PICK j \in 1 .. Len(past) : past[j] = There
  BY DEF DecodeInv
<1>3. RunOK(past, trace) /\ past[Len(past)].at = w * h + 1
  BY DEF EncodeInv
<1>4. JobOK /\ trace \in Codes
  BY TypeFacts DEF Codes
<1>5. past[j].at <= w * h
  <2>1. PICK a : a = w * h
    OBVIOUS
  <2>2. at \in 1 .. a
    BY <2>1
  <2>3. at <= a
    BY <2>2
  <2> QED BY <1>1, <1>2, <2>1, <2>3
<1>6. /\ j + 1 \in 1 .. Len(past) /\ past[j] \in Entries /\ past[j].at \in 1 .. w * h /\ past[j + 1] = After(past[j])
      /\ \A i \in 1 .. Len(Bits(past[j])) : trace[past[j].bits + i] = Bits(past[j])[i]
      /\ past[j].bits + Len(Bits(past[j])) <= Len(trace)
  BY <1>3, <1>4, <1>5, RunStep, Zenon
<1>7. Bits(There) \in Codes
  <2>1. PICK e : e = There
    OBVIOUS
  <2> QED BY <1>2, <1>4, <1>6, <2>1, RunTyped
<1>8. Ahead(Bits(There))
  BY <1>1, <1>2, <1>6, <1>7, Zenon DEF Ahead
<1>9. Reached(After(There))
  BY <1>2, <1>6, Zenon DEF Reached
<1> QED BY <1>1, <1>2, <1>6, <1>8, <1>9, Zenon

\* What is decoded so far is what the decoder needs to see.
LEMMA SeenThere ==
  ASSUME TypeInv, DecodeInv, phase = "decode", at \in 1 .. w * h
  PROVE  Seen(Decoder, Side(There), CellAt(at))
<1>1. There.rice = rice /\ There.valueRice = valueRice
  BY DEF There
<1>2. flags = Flags /\ Decoded
  BY DEF DecodeInv
<1>3. /\ Decoder.flags = flags /\ Decoder.k = rice.k /\ Decoder.vk = valueRice.k /\ Decoder.cells = dest
      /\ Decoder.parent = Dequantized /\ Decoder.scale = 1
  BY DEF Decoder
<1>4. PICK s : s = Side(There)
  OBVIOUS
<1>5. /\ s.flags = Flags /\ s.k = rice.k /\ s.vk = valueRice.k /\ s.cells = band
      /\ s.parent = parent /\ s.scale = Steps[2]
  BY <1>1, <1>4 DEF Side
<1>6. Plane /\ JobOK
  BY TypeFacts
<1>7. ASSUME NEW m \in Cells, Before(m, CellAt(at)) PROVE dest[m] = band[m]
  <2>1. CellAt(at) \in Cells /\ Rank(CellAt(at)) = at - 1
    BY <1>6, ScanFacts
  <2>2. Rank(m) < at - 1
    BY <1>6, <1>7, <2>1, RankFacts
  <2>3. Rank(m) \in Nat /\ at \in Nat
    BY <1>6, AtTyped, RankFacts
  <2>4. Rank(m) + 1 < at
    BY <2>2, <2>3
  <2> QED BY <1>2, <2>4 DEF Decoded
<1>8. ~base => /\ parent \in [ParentCells -> Int] /\ Steps[2] \in Nat \ {0}
               /\ \A p \in ParentCells : Dequantized[p] = parent[p] * Steps[2]
  <2> SUFFICES ASSUME ~base
               PROVE  /\ parent \in [ParentCells -> Int] /\ Steps[2] \in Nat \ {0}
                      /\ \A p \in ParentCells : Dequantized[p] = parent[p] * Steps[2]
    OBVIOUS
  <2>1. parent \in [ParentCells -> Int]
    BY <1>6 DEF JobOK
  <2>2. Steps[2] \in Nat \ {0}
    BY BandCoderAssumption
  <2>3. DOMAIN parent = ParentCells
    BY <2>1
  <2>4. \A p \in ParentCells : Dequantized[p] = parent[p] * Steps[2]
    BY <2>3, Zenon DEF Dequantized
  <2> QED BY <2>1, <2>2, <2>4
<1> QED BY <1>2, <1>3, <1>4, <1>5, <1>7, <1>8, Zenon DEF Seen

--------------------------------------------------------------------------------
(* The steps of the decoder *)

LEMMA SteadyRank ==
  ASSUME UNCHANGED job
  PROVE  Cells' = Cells /\ \A n : Rank(n)' = Rank(n)
<1>1. Cells' = Cells /\ (Blocks' <=> Blocks) /\ \A m, n : (Earlier(m, n)' <=> Earlier(m, n))
  BY SteadyPlane
<1>2. \A m, n : (Before(m, n)' <=> Before(m, n))
  BY <1>1 DEF Before
<1> QED BY <1>1, <1>2, Zenon DEF Rank

LEMMA DecodeGoesOn ==
  ASSUME DecodeInv, phase = "decode", phase' = "decode", UNCHANGED <<job, flags, past>>,
         agree' = TRUE, Reached(There'), Decoded'
  PROVE  DecodeInv'
<1>1. flags' = Flags'
  <2>1. flags = Flags /\ Flags' = Flags /\ flags' = flags
    BY SteadyRun DEF DecodeInv
  <2> QED BY <2>1
<1>2. \E j \in 1 .. Len(past') : past'[j] = There'
  BY DEF Reached
<1> QED BY <1>1, <1>2 DEF DecodeInv

\* One cell more.
LEMMA CellDecoded ==
  ASSUME Plane, Decoded, UNCHANGED job, at \in 1 .. w * h, at' = at + 1,
         \A m \in Cells : dest'[m] = IF m = CellAt(at) THEN band[m] ELSE dest[m]
  PROVE  Decoded'
<1>1. Cells' = Cells /\ (\A n : Rank(n)' = Rank(n)) /\ band' = band
  BY SteadyRank, JobKept
<1>2. CellAt(at) \in Cells /\ Rank(CellAt(at)) = at - 1
  BY ScanFacts
<1>3. at \in Nat \ {0}
  <2>1. PICK a : a = w * h
    OBVIOUS
  <2>2. at \in 1 .. a /\ a \in Nat
    BY <2>1, AreaFacts
  <2> QED BY <2>2
<1>4. ASSUME NEW m \in Cells PROVE dest'[m] = IF Rank(m) + 1 < at' THEN band[m] ELSE 0
  <2>1. Rank(m) \in Nat
    BY RankFacts
  <2>2. CASE m = CellAt(at)
    <3>1. Rank(m) + 1 < at'
      BY <1>2, <1>3, <2>1, <2>2
    <3> QED BY <2>2, <3>1
  <2>3. CASE m # CellAt(at)
    <3>1. Rank(m) # at - 1
      BY <1>2, <2>3, RankFacts
    <3>2. Rank(m) + 1 < at' <=> Rank(m) + 1 < at
      BY <1>3, <2>1, <3>1
    <3>3. dest[m] = IF Rank(m) + 1 < at THEN band[m] ELSE 0
      BY DEF Decoded
    <3> QED BY <2>3, <3>2, <3>3, Zenon
  <2> QED BY <2>2, <2>3
<1> QED BY <1>1, <1>4 DEF Decoded

\* A block that is passed over is one of zeros.
LEMMA PassedZero ==
  ASSUME Plane, mode \in {12, 24}, NEW n \in Cells, Flags[BlockOf(n)] = 0
  PROVE  band[n] = 0
<1>1. Blocks /\ BlockOf(n) \in BlockIds
  BY BlockFacts DEF Blocks
<1>2. Flags[BlockOf(n)] = Flag(BlockOf(n))
  BY <1>1 DEF Flags
<1>3. Flag(BlockOf(n)) = Bit(\E m \in CellsOf(BlockOf(n)) : band[m] # 0)
  <2>1. mode # 16
    OBVIOUS
  <2> QED BY <2>1, Zenon DEF Flag
<1>4. ~\E m \in CellsOf(BlockOf(n)) : band[m] # 0
  BY <1>2, <1>3 DEF Bit
<1>5. n \in CellsOf(BlockOf(n))
  BY DEF CellsOf
<1> QED BY <1>4, <1>5

LEMMA SignTimes ==
  ASSUME NEW v \in Int, NEW a, a = Abs(v) - 1
  PROVE  Sign(Minus(v)) * (a + 1) = v
<1>1. PICK b : b = Minus(v)
  OBVIOUS
<1>2. b = IF v < 0 THEN 1 ELSE 0
  BY <1>1 DEF Minus, Bit
<1>3. Sign(b) = IF v < 0 THEN -1 ELSE 1
  BY <1>2 DEF Sign
<1>4. a + 1 = IF v < 0 THEN -v ELSE v
  BY DEF Abs
<1>5. Sign(b) * (a + 1) = v
  BY <1>3, <1>4
<1> QED BY <1>1, <1>5

\* The magnitude that the decoder makes of what was coded.
LEMMA PlainIs ==
  ASSUME JobOK, NEW s, Sided(s), NEW n \in Cells, Diff(s, n) # 0
  PROVE  Plain(s, n, Magnitude(s, n)) = Abs(Diff(s, n)) - 1
<1>1. PICK a : a = Abs(Diff(s, n)) - 1
  OBVIOUS
<1>2. a \in Nat
  BY <1>1, DiffTyped
<1>3. CASE Residual
  <2>1. PICK p : p = MagPrediction(s, n)
    OBVIOUS
  <2>2. p \in Int
    BY <1>3, <2>1, MagPredictionTyped
  <2>3. Unzigzag(Zigzag(a - p), p) = a
    <3>1. a - p \in Int
      BY <1>2, <2>2
    <3>2. Unzigzag(Zigzag(a - p), p) = p + (a - p)
      BY <2>2, <3>1, ZigzagUndone
    <3> QED BY <1>2, <2>2, <3>2
  <2> QED BY <1>1, <1>3, <2>1, <2>3, Zenon DEF Plain, Magnitude
<1>4. CASE ~Residual
  BY <1>4, Zenon DEF Plain, Magnitude
<1> QED BY <1>3, <1>4

\* What decoding a coefficient comes to.
CellFollows(B) ==
  /\ agree' = TRUE /\ read' = read + Len(B)
  /\ rice' = CellRice(Side(There), CellAt(at), Magnitude(Side(There), CellAt(at)), rice)
  /\ \A m \in Cells : dest'[m] = IF m = CellAt(at) THEN band[m] ELSE dest[m]

LEMMA CellRead ==
  ASSUME TypeInv, EncodeInv, DecodeInv, DecodeCell
  PROVE  CellFollows(Bits(There)) /\ ~IsFlat(at) /\ at \in 1 .. w * h
<1>2. PICK n, s, t : n = CellAt(at) /\ s = Side(There) /\ t = Decoder
  OBVIOUS
<1>3. PICK c : c = RiceAt(read + 2, LocalK(t, n))
  OBVIOUS
<1>4. /\ phase = "decode" /\ at \in 1 .. w * h /\ n \in Cells
      /\ mode = 16 => flags[BlockOf(n)] # 1
      /\ Skipped(t, n) => rice' = rice /\ read' = read /\ dest' = dest /\ agree' = agree
      /\ ~Skipped(t, n) /\ BitAt(read) = 0 =>
           /\ dest' = [dest EXCEPT ![n] = Prediction(t, n)]
           /\ read' = read + 1
           /\ agree' = (agree /\ Asked(ZeroCtxs(SigCtx(t, n))))
           /\ rice' = rice
      /\ ~Skipped(t, n) /\ BitAt(read) # 0 =>
           /\ dest' = [dest EXCEPT ![n] = Sign(BitAt(read + 1)) * (Plain(t, n, c) + 1) + Prediction(t, n)]
           /\ read' = read + Len(CellCtxs(t, n))
           /\ agree' = (agree /\ Asked(CellCtxs(t, n)))
           /\ rice' = Tracked(rice, IF mode = 14 /\ ~base THEN c ELSE Plain(t, n, c), Window)
  BY <1>2, <1>3, DecodeCellIs, Zenon
<1>5. /\ There \in Entries /\ There.at = at /\ There.rice = rice /\ There.valueRice = valueRice
      /\ There.bits = read - 1 /\ Ahead(Bits(There))
  BY <1>4, ThereFacts, Zenon
<1>6. Seen(t, s, n)
  BY <1>2, <1>4, SeenThere, Zenon
<1>7. /\ JobOK /\ Plane /\ trace \in Codes /\ read \in Nat \ {0} /\ dest \in [Cells -> Int]
      /\ agree = TRUE /\ flags = Flags
  BY <1>4, TypeFacts DEF Codes, DecodeInv
<1>8. Sided(s) /\ Sided(t)
  BY <1>2, <1>5, <1>7, SideTyped, SidedEncoder
<1>9. /\ SigCtx(t, n) = SigCtx(s, n) /\ SignCtx(t, n) = SignCtx(s, n) /\ LocalK(t, n) = LocalK(s, n)
      /\ Prediction(t, n) = Prediction(s, n) /\ (Skipped(t, n) <=> Skipped(s, n))
      /\ (Residual => MagPrediction(t, n) = MagPrediction(s, n))
      /\ \A q, k : RiceCtxs(t, n, q, k) = RiceCtxs(s, n, q, k)
  BY <1>4, <1>6, <1>7, SeenSig, SeenK, SeenPrediction, SeenSkipped, SeenRice
<1>10. ~IsFlat(at)
  BY <1>2, <1>4, <1>7, Zenon DEF IsFlat
<1>11. PICK B, M, v : B = Bits(There) /\ M = Magnitude(s, n) /\ v = Diff(s, n)
  OBVIOUS
<1>12. B = CellBits(s, n, M)
  BY <1>2, <1>5, <1>10, <1>11, Zenon DEF Bits
<1>13. Ahead(B) /\ s.cells = band
  BY <1>2, <1>5, <1>11 DEF Side
<1>14. PICK p : p = Prediction(s, n)
  OBVIOUS
<1>15. p \in Int /\ band[n] \in Int /\ v = band[n] - p /\ v \in Int
  <2>1. band[n] \in Int
    BY <1>4, <1>7 DEF JobOK
  <2>2. p \in Int
    BY <1>4, <1>7, <1>8, <1>14, PredictionTyped
  <2>3. v = band[n] - p
    BY <1>11, <1>13, <1>14, Zenon DEF Diff
  <2> QED BY <2>1, <2>2, <2>3
<1>16. CASE Skipped(s, n)
  <2>1. B = <<>> /\ CellRice(s, n, M, rice) = rice
    BY <1>12, <1>16, Zenon DEF CellBits, CellRice
  <2>2. rice' = rice /\ read' = read /\ dest' = dest /\ agree' = agree
    BY <1>4, <1>9, <1>16
  <2>3. band[n] = 0
    <3>1. mode \in {12, 24} /\ Flags[BlockOf(n)] = 0
      BY <1>2, <1>16 DEF Skipped, Side
    <3> QED BY <1>4, <1>7, <3>1, PassedZero
  <2>4. dest[n] = 0
    <3>1. Rank(n) + 1 = at /\ at \in Nat
      <4>1. Rank(n) = at - 1 /\ at \in Nat
        BY <1>2, <1>4, <1>7, ScanFacts, AtTyped
      <4> QED BY <4>1
    <3>2. Decoded
      BY <1>4 DEF DecodeInv
    <3> QED BY <1>4, <3>1, <3>2 DEF Decoded
  <2>5. \A m \in Cells : dest'[m] = IF m = n THEN band[m] ELSE dest[m]
    BY <2>2, <2>3, <2>4
  <2>6. read' = read + Len(B)
    BY <1>7, <2>1, <2>2
  <2> QED BY <1>2, <1>4, <1>7, <1>10, <1>11, <2>1, <2>2, <2>5, <2>6, Zenon DEF CellFollows
<1>17. CASE ~Skipped(s, n) /\ v = 0
  <2>1. PICK r : r = Rice(s, n, M, LocalK(s, n))
    OBVIOUS
  <2>2. B = SignedBits(SigCtx(s, n), SignCtx(s, n), v, r)
    BY <1>11, <1>12, <1>17, <2>1, Zenon DEF CellBits
  <2>3. SigCtx(s, n) \in 0 .. NumCtx - 1 /\ SignCtx(s, n) \in 0 .. NumCtx - 1
    BY <1>4, <1>7, <1>8, SigCtxTyped DEF NumCtx
  <2>4. BitAt(read) = 0 /\ Asked(ZeroCtxs(SigCtx(s, n))) /\ Len(B) = 1
    <3>1. PICK c1, d1 : c1 = SigCtx(s, n) /\ d1 = SignCtx(s, n)
      OBVIOUS
    <3>2. c1 \in 0 .. NumCtx - 1 /\ d1 \in 0 .. NumCtx - 1 /\ Ahead(SignedBits(c1, d1, v, r))
      BY <1>13, <2>2, <2>3, <3>1
    <3>3. BitAt(read) = 0 /\ Asked(ZeroCtxs(c1)) /\ Len(SignedBits(c1, d1, v, r)) = 1
      BY <1>7, <1>17, <3>2, ZeroRead
    <3> QED BY <2>2, <3>1, <3>3
  <2>5. /\ dest' = [dest EXCEPT ![n] = p] /\ read' = read + 1 /\ rice' = rice
        /\ agree' = (agree /\ Asked(ZeroCtxs(SigCtx(s, n))))
    BY <1>4, <1>9, <1>14, <1>17, <2>4
  <2>6. agree' = TRUE
    BY <1>7, <2>4, <2>5
  <2>7. band[n] = p
    BY <1>15, <1>17
  <2>8. \A m \in Cells : dest'[m] = IF m = n THEN band[m] ELSE dest[m]
    BY <1>7, <2>5, <2>7
  <2>9. CellRice(s, n, M, rice) = rice
    BY <1>11, <1>17, Zenon DEF CellRice
  <2> QED BY <1>2, <1>4, <1>10, <1>11, <2>4, <2>5, <2>6, <2>8, <2>9, Zenon DEF CellFollows
<1>18. CASE ~Skipped(s, n) /\ v # 0
  <2>1. PICK k, c1, d1, C : /\ k = LocalK(s, n) /\ c1 = SigCtx(s, n) /\ d1 = SignCtx(s, n)
                            /\ C = SignedCtxs(c1, d1, RiceCtxs(s, n, QuotientAt(read + 2), k))
    OBVIOUS
  <2>2. k \in 0 .. MaxK /\ c1 \in 0 .. NumCtx - 1 /\ d1 \in 0 .. NumCtx - 1
    <3>1. SigCtx(s, n) \in 0 .. NumCtx - 1 /\ SignCtx(s, n) \in 0 .. NumCtx - 1
      BY <1>4, <1>7, <1>8, SigCtxTyped DEF NumCtx
    <3>2. LocalK(s, n) \in 0 .. MaxK
      BY <1>8, LocalKTyped
    <3> QED BY <2>1, <3>1, <3>2
  <2>3. M \in Nat
    BY <1>4, <1>7, <1>8, <1>11, <1>18, MagnitudeTyped
  <2>4. B = SignedBits(c1, d1, v, Rice(s, n, M, k))
    BY <1>11, <1>12, <1>18, <2>1, Zenon DEF CellBits
  <2>5. C = CellCtxs(t, n)
    BY <1>9, <2>1, Zenon DEF CellCtxs
  <2>6. C = SignedCtxs(c1, d1, RiceCtxs(s, n, QuotientAt(read + 2), k))
    BY <2>1
  <2>7. /\ BitAt(read) = 1 /\ BitAt(read + 1) = Minus(v) /\ RiceAt(read + 2, k) = M
        /\ Asked(C) /\ Len(C) = Len(B)
    BY <1>4, <1>7, <1>8, <1>13, <1>15, <1>18, <2>2, <2>3, <2>4, <2>6, SignedRead, SMTT(30)
  <2>8. c = M
    BY <1>3, <1>9, <2>1, <2>7, Zenon
  <2>9. Plain(t, n, c) = Abs(v) - 1
    <3>1. Plain(t, n, c) = Plain(s, n, M)
      BY <1>9, <2>8, Zenon DEF Plain
    <3>2. Plain(s, n, M) = Abs(v) - 1
      BY <1>4, <1>7, <1>8, <1>11, <1>18, PlainIs
    <3> QED BY <3>1, <3>2, Zenon
  <2>10. Sign(BitAt(read + 1)) * (Plain(t, n, c) + 1) = v
    <3>1. PICK a : a = Abs(v) - 1
      OBVIOUS
    <3>2. Sign(Minus(v)) * (a + 1) = v
      BY <1>15, <3>1, SignTimes
    <3> QED BY <2>7, <2>9, <3>1, <3>2, Zenon
  <2>11. /\ dest' = [dest EXCEPT ![n] = v + p] /\ read' = read + Len(C)
         /\ agree' = (agree /\ Asked(C))
         /\ rice' = Tracked(rice, IF mode = 14 /\ ~base THEN M ELSE Abs(v) - 1, Window)
    <3>1. BitAt(read) # 0 /\ ~Skipped(t, n)
      BY <1>9, <1>18, <2>7
    <3> QED BY <1>4, <1>9, <1>14, <2>5, <2>8, <2>9, <2>10, <3>1, Zenon
  <2>12. agree' = TRUE
    BY <1>7, <2>7, <2>11
  <2>13. v + p = band[n]
    BY <1>15
  <2>14. \A m \in Cells : dest'[m] = IF m = n THEN band[m] ELSE dest[m]
    BY <1>7, <2>11, <2>13
  <2>15. CellRice(s, n, M, rice) = Tracked(rice, IF mode = 14 /\ ~base THEN M ELSE Abs(v) - 1, Window)
    BY <1>11, <1>18, Zenon DEF CellRice
  <2> QED BY <1>2, <1>4, <1>10, <1>11, <2>7, <2>11, <2>12, <2>14, <2>15, Zenon DEF CellFollows
<1> QED BY <1>16, <1>17, <1>18

LEMMA DecodeCellFollows == TypeInv /\ EncodeInv /\ DecodeInv /\ DecodeCell => DecodeInv'
<1> SUFFICES ASSUME TypeInv, EncodeInv, DecodeInv, DecodeCell PROVE DecodeInv'
  OBVIOUS
<1>1. /\ phase = "decode" /\ phase' = "decode" /\ UNCHANGED job /\ flags' = flags /\ past' = past
      /\ at' = at + 1 /\ valueRice' = valueRice
  BY DEF DecodeCell
<1>2. CellFollows(Bits(There)) /\ ~IsFlat(at) /\ at \in 1 .. w * h
  BY CellRead
<1>3. PICK e, l : e = There /\ l = Len(Bits(e))
  OBVIOUS
<1>4. /\ e \in Entries /\ e.at = at /\ e.rice = rice /\ e.valueRice = valueRice
      /\ e.bits = read - 1 /\ Ahead(Bits(e)) /\ Reached(After(e))
  BY <1>1, <1>2, <1>3, ThereFacts, Zenon
<1>5. /\ agree' = TRUE /\ read' = read + l
      /\ rice' = CellRice(Side(e), CellAt(at), Magnitude(Side(e), CellAt(at)), rice)
      /\ \A m \in Cells : dest'[m] = IF m = CellAt(at) THEN band[m] ELSE dest[m]
  BY <1>2, <1>3, Zenon DEF CellFollows
<1>6. After(e) = [at |-> at + 1, rice |-> rice', valueRice |-> valueRice, bits |-> (read - 1) + l]
  BY <1>2, <1>3, <1>4, <1>5, Zenon DEF After
<1>7. read \in Nat \ {0} /\ l \in Nat
  <2>1. Bits(e) \in Codes
    BY <1>4, Zenon DEF Ahead
  <2>2. read \in Nat \ {0}
    BY TypeFacts, Zenon
  <2> QED BY <1>3, <2>1, <2>2 DEF Codes
<1>8. read' - 1 = (read - 1) + l
  BY <1>5, <1>7
<1>9. There' = After(e)
  BY <1>1, <1>6, <1>8, Zenon DEF There
<1>10. Decoded'
  BY <1>1, <1>2, <1>5, TypeFacts, CellDecoded DEF DecodeInv
<1> QED BY <1>1, <1>4, <1>5, <1>9, <1>10, DecodeGoesOn

\* All cells of a flat block hold its value.
LEMMA FlatValue ==
  ASSUME Plane, mode = 16, NEW b \in BlockIds, Flags[b] = 1, NEW s, s.cells = band
  PROVE  \A m \in CellsOf(b) : band[m] = ValueOf(s, b)
<1>1. Blocks
  BY DEF Blocks
<1>2. Flag(b) = 1
  BY <1>1 DEF Flags
<1>3. Flag(b) = Bit(\A m, n \in CellsOf(b) : band[m] = band[n])
  BY Zenon DEF Flag
<1>4. \A m, n \in CellsOf(b) : band[m] = band[n]
  BY <1>2, <1>3 DEF Bit
<1>5. Min(CellsOf(b)) \in CellsOf(b)
  <2>1. CellsOf(b) \in SUBSET Nat
    BY CellFacts DEF CellsOf
  <2> QED BY <2>1, BlockHasCells, MinExists
<1>6. ValueOf(s, b) = band[Min(CellsOf(b))]
  BY DEF ValueOf
<1> QED BY <1>4, <1>5, <1>6, Zenon

\* A block more.
LEMMA BlockDecoded ==
  ASSUME Plane, Blocks, Decoded, UNCHANGED job, NEW b \in BlockIds, at = Start(b),
         at' = at + Cardinality(CellsOf(b)),
         \A m \in Cells : dest'[m] = IF BlockOf(m) = b THEN band[m] ELSE dest[m]
  PROVE  Decoded'
<1>1. Cells' = Cells /\ (\A n : Rank(n)' = Rank(n)) /\ band' = band
  BY SteadyRank, JobKept
<1>2. PICK l, a : l = Cardinality(CellsOf(b)) /\ a = w * h
  OBVIOUS
<1>3. /\ at \in Nat \ {0} /\ l \in Nat \ {0} /\ at' = at + l
      /\ \A i \in 1 .. a : /\ BlockOf(CellAt(i)) = b <=> at <= i /\ i < at + l
                           /\ BlockOf(CellAt(i)) < b <=> i < at
  BY <1>2, BlockInScan
<1>4. ASSUME NEW m \in Cells PROVE dest'[m] = IF Rank(m) + 1 < at' THEN band[m] ELSE 0
  <2>1. PICK i : i = Rank(m) + 1
    OBVIOUS
  <2>2. i \in 1 .. a /\ CellAt(i) = m
    BY <1>2, <2>1, ScanFacts
  <2>3. i \in Nat
    <3>1. Rank(m) \in Nat
      BY RankFacts
    <3> QED BY <2>1, <3>1
  <2>4. BlockOf(m) = b <=> at <= i /\ i < at + l
    BY <1>3, <2>2, Zenon
  <2>5. dest[m] = IF i < at THEN band[m] ELSE 0
    BY <2>1 DEF Decoded
  <2>6. CASE BlockOf(m) = b
    <3>1. i < at'
      BY <1>3, <2>4, <2>6
    <3> QED BY <2>1, <2>6, <3>1
  <2>7. CASE BlockOf(m) # b
    <3>1. i < at' <=> i < at
      BY <1>3, <2>3, <2>4, <2>7
    <3> QED BY <2>1, <2>5, <2>7, <3>1, Zenon
  <2> QED BY <2>6, <2>7
<1> QED BY <1>1, <1>4 DEF Decoded

\* What decoding a flat block comes to.
FlatFollows(B, b) ==
  /\ agree' = TRUE /\ read' = read + Len(B)
  /\ valueRice' = FlatRice(Side(There), b, valueRice)
  /\ \A m \in Cells : dest'[m] = IF BlockOf(m) = b THEN band[m] ELSE dest[m]

LEMMA FlatRead ==
  ASSUME TypeInv, EncodeInv, DecodeInv, DecodeFlat
  PROVE  /\ FlatFollows(Bits(There), BlockOf(CellAt(at))) /\ IsFlat(at) /\ at \in 1 .. w * h /\ Blocks
         /\ BlockOf(CellAt(at)) \in BlockIds /\ at = Start(BlockOf(CellAt(at)))
         /\ at' = at + Cardinality(CellsOf(BlockOf(CellAt(at))))
<1>2. PICK n, s, t, b : n = CellAt(at) /\ s = Side(There) /\ t = Decoder /\ b = BlockOf(n)
  OBVIOUS
<1>3. PICK c : c = RiceAt(read + 2, ValueK(t, b))
  OBVIOUS
<1>4. /\ phase = "decode" /\ at \in 1 .. w * h /\ n \in Cells /\ b \in BlockIds
      /\ mode = 16 /\ Blocks /\ flags[b] = 1 /\ at = Start(b)
      /\ at' = at + Cardinality(CellsOf(b))
      /\ BitAt(read) = 0 =>
           /\ dest' = Painted(b, ValuePrediction(t, b) + 0)
           /\ read' = read + Len(ZeroCtxs(ValueCtx(t, b)))
           /\ agree' = (agree /\ Asked(ZeroCtxs(ValueCtx(t, b))))
           /\ valueRice' = valueRice
      /\ BitAt(read) # 0 =>
           /\ dest' = Painted(b, ValuePrediction(t, b) + IF BitAt(read + 1) = 1 THEN -(c + 1) ELSE c + 1)
           /\ read' = read + Len(FlatCtxs(t, b, n))
           /\ agree' = (agree /\ Asked(FlatCtxs(t, b, n)))
           /\ valueRice' = Tracked(valueRice, c, ValueWindow)
  BY <1>2, <1>3, DecodeFlatIs, Zenon
<1>5. /\ There \in Entries /\ There.at = at /\ There.rice = rice /\ There.valueRice = valueRice
      /\ There.bits = read - 1 /\ Ahead(Bits(There))
  BY <1>4, ThereFacts, Zenon
<1>6. Seen(t, s, n)
  BY <1>2, <1>4, SeenThere, Zenon
<1>7. /\ JobOK /\ Plane /\ trace \in Codes /\ read \in Nat \ {0} /\ dest \in [Cells -> Int]
      /\ agree = TRUE /\ flags = Flags
  BY <1>4, TypeFacts DEF Codes, DecodeInv
<1>8. Sided(s) /\ Sided(t)
  BY <1>2, <1>5, <1>7, SideTyped, SidedEncoder
<1>9. /\ ValueCtx(t, b) = ValueCtx(s, b) /\ ValueSignCtx(t, b) = ValueSignCtx(s, b) /\ ValueK(t, b) = ValueK(s, b)
      /\ ValuePrediction(t, b) = ValuePrediction(s, b)
      /\ \A q, k : RiceCtxs(t, n, q, k) = RiceCtxs(s, n, q, k)
  BY <1>2, <1>4, <1>6, <1>7, SeenFlat, SeenRice
<1>10. IsFlat(at)
  BY <1>2, <1>4, <1>7, Zenon DEF IsFlat
<1>11. PICK B, v, m : B = Bits(There) /\ v = Residue(s, b) /\ m = Abs(Residue(s, b)) - 1
  OBVIOUS
<1>12. B = FlatBits(s, b, n)
  BY <1>2, <1>5, <1>10, <1>11, Zenon DEF Bits
<1>13. Ahead(B) /\ s.cells = band
  BY <1>2, <1>5, <1>11 DEF Side
<1>14. PICK p, x : p = ValuePrediction(s, b) /\ x = ValueOf(s, b)
  OBVIOUS
<1>15. p \in Int /\ x \in Int /\ v = x - p /\ v \in Int /\ (v # 0 => m \in Nat)
  <2>1. p \in Int /\ x \in Int /\ v \in Int /\ (v # 0 => m \in Nat)
    BY <1>4, <1>7, <1>8, <1>11, <1>14, ResidueTyped, ValueOfTyped
  <2>2. v = x - p
    BY <1>11, <1>14, Zenon DEF Residue
  <2> QED BY <2>1, <2>2
<1>16. PICK k, c1, d1, C : /\ k = ValueK(s, b) /\ c1 = ValueCtx(s, b) /\ d1 = ValueSignCtx(s, b)
                           /\ C = SignedCtxs(c1, d1, RiceCtxs(s, n, QuotientAt(read + 2), k))
  OBVIOUS
<1>17. k \in 0 .. MaxK /\ c1 \in 0 .. NumCtx - 1 /\ d1 \in 0 .. NumCtx - 1
  BY <1>8, <1>16, ValueCtxTyped, ValueKTyped
<1>18. B = SignedBits(c1, d1, v, Rice(s, n, m, k))
  BY <1>11, <1>12, <1>16, Zenon DEF FlatBits
<1>19. ASSUME dest' = Painted(b, x) PROVE \A i \in Cells : dest'[i] = IF BlockOf(i) = b THEN band[i] ELSE dest[i]
  <2>1. \A i \in CellsOf(b) : band[i] = x
    BY <1>4, <1>7, <1>13, <1>14, FlatValue
  <2> QED BY <1>19, <2>1 DEF Painted, CellsOf
<1>20. CASE v = 0
  <2>1. BitAt(read) = 0 /\ Asked(ZeroCtxs(c1)) /\ Len(B) = 1 /\ Len(ZeroCtxs(c1)) = 1
    <3>1. PICK r : r = Rice(s, n, m, k)
      OBVIOUS
    <3>2. Ahead(SignedBits(c1, d1, v, r)) /\ B = SignedBits(c1, d1, v, r)
      BY <1>13, <1>18, <3>1, Zenon
    <3>3. BitAt(read) = 0 /\ Asked(ZeroCtxs(c1)) /\ Len(SignedBits(c1, d1, v, r)) = 1 /\ Len(ZeroCtxs(c1)) = 1
      BY <1>7, <1>17, <1>20, <3>2, ZeroRead
    <3> QED BY <3>2, <3>3
  <2>2. /\ dest' = Painted(b, p + 0) /\ read' = read + 1 /\ valueRice' = valueRice
        /\ agree' = (agree /\ Asked(ZeroCtxs(c1)))
    BY <1>4, <1>9, <1>14, <1>16, <2>1, Zenon
  <2>3. agree' = TRUE
    BY <1>7, <2>1, <2>2
  <2>4. p + 0 = x
    BY <1>15, <1>20
  <2>5. FlatRice(s, b, valueRice) = valueRice
    BY <1>11, <1>20, Zenon DEF FlatRice
  <2>6. FlatFollows(B, b)
    BY <1>2, <1>19, <2>1, <2>2, <2>3, <2>4, <2>5, Zenon DEF FlatFollows
  <2> QED BY <1>2, <1>4, <1>10, <1>11, <2>6, Zenon
<1>21. CASE v # 0
  <2>1. C = FlatCtxs(t, b, n)
    BY <1>9, <1>16, Zenon DEF FlatCtxs
  <2>2. C = SignedCtxs(c1, d1, RiceCtxs(s, n, QuotientAt(read + 2), k))
    BY <1>16
  <2>3. m \in Nat
    BY <1>15, <1>21
  <2>4. /\ BitAt(read) = 1 /\ BitAt(read + 1) = Minus(v) /\ RiceAt(read + 2, k) = m
        /\ Asked(C) /\ Len(C) = Len(B)
    BY <1>4, <1>7, <1>8, <1>13, <1>15, <1>17, <1>18, <1>21, <2>2, <2>3, SignedRead
  <2>5. c = m
    BY <1>3, <1>9, <1>16, <2>4, Zenon
  <2>6. (IF BitAt(read + 1) = 1 THEN -(c + 1) ELSE c + 1) = v
    <3>1. BitAt(read + 1) = IF v < 0 THEN 1 ELSE 0
      BY <2>4 DEF Minus, Bit
    <3>2. m + 1 = IF v < 0 THEN -v ELSE v
      BY <1>11, <1>15 DEF Abs
    <3> QED BY <1>15, <2>3, <2>5, <3>1, <3>2
  <2>7. BitAt(read) # 0
    BY <2>4
  <2>8. /\ dest' = Painted(b, p + v) /\ read' = read + Len(C) /\ valueRice' = Tracked(valueRice, m, ValueWindow)
        /\ agree' = (agree /\ Asked(C))
    BY <1>4, <1>9, <1>14, <2>1, <2>5, <2>6, <2>7, Zenon
  <2>9. agree' = TRUE
    BY <1>7, <2>4, <2>8
  <2>10. p + v = x
    BY <1>15
  <2>11. FlatRice(s, b, valueRice) = Tracked(valueRice, m, ValueWindow)
    BY <1>11, <1>21, Zenon DEF FlatRice
  <2>12. FlatFollows(B, b)
    BY <1>2, <1>19, <2>4, <2>8, <2>9, <2>10, <2>11, Zenon DEF FlatFollows
  <2> QED BY <1>2, <1>4, <1>10, <1>11, <2>12, Zenon
<1> QED BY <1>20, <1>21

LEMMA DecodeFlatFollows == TypeInv /\ EncodeInv /\ DecodeInv /\ DecodeFlat => DecodeInv'
<1> SUFFICES ASSUME TypeInv, EncodeInv, DecodeInv, DecodeFlat PROVE DecodeInv'
  OBVIOUS
<1>1. /\ phase = "decode" /\ phase' = "decode" /\ UNCHANGED job /\ flags' = flags /\ past' = past
      /\ rice' = rice
  BY DEF DecodeFlat
<1>2. PICK b : b = BlockOf(CellAt(at))
  OBVIOUS
<1>3. /\ FlatFollows(Bits(There), b) /\ IsFlat(at) /\ at \in 1 .. w * h /\ Blocks
      /\ b \in BlockIds /\ at = Start(b) /\ at' = at + Cardinality(CellsOf(b))
  BY <1>2, FlatRead, Zenon
<1>4. PICK e, l : e = There /\ l = Len(Bits(e))
  OBVIOUS
<1>5. /\ e \in Entries /\ e.at = at /\ e.rice = rice /\ e.valueRice = valueRice
      /\ e.bits = read - 1 /\ Ahead(Bits(e)) /\ Reached(After(e))
  BY <1>1, <1>3, <1>4, ThereFacts, Zenon
<1>6. /\ agree' = TRUE /\ read' = read + l
      /\ valueRice' = FlatRice(Side(e), b, valueRice)
      /\ \A m \in Cells : dest'[m] = IF BlockOf(m) = b THEN band[m] ELSE dest[m]
  BY <1>3, <1>4, Zenon DEF FlatFollows
<1>7. After(e) = [at |-> at + Cardinality(CellsOf(b)), rice |-> rice, valueRice |-> valueRice', bits |-> (read - 1) + l]
  BY <1>2, <1>3, <1>4, <1>5, <1>6, Zenon DEF After
<1>8. read \in Nat \ {0} /\ l \in Nat
  <2>1. Bits(e) \in Codes
    BY <1>5, Zenon DEF Ahead
  <2>2. read \in Nat \ {0}
    BY TypeFacts, Zenon
  <2> QED BY <1>4, <2>1, <2>2 DEF Codes
<1>9. read' - 1 = (read - 1) + l
  BY <1>6, <1>8
<1>10. There' = After(e)
  BY <1>1, <1>3, <1>7, <1>9, Zenon DEF There
<1>11. Decoded'
  BY <1>1, <1>3, <1>6, TypeFacts, BlockDecoded DEF DecodeInv
<1> QED BY <1>1, <1>5, <1>6, <1>10, <1>11, DecodeGoesOn

LEMMA FlagBitsFacts ==
  ASSUME JobOK, Blocks
  PROVE  LET l == Cardinality(BlockIds)
         IN  /\ l \in Nat /\ BlockIds = 0 .. l - 1 /\ FlagBits \in Codes /\ Len(FlagBits) = l
             /\ \A i \in 1 .. l : /\ FlagBits[i].ctx = SlowCtx(FlagCtx(Flags, i - 1))
                                  /\ FlagBits[i].bit = Flags[i - 1]
<1>1. PICK l : l = Cardinality(BlockIds)
  OBVIOUS
<1>2. l \in Nat /\ BlockIds = 0 .. l - 1
  BY <1>1, BlockSizes DEF JobOK
<1>3. FlagBits = [i \in 1 .. l |-> Slow(FlagCtx(Flags, i - 1), Flags[i - 1])]
  BY <1>1, Zenon DEF FlagBits
<1>4. ASSUME NEW i \in 1 .. l
      PROVE  /\ Slow(FlagCtx(Flags, i - 1), Flags[i - 1]) \in Events
             /\ Slow(FlagCtx(Flags, i - 1), Flags[i - 1]).ctx = SlowCtx(FlagCtx(Flags, i - 1))
             /\ Slow(FlagCtx(Flags, i - 1), Flags[i - 1]).bit = Flags[i - 1]
  <2>1. PICK c, f : c = FlagCtx(Flags, i - 1) /\ f = Flags[i - 1]
    OBVIOUS
  <2>2. c \in 0 .. NumCtx - 1
    BY <2>1 DEF FlagCtx, Bit, NumCtx, CtxBlk
  <2>3. f \in {0, 1}
    <3>1. i - 1 \in BlockIds
      BY <1>2
    <3>2. f = Flag(i - 1)
      BY <2>1, <3>1, Zenon DEF Flags
    <3>3. CASE mode = 16
      BY <3>2, <3>3, BitTyped DEF Flag
    <3>4. CASE mode # 16
      BY <3>2, <3>4, BitTyped DEF Flag
    <3> QED BY <3>3, <3>4
  <2>4. Slow(c, f) \in Events /\ Slow(c, f).ctx = <<c, FALSE>> /\ Slow(c, f).bit = f
    BY <2>2, <2>3, SlowTyped
  <2> QED BY <2>1, <2>4, Zenon DEF SlowCtx
<1>5. FlagBits \in [1 .. l -> Events]
  BY <1>3, <1>4
<1>6. FlagBits \in Codes /\ Len(FlagBits) = l
  BY <1>2, <1>5 DEF Codes
<1>7. \A i \in 1 .. l : FlagBits[i] = Slow(FlagCtx(Flags, i - 1), Flags[i - 1])
  BY <1>3
<1> QED BY <1>1, <1>2, <1>4, <1>6, <1>7, Zenon

LEMMA FlagsRead ==
  ASSUME TypeInv, EncodeInv, DecodeInv, DecodeFlags
  PROVE  /\ flags' = Flags /\ read' = 1 + Len(FlagBits) /\ agree' = TRUE /\ Len(FlagBits) \in Nat
         /\ RunOK(past, trace)
<1>1. phase = "read flags"
  BY DEF DecodeFlags
<1>2. /\ RunOK(past, trace) /\ read = 1 /\ agree = TRUE /\ flags = <<>> /\ JobOK /\ trace \in Codes
  BY <1>1, TypeFacts DEF EncodeInv, DecodeInv, Codes
<1>3. CASE ~Blocks
  <2>1. flags' = flags /\ read' = read /\ agree' = agree
    BY <1>3, Zenon DEF DecodeFlags
  <2>2. FlagBits = <<>> /\ Flags = <<>>
    BY <1>3, Zenon DEF FlagBits, Flags
  <2>3. Len(FlagBits) = 0
    BY <2>2
  <2> QED BY <1>2, <2>1, <2>2, <2>3
<1>4. CASE Blocks
  <2>1. PICK l : l = Cardinality(BlockIds)
    OBVIOUS
  <2>2. /\ l \in Nat /\ BlockIds = 0 .. l - 1 /\ FlagBits \in Codes /\ Len(FlagBits) = l
        /\ \A i \in 1 .. l : FlagBits[i].ctx = SlowCtx(FlagCtx(Flags, i - 1)) /\ FlagBits[i].bit = Flags[i - 1]
    BY <1>2, <1>4, <2>1, FlagBitsFacts, Zenon
  <2>3. Ahead(FlagBits)
    <3>1. \A i \in 1 .. l : trace[i] = FlagBits[i]
      BY <1>2, <2>2 DEF RunOK
    <3>2. l <= Len(trace)
      <4>1. 1 \in 1 .. Len(past) /\ past[1] = First
        <5>1. past \in Seq(Entries) /\ Len(past) > 0 /\ past[1] = First
          BY <1>2 DEF RunOK
        <5>2. Len(past) \in Nat
          BY <5>1
        <5> QED BY <5>1, <5>2
      <4>2. past[1].bits <= Len(trace)
        BY <1>2, <4>1 DEF RunOK
      <4>3. First.bits = l
        BY <2>2 DEF First
      <4> QED BY <4>1, <4>2, <4>3
    <3>3. Len(trace) \in Nat
      BY <1>2 DEF Codes
    <3>4. \A i \in 1 .. l : trace[read - 1 + i] = FlagBits[i]
      BY <1>2, <2>2, <3>1
    <3>5. read - 1 + l <= Len(trace)
      BY <1>2, <2>2, <3>2, <3>3
    <3> QED BY <2>2, <3>4, <3>5 DEF Ahead
  <2>4. /\ \A i \in 1 .. l : BitAt(read - 1 + i) = FlagBits[i].bit
        /\ \A C : C \in Seq(CtxSet) /\ Len(C) = l /\ (\A i \in 1 .. l : FlagBits[i].ctx = C[i]) => Asked(C)
    <3>1. read \in Nat \ {0}
      BY <1>2
    <3> QED BY <1>2, <2>2, <2>3, <3>1, AheadFacts
  <2>5. /\ flags' = [b \in BlockIds |-> BitAt(b + 1)]
        /\ read' = read + l
        /\ agree' = Asked([b \in 1 .. l |-> SlowCtx(FlagCtx(flags', b - 1))])
    BY <1>4, <2>1, Zenon DEF DecodeFlags, SlowCtx
  <2>6. flags' = Flags
    <3>1. Flags = [b \in BlockIds |-> Flags[b]]
      BY <1>4, Zenon DEF Flags
    <3>2. ASSUME NEW b \in BlockIds PROVE BitAt(b + 1) = Flags[b]
      <4>1. b + 1 \in 1 .. l /\ read - 1 + (b + 1) = b + 1 /\ (b + 1) - 1 = b
        BY <1>2, <2>2
      <4>2. BitAt(read - 1 + (b + 1)) = FlagBits[b + 1].bit /\ FlagBits[b + 1].bit = Flags[(b + 1) - 1]
        BY <2>2, <2>4, <4>1, Zenon
      <4> QED BY <4>1, <4>2, Zenon
    <3> QED BY <2>5, <3>1, <3>2, Zenon
  <2>7. PICK C : C = [b \in 1 .. l |-> SlowCtx(FlagCtx(Flags, b - 1))]
    OBVIOUS
  <2>8. C \in Seq(CtxSet) /\ Len(C) = l /\ \A i \in 1 .. l : C[i] = SlowCtx(FlagCtx(Flags, i - 1))
    <3>1. ASSUME NEW i \in 1 .. l PROVE SlowCtx(FlagCtx(Flags, i - 1)) \in CtxSet
      <4>1. FlagCtx(Flags, i - 1) \in 0 .. NumCtx - 1
        BY DEF FlagCtx, Bit, NumCtx, CtxBlk
      <4> QED BY <4>1, CtxTyped
    <3>2. C \in [1 .. l -> CtxSet]
      BY <2>7, <3>1
    <3> QED BY <2>2, <2>7, <3>2
  <2>9. Asked(C)
    BY <2>2, <2>4, <2>8
  <2>10. agree' = TRUE
    <3>1. agree' = Asked(C)
      BY <2>5, <2>6, <2>7, Zenon
    <3>2. Asked(C) \in BOOLEAN
      BY DEF Asked
    <3> QED BY <2>9, <3>1, <3>2
  <2> QED BY <1>2, <2>2, <2>5, <2>6, <2>10
<1> QED BY <1>3, <1>4

LEMMA DecodeFlagsFollows == TypeInv /\ EncodeInv /\ DecodeInv /\ DecodeFlags => DecodeInv'
<1> SUFFICES ASSUME TypeInv, EncodeInv, DecodeInv, DecodeFlags PROVE DecodeInv'
  OBVIOUS
<1>1. /\ phase = "read flags" /\ phase' = "decode" /\ UNCHANGED job /\ at' = at /\ rice' = rice
      /\ valueRice' = valueRice /\ dest' = dest /\ past' = past
  BY DEF DecodeFlags
<1>2. at = 1 /\ rice = Untracked(k0) /\ valueRice = Untracked(0) /\ dest = [n \in Cells |-> 0] /\ Plane
  BY <1>1, TypeFacts DEF DecodeInv
<1>3. /\ flags' = Flags /\ read' = 1 + Len(FlagBits) /\ agree' = TRUE /\ Len(FlagBits) \in Nat
      /\ RunOK(past, trace)
  BY FlagsRead
<1>4. There' = First
  <2>1. read' - 1 = Len(FlagBits)
    BY <1>3
  <2> QED BY <1>1, <1>2, <2>1, Zenon DEF There, First
<1>5. 1 \in 1 .. Len(past) /\ past[1] = First
  <2>1. past \in Seq(Entries) /\ Len(past) > 0 /\ past[1] = First
    BY <1>3 DEF RunOK
  <2>2. Len(past) \in Nat
    BY <2>1
  <2> QED BY <2>1, <2>2
<1>6. \E j \in 1 .. Len(past') : past'[j] = There'
  BY <1>1, <1>4, <1>5
<1>7. Decoded'
  <2>1. Cells' = Cells /\ (\A n : Rank(n)' = Rank(n)) /\ band' = band
    BY <1>1, SteadyRank, JobKept
  <2>2. ASSUME NEW n \in Cells PROVE dest[n] = IF Rank(n) + 1 < at THEN band[n] ELSE 0
    <3>1. Rank(n) \in Nat
      BY <1>2, RankFacts
    <3>2. ~(Rank(n) + 1 < at)
      BY <1>2, <3>1
    <3> QED BY <1>2, <3>2
  <2> QED BY <1>1, <2>1, <2>2 DEF Decoded
<1>8. Flags' = Flags
  BY <1>1, SteadyRun
<1> QED BY <1>1, <1>3, <1>6, <1>7, <1>8 DEF DecodeInv

LEMMA DecodeInvInit == Init => DecodeInv
  BY DEF Init, DecodeInv

\* Up to the end of its run the encoder leaves the decoder's state alone.
LEMMA BeforeDecoding ==
  ASSUME DecodeInv, UNCHANGED <<job, read, dest, agree>>, phase \in {"flags", "encode", "read flags"},
         phase' \in {"flags", "encode", "read flags"},
         phase' = "read flags" => rice' = Untracked(k0) /\ valueRice' = Untracked(0) /\ flags' = <<>>
  PROVE  DecodeInv'
<1>1. dest = [n \in Cells |-> 0] /\ read = 1 /\ agree = TRUE
  BY DEF DecodeInv
<1>2. Cells' = Cells /\ k0' = k0
  BY SteadyRank, JobKept
<1>3. dest' = [n \in Cells' |-> 0] /\ read' = 1 /\ agree' = TRUE
  BY <1>1, <1>2
<1>4. phase' = "read flags" => rice' = Untracked(k0') /\ valueRice' = Untracked(0) /\ flags' = <<>>
  BY <1>2
<1>5. phase' \notin {"decode", "done"}
  OBVIOUS
<1> QED BY <1>3, <1>4, <1>5 DEF DecodeInv, Untracked

\* From then on, what leaves the decoder where it is.
LEMMA StandingStill ==
  ASSUME DecodeInv, UNCHANGED <<job, at, rice, valueRice, flags, read, dest, agree, past>>,
         phase \in {"decode", "done"}, phase' \in {"decode", "done"},
         phase' = "done" => at = w * h + 1
  PROVE  DecodeInv'
<1>1. agree = TRUE /\ flags = Flags /\ Decoded /\ \E j \in 1 .. Len(past) : past[j] = There
  BY DEF DecodeInv
<1>2. There' = There /\ Flags' = Flags
  BY SteadyRun DEF There
<1>3. agree' = TRUE /\ flags' = Flags' /\ \E j \in 1 .. Len(past') : past'[j] = There'
  BY <1>1, <1>2
<1>4. Decoded'
  <2>1. Cells' = Cells /\ (\A n : Rank(n)' = Rank(n)) /\ band' = band
    BY SteadyRank, JobKept
  <2> QED BY <1>1, <2>1 DEF Decoded
<1>5. phase' = "done" => at' = w' * h' + 1
  BY JobKept
<1> QED BY <1>3, <1>4, <1>5 DEF DecodeInv

LEMMA StutterDecode == TypeInv /\ DecodeInv /\ UNCHANGED vars => DecodeInv'
<1> SUFFICES ASSUME TypeInv, DecodeInv, UNCHANGED vars PROVE DecodeInv'
  OBVIOUS
<1>1. UNCHANGED <<job, phase, at, rice, valueRice, flags, read, dest, agree, past>>
  BY DEF vars
<1>2. phase \in {"flags", "encode", "read flags"} \/ phase \in {"decode", "done"}
  BY DEF TypeInv
<1>3. CASE phase \in {"flags", "encode", "read flags"}
  <2>1. phase' = "read flags" => rice' = Untracked(k0) /\ valueRice' = Untracked(0) /\ flags' = <<>>
    BY <1>1 DEF DecodeInv
  <2>2. UNCHANGED <<job, read, dest, agree>> /\ phase' \in {"flags", "encode", "read flags"}
    BY <1>1, <1>3
  <2> QED BY <1>3, <2>1, <2>2, BeforeDecoding
<1>4. CASE phase \in {"decode", "done"}
  <2>1. phase' = "done" => at = w * h + 1
    BY <1>1 DEF DecodeInv
  <2>2. UNCHANGED <<job, at, rice, valueRice, flags, read, dest, agree, past>> /\ phase' \in {"decode", "done"}
    BY <1>1, <1>4
  <2> QED BY <1>4, <2>1, <2>2, StandingStill
<1> QED BY <1>2, <1>3, <1>4

LEMMA NextDecode == TypeInv /\ EncodeInv /\ DecodeInv /\ [Next]_vars => DecodeInv'
<1> SUFFICES ASSUME TypeInv, EncodeInv, DecodeInv, [Next]_vars PROVE DecodeInv'
  OBVIOUS
<1>1. CASE EncodeFlags
  BY <1>1, BeforeDecoding DEF EncodeFlags
<1>2. CASE EncodeCell
  BY <1>2, BeforeDecoding DEF EncodeCell
<1>3. CASE EncodeFlat
  BY <1>3, BeforeDecoding DEF EncodeFlat
<1>4. CASE StartDecoding
  BY <1>4, BeforeDecoding DEF StartDecoding
<1>5. CASE DecodeFlags
  BY <1>5, DecodeFlagsFollows
<1>6. CASE DecodeCell
  BY <1>6, DecodeCellFollows
<1>7. CASE DecodeFlat
  BY <1>7, DecodeFlatFollows
<1>8. CASE EndDecoding
  BY <1>8, StandingStill DEF EndDecoding
<1>9. CASE UNCHANGED vars
  BY <1>9, StutterDecode
<1> QED BY <1>1, <1>2, <1>3, <1>4, <1>5, <1>6, <1>7, <1>8, <1>9 DEF Next

--------------------------------------------------------------------------------
(* What the run makes certain *)

BandInv == TypeInv /\ EncodeInv /\ DecodeInv

LEMMA BandInvAgree == BandInv => ContextsAgree
<1> SUFFICES ASSUME BandInv PROVE agree
  BY DEF ContextsAgree
<1>1. phase \in {"flags", "encode", "read flags"} \/ phase \in {"decode", "done"}
  BY DEF BandInv, TypeInv
<1>2. agree = TRUE
  BY <1>1 DEF BandInv, DecodeInv
<1> QED BY <1>2

LEMMA BandInvDecoded == BandInv => DecodedSoFar
<1> SUFFICES ASSUME BandInv, phase \in {"decode", "done"}, NEW i \in 1 .. w * h
             PROVE  dest[CellAt(i)] = IF i < at THEN band[CellAt(i)] ELSE 0
  BY DEF DecodedSoFar
<1>1. Decoded /\ Plane
  BY TypeFacts DEF BandInv, DecodeInv
<1>2. CellAt(i) \in Cells /\ Rank(CellAt(i)) = i - 1
  BY <1>1, ScanFacts
<1>3. i \in Nat
  <2>1. PICK a : a = w * h
    OBVIOUS
  <2>2. i \in 1 .. a
    BY <2>1
  <2> QED BY <2>2
<1>4. Rank(CellAt(i)) + 1 = i
  BY <1>2, <1>3
<1> QED BY <1>1, <1>2, <1>4 DEF Decoded

\* The decoder's last place is the encoder's, as only there the scan is over.
LEMMA BandInvRead == BandInv => AllBitsRead
<1> SUFFICES ASSUME BandInv, phase = "done" PROVE read = Len(trace) + 1
  BY DEF AllBitsRead
<1>1. /\ RunOK(past, trace) /\ at = w * h + 1 /\ JobOK /\ trace \in Codes /\ read \in Nat \ {0}
  BY TypeFacts DEF BandInv, EncodeInv, DecodeInv, Codes
<1>2. PICK j \in 1 .. Len(past) : past[j] = There
  BY DEF BandInv, DecodeInv
<1>3. PICK l, a : l = Len(past) /\ a = w * h
  OBVIOUS
<1>4. l \in Nat /\ a \in Nat
  <2>1. past \in Seq(Entries)
    BY <1>1 DEF RunOK
  <2> QED BY <1>1, <1>3, <2>1, AreaFacts DEF JobOK
<1>5. past[j].at = a + 1 /\ past[j].bits = read - 1
  BY <1>1, <1>2, <1>3 DEF There
<1>6. j = l
  <2>1. j \in 1 .. l - 1 => past[j].at <= a
    BY <1>1, <1>3, Zenon DEF RunOK
  <2>2. ~(a + 1 <= a)
    BY <1>4
  <2> QED BY <1>2, <1>3, <1>4, <1>5, <2>1, <2>2
<1>7. past[l].bits = Len(trace)
  BY <1>1, <1>3, Zenon DEF RunOK
<1>8. Len(trace) \in Nat
  BY <1>1 DEF Codes
<1> QED BY <1>1, <1>5, <1>6, <1>7, <1>8

\* What has been decoded at the end is the band, all of it.
LEMMA BandInvWhole == BandInv => (phase = "done" => dest = band)
<1> SUFFICES ASSUME BandInv, phase = "done" PROVE dest = band
  OBVIOUS
<1>1. Decoded /\ at = w * h + 1 /\ JobOK /\ Plane /\ dest \in [Cells -> Int]
  BY TypeFacts DEF BandInv, DecodeInv
<1>2. ASSUME NEW n \in Cells PROVE dest[n] = band[n]
  <2>1. PICK a : a = w * h
    OBVIOUS
  <2>2. a \in Nat /\ Rank(n) \in 0 .. a - 1
    BY <1>1, <2>1, AreaFacts, RankFacts
  <2>3. Rank(n) + 1 < at
    BY <1>1, <2>1, <2>2
  <2> QED BY <1>1, <2>3 DEF Decoded
<1>3. band \in [Cells -> Int]
  BY <1>1 DEF JobOK
<1> QED BY <1>1, <1>2, <1>3

\* Wherever it stops, the decoder has taken the encoder's steps, with the same parameters and
\* the same number of bits behind it.
THEOREM BandInvariance ==
  ASSUME MagnitudesCoded
  PROVE  Spec => []BandInv
<1>1. Init => BandInv
  BY InitTypeInv, EncodeInvInit, DecodeInvInit DEF BandInv
<1>2. BandInv /\ [Next]_vars => BandInv'
  BY NextTypeInv, NextRun, NextDecode DEF BandInv
<1> QED BY <1>1, <1>2, PTL DEF Spec

\* The decoder asks for every bit in the context, and with the adaptation rate, in which it was
\* coded, though it sees only what it has decoded and the dequantised parent.
THEOREM ContextsAlwaysAgree ==
  ASSUME MagnitudesCoded
  PROVE  Spec => []ContextsAgree
<1>1. BandInv => ContextsAgree
  BY BandInvAgree
<1> QED BY <1>1, BandInvariance, PTL

\* The cells in front of the scan hold what was coded, the others have not been touched.
THEOREM DecodedAsCoded ==
  ASSUME MagnitudesCoded
  PROVE  Spec => []DecodedSoFar
<1>1. BandInv => DecodedSoFar
  BY BandInvDecoded
<1> QED BY <1>1, BandInvariance, PTL

\* The decoder ends behind the last coded bit: position() is the payload's end.
THEOREM EveryBitRead ==
  ASSUME MagnitudesCoded
  PROVE  Spec => []AllBitsRead
<1>1. BandInv => AllBitsRead
  BY BandInvRead
<1> QED BY <1>1, BandInvariance, PTL

\* A band comes back whole.
THEOREM BandRestored ==
  ASSUME MagnitudesCoded
  PROVE  Spec => [](phase = "done" => dest = band)
<1>1. BandInv => (phase = "done" => dest = band)
  BY BandInvWhole
<1> QED BY <1>1, BandInvariance, PTL

================================================================================
