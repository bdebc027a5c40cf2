--------------------------- MODULE AmrArithmeticProofs ---------------------------
(***************************************************************************)
(* Proofs about the arithmetic of the decoder: that its operations, its    *)
(* shifts and its numbers in double precision do what their comments       *)
(* promise, for words of every width.  TLC compares all operands of words  *)
(* of four bits; the program has sixteen.  And about what is made of them  *)
(* in AmrMath and AmrFilter: that quotients are exact, numbers normalized, *)
(* and comfort noise stays between the spectra it is made of.              *)
(*                                                                         *)
(* Powers of two are not bounded here, and the provers cannot compute with *)
(* them: what is used of them follows from four lemmas about all powers,   *)
(* the rest from quotients with an unknown positive divisor.               *)
(***************************************************************************)
EXTENDS AmrArithmetic, AmrFilter, TLAPS, FiniteSetTheorems, WellFoundedInduction


-----------------------------------------------------------------------------
(* Powers of two. *)

(* A set that holds zero, and with each number the next one, holds them    *)
(* all: the least number that is not in it would follow one that is.       *)
LEMMA UpFromZero ==
    ASSUME NEW S, 0 \in S, \A n \in Nat : n \in S => n + 1 \in S
    PROVE  Nat \subseteq S
<1>1. SUFFICES ASSUME Nat \ S # {} PROVE FALSE
  OBVIOUS
<1>2. PICK n \in Nat \ S : \A m \in Nat \ S : ~ (<<m, n>> \in OpToRel(<, Nat))
  BY <1>1, NatLessThanWellFounded, WFMin
<1>3. \A m \in Nat \ S : ~ (m < n)
  BY <1>2 DEF OpToRel
<1>4. n # 0 /\ n - 1 \in Nat
  OBVIOUS
<1>5. n - 1 \in S
  BY <1>3, <1>4
<1> QED
  BY <1>4, <1>5

(* A set with one element more has twice as many subsets, which is how     *)
(* powers of two are counted here.                                         *)
LEMMA PowerDoubles ==
    ASSUME NEW n \in Nat
    PROVE  2^n \in Nat /\ 2^(n + 1) = 2 * 2^n
<1> DEFINE m == n + 1
           A == SUBSET (1..n)
           B == {X \cup {m} : X \in A}
           f == [X \in A |-> X \cup {m}]
<1>1. m \in Nat /\ 1 <= m /\ m \notin 1..n /\ 1..m = (1..n) \cup {m}
  OBVIOUS
<1>2. IsFiniteSet(1..n) /\ Cardinality(1..n) = n /\ IsFiniteSet(1..m) /\ Cardinality(1..m) = m
  <2>1. IsFiniteSet(1..n) /\ Cardinality(1..n) = IF 1 > n THEN 0 ELSE n - 1 + 1
    BY FS_Interval
  <2>2. IsFiniteSet(1..m) /\ Cardinality(1..m) = IF 1 > m THEN 0 ELSE m - 1 + 1
    BY <1>1, FS_Interval
  <2> QED BY <2>1, <2>2
<1>3. IsFiniteSet(A) /\ Cardinality(A) = 2^n
  BY <1>2, FS_SUBSET
<1>4. Cardinality(SUBSET (1..m)) = 2^m
  BY <1>2, FS_SUBSET
<1> HIDE DEF m
<1>5. SUBSET (1..m) = A \cup B
  <2>1. ASSUME NEW X \in SUBSET (1..m) PROVE X \in A \cup B
    <3>1. CASE m \in X
      <4>1. X \ {m} \in A /\ X = (X \ {m}) \cup {m}
        BY <1>1, <3>1
      <4> QED BY <4>1
    <3>2. CASE m \notin X
      BY <1>1, <3>2
    <3> QED BY <3>1, <3>2
  <2>2. ASSUME NEW X \in A \cup B PROVE X \in SUBSET (1..m)
    BY <1>1
  <2> QED BY <2>1, <2>2
<1>6. A \cap B = {}
  BY <1>1
<1>7. f \in Bijection(A, B)
  <2>1. f \in [A -> B]
    OBVIOUS
  <2>2. \A X, Y \in A : f[X] = f[Y] => X = Y
    <3> SUFFICES ASSUME NEW X \in A, NEW Y \in A, X \cup {m} = Y \cup {m}
                 PROVE  X = Y
      OBVIOUS
    <3>1. m \notin X /\ m \notin Y
      BY <1>1
    <3> QED BY <3>1
  <2>3. \A Z \in B : \E X \in A : f[X] = Z
    OBVIOUS
  <2> HIDE DEF A, B, f
  <2> QED BY <2>1, <2>2, <2>3 DEF Bijection, Injection, Surjection, IsInjective
<1>8. IsFiniteSet(B) /\ Cardinality(B) = Cardinality(A)
  <2>1. ExistsBijection(A, B)
    BY <1>7 DEF ExistsBijection
  <2> HIDE DEF A, B, f
  <2> QED BY <1>3, <2>1, FS_Bijection
<1>9. Cardinality(A) \in Nat
  <2> HIDE DEF A
  <2> QED BY <1>3, FS_CardinalityType
<1>10. Cardinality(A \cup B) = Cardinality(A) + Cardinality(B) - Cardinality(A \cap B)
  <2> HIDE DEF A, B
  <2> QED BY <1>3, <1>8, FS_Union
<1>11. Cardinality(A \cap B) = 0
  BY <1>6, FS_EmptySet
<1> DEFINE c == Cardinality(A)
<1>12. c \in Nat /\ c = 2^n /\ 2^m = c + c - 0
  <2> HIDE DEF A, B
  <2> QED BY <1>3, <1>4, <1>5, <1>8, <1>9, <1>10, <1>11
<1> HIDE DEF c
<1> QED BY <1>12 DEF m

(* No power of two is zero. *)
LEMMA PowersArePositive ==
    ASSUME NEW n \in Nat
    PROVE  2^n \in Nat /\ 2^n >= 1
<1> DEFINE S == {k \in Nat : 2^k >= 1}
<1>1. 0 \in S
  OBVIOUS
<1>2. \A k \in Nat : k \in S => k + 1 \in S
  <2> SUFFICES ASSUME NEW k \in Nat, 2^k >= 1 PROVE 2^(k + 1) >= 1
    OBVIOUS
  <2>1. 2^k \in Nat /\ 2^(k + 1) = 2 * 2^k
    BY PowerDoubles
  <2> QED BY <2>1
<1>3. Nat \subseteq S
  <2> HIDE DEF S
  <2> QED BY <1>1, <1>2, UpFromZero
<1> QED BY <1>3, PowerDoubles

(* A power of two of a sum is the product of those of its parts. *)
LEMMA PowersAdd ==
    ASSUME NEW m \in Nat, NEW n \in Nat
    PROVE  2^(m + n) = 2^m * 2^n
<1> DEFINE S == {k \in Nat : 2^(m + k) = 2^m * 2^k}
<1>1. 0 \in S
  <2>1. 2^m \in Nat /\ m + 0 = m /\ 2^0 = 1
    BY PowerDoubles
  <2> QED BY <2>1
<1>2. \A k \in Nat : k \in S => k + 1 \in S
  <2> SUFFICES ASSUME NEW k \in Nat, 2^(m + k) = 2^m * 2^k PROVE 2^(m + (k + 1)) = 2^m * 2^(k + 1)
    OBVIOUS
  <2> DEFINE a == 2^m  b == 2^k  c == 2^(m + k)
  <2>1. a \in Nat /\ b \in Nat /\ c \in Nat /\ 2^(k + 1) = 2 * b
    BY PowerDoubles
  <2>2. 2^((m + k) + 1) = 2 * c
    BY PowerDoubles
  <2>3. m + (k + 1) = (m + k) + 1
    OBVIOUS
  <2>4. c = a * b
    OBVIOUS
  <2> HIDE DEF a, b, c
  <2>5. 2 * c = a * (2 * b)
    BY <2>1, <2>4
  <2>6. 2^(m + (k + 1)) = a * (2 * b)
    BY <2>2, <2>3, <2>5
  <2> QED BY <2>1, <2>6 DEF a
<1>3. Nat \subseteq S
  <2> HIDE DEF S
  <2> QED BY <1>1, <1>2, UpFromZero
<1> QED BY <1>3

-----------------------------------------------------------------------------
(* Quotients and remainders. *)

(* What a quotient and its remainder are. *)
LEMMA Divided ==
    ASSUME NEW n \in Nat, n > 0, NEW x \in Int
    PROVE  /\ x \div n \in Int /\ x % n \in Int
           /\ 0 <= x % n /\ x % n < n /\ x = n * (x \div n) + (x % n)
OBVIOUS

(* A quotient is known by any number of divisors that leaves a remainder   *)
(* small enough.                                                           *)
LEMMA QuotientIs ==
    ASSUME NEW n \in Nat, n > 0, NEW x \in Int, NEW q \in Int, NEW r \in Int, 0 <= r, r < n, x = n * q + r
    PROVE  x \div n = q /\ x % n = r
<1> DEFINE p == x \div n  s == x % n
<1>1. p \in Int /\ s \in Int /\ 0 <= s /\ s < n /\ x = n * p + s
  BY Divided
<1> HIDE DEF p, s
<1>2. n * (p - q) = r - s
  BY <1>1
<1>3. ~ (p - q >= 1)
  <2> SUFFICES ASSUME p - q >= 1 PROVE FALSE
    OBVIOUS
  <2>1. n * (p - q) >= n
    BY <1>1
  <2> QED BY <1>1, <1>2, <2>1
<1>4. ~ (p - q <= -1)
  <2> SUFFICES ASSUME p - q <= -1 PROVE FALSE
    OBVIOUS
  <2>1. n * (p - q) <= -n
    BY <1>1
  <2> QED BY <1>1, <1>2, <2>1
<1>5. p = q
  BY <1>1, <1>3, <1>4
<1>6. s = r
  BY <1>1, <1>5
<1> QED BY <1>5, <1>6 DEF p, s

(* A quotient is at least, or less than, a number as the dividend is. *)
LEMMA QuotientBounds ==
    ASSUME NEW n \in Nat, n > 0, NEW x \in Int, NEW q \in Int
    PROVE  (x \div n >= q <=> x >= n * q) /\ (x \div n < q <=> x < n * q)
<1> DEFINE p == x \div n  s == x % n
<1>1. p \in Int /\ s \in Int /\ 0 <= s /\ s < n /\ x = n * p + s
  BY Divided
<1> HIDE DEF p, s
<1>2. ASSUME p >= q PROVE x >= n * q
  <2>1. n * (p - q) >= 0
    BY <1>1, <1>2
  <2>2. n * p = n * q + n * (p - q)
    BY <1>1
  <2> QED BY <1>1, <2>1, <2>2
<1>3. ASSUME p < q PROVE x < n * q
  <2>1. n * (q - p) >= n
    BY <1>1, <1>3
  <2>2. n * q = n * p + n * (q - p)
    BY <1>1
  <2> QED BY <1>1, <2>1, <2>2
<1>4. n * q \in Int
  OBVIOUS
<1> QED BY <1>1, <1>2, <1>3, <1>4 DEF p

(* What is left of a number, where 2k numbers can be told apart: that      *)
(* number, or one that is 2k away from it, as far as sums of two operands  *)
(* go.                                                                     *)
LEMMA Kept ==
    ASSUME NEW k \in Nat, k > 0, NEW x \in Int
    PROVE  /\ -k <= x /\ x < k => ((x + k) % (2 * k)) - k = x
           /\ k <= x /\ x < 3 * k => ((x + k) % (2 * k)) - k = x - 2 * k
           /\ -(3 * k) <= x /\ x < -k => ((x + k) % (2 * k)) - k = x + 2 * k
<1> DEFINE n == 2 * k  y == x + k
<1>1. n \in Nat /\ n > 0 /\ y \in Int
  OBVIOUS
<1>2. CASE -k <= x /\ x < k
  <2>1. y = n * 0 + y /\ 0 <= y /\ y < n
    BY <1>2
  <2> HIDE DEF n, y
  <2>2. y % n = y
    BY <1>1, <2>1, QuotientIs
  <2> QED BY <1>2, <2>2 DEF n, y
<1>3. CASE k <= x /\ x < 3 * k
  <2> DEFINE r == y - n
  <2>1. y = n * 1 + r /\ 0 <= r /\ r < n /\ r \in Int
    BY <1>3
  <2> HIDE DEF n, y, r
  <2>2. y % n = r
    BY <1>1, <2>1, QuotientIs
  <2> QED BY <1>3, <2>2 DEF n, y, r
<1>4. CASE -(3 * k) <= x /\ x < -k
  <2> DEFINE r == y + n
  <2>1. y = n * (-1) + r /\ 0 <= r /\ r < n /\ r \in Int
    BY <1>4
  <2> HIDE DEF n, y, r
  <2>2. y % n = r
    BY <1>1, <2>1, QuotientIs
  <2> QED BY <1>4, <2>2 DEF n, y, r
<1> QED BY <1>2, <1>3, <1>4

-----------------------------------------------------------------------------
(* The ranges: there are Half words of each sign, and twice Square longs. *)

Half == 2^(Width - 1)
Square == Half * Half

(* All powers of two that the operations use, in terms of Half. *)
LEMMA Powers ==
    /\ Half \in Nat /\ Half >= 2
    /\ 2^(Width - 1) = Half /\ 2^Width = 2 * Half
    /\ 2^(2 * Width - 2) = Half * Half /\ 2^(2 * Width - 1) = 2 * (Half * Half) /\ 2^(2 * Width) = 4 * (Half * Half)
    /\ 2^(Width - 2) \in Nat /\ Half = 2 * 2^(Width - 2)
<1>1. Width \in Nat /\ Width >= 2
  BY ArithmeticAssumption DEF ArithmeticAssumption
<1> DEFINE k == Width - 2  m == Width - 1  j == 2 * Width - 2  l == 2 * Width - 1
<1>2. k \in Nat /\ m \in Nat /\ j \in Nat /\ l \in Nat /\ m = k + 1 /\ Width = m + 1 /\ j = m + m /\ l = j + 1 /\ 2 * Width = l + 1
  BY <1>1
<1> HIDE DEF k, m, j, l
<1>3. 2^k \in Nat /\ 2^k >= 1 /\ 2^m = 2 * 2^k
  BY <1>2, PowerDoubles, PowersArePositive
<1>4. 2^m \in Nat /\ 2^Width = 2 * 2^m
  BY <1>2, PowerDoubles
<1>5. 2^j \in Nat /\ 2^j = 2^m * 2^m
  BY <1>2, PowerDoubles, PowersAdd
<1>6. 2^l \in Nat /\ 2^l = 2 * 2^j
  BY <1>2, PowerDoubles
<1>7. 2^(2 * Width) = 2 * 2^l
  BY <1>2, PowerDoubles
<1>8. Half = 2^m
  BY DEF Half, m
<1> DEFINE h == 2^m  hh == h * h
<1>9. 2^j = hh /\ hh \in Nat /\ 2^l = 2 * hh /\ 2^(2 * Width) = 4 * hh
  BY <1>4, <1>5, <1>6, <1>7
<1> QED BY <1>3, <1>4, <1>8, <1>9 DEF k, m, j, l

(* The ends of the words and of the longs. *)
LEMMA Limits ==
    /\ Square \in Nat /\ Square = Half * Half /\ Square >= 2 * Half /\ Square >= 4
    /\ MAX_16 = Half - 1 /\ MIN_16 = -Half /\ MAX_32 = 2 * Square - 1 /\ MIN_32 = -(2 * Square)
    /\ \A x : x \in Word <=> x \in Int /\ -Half <= x /\ x <= Half - 1
    /\ \A x : x \in Long <=> x \in Int /\ -(2 * Square) <= x /\ x <= 2 * Square - 1
<1>1. Half \in Nat /\ Half >= 2
  BY Powers
<1>2. Square \in Nat /\ Square = Half * Half /\ Square >= 2 * Half /\ Square >= 4
  BY <1>1 DEF Square
<1>3. MAX_16 = Half - 1 /\ MIN_16 = -Half
  BY Powers DEF MAX_16, MIN_16
<1>4. MAX_32 = 2 * Square - 1 /\ MIN_32 = -(2 * Square)
  BY Powers DEF MAX_32, MIN_32, Square
<1> QED BY <1>1, <1>2, <1>3, <1>4 DEF Word, Long

(* What Int16 and Int32 keep of numbers that are not far out of their      *)
(* range.                                                                  *)
LEMMA WordsKept ==
    ASSUME NEW x \in Int
    PROVE  /\ -Half <= x /\ x < Half => Int16(x) = x
           /\ -(2 * Square) <= x /\ x < 2 * Square => Int32(x) = x
           /\ 2 * Square <= x /\ x < 6 * Square => Int32(x) = x - 4 * Square
           /\ -(6 * Square) <= x /\ x < -(2 * Square) => Int32(x) = x + 4 * Square
<1>1. Half \in Nat /\ Half > 0 /\ Square \in Nat /\ Square > 0
  BY Powers, Limits
<1>2. Int16(x) = ((x + Half) % (2 * Half)) - Half
  BY Powers, Zenon DEF Int16, Wrap
<1> DEFINE k == 2 * Square
<1>3. k \in Nat /\ k > 0 /\ 2 * k = 4 * Square /\ 3 * k = 6 * Square
  BY <1>1
<1>4. Int32(x) = ((x + k) % (2 * k)) - k
  <2>1. 2^(2 * Width - 1) = k /\ 2^(2 * Width) = 4 * Square
    BY Powers DEF Square
  <2>2. Int32(x) = ((x + k) % (4 * Square)) - k
    BY <2>1, Zenon DEF Int32, Wrap
  <2> QED BY <1>3, <2>2
<1> HIDE DEF k
<1>5. /\ -k <= x /\ x < k => ((x + k) % (2 * k)) - k = x
      /\ k <= x /\ x < 3 * k => ((x + k) % (2 * k)) - k = x - 2 * k
      /\ -(3 * k) <= x /\ x < -k => ((x + k) % (2 * k)) - k = x + 2 * k
  BY <1>3, Kept
<1>6. -Half <= x /\ x < Half => ((x + Half) % (2 * Half)) - Half = x
  BY <1>1, Kept
<1>7. /\ -k <= x /\ x < k => Int32(x) = x
      /\ k <= x /\ x < 3 * k => Int32(x) = x - 2 * k
      /\ -(3 * k) <= x /\ x < -k => Int32(x) = x + 2 * k
  BY <1>4, <1>5, Zenon
<1>8. -Half <= x /\ x < Half => Int16(x) = x
  BY <1>2, <1>6, Zenon
<1> QED BY <1>3, <1>7, <1>8 DEF k

-----------------------------------------------------------------------------
(* The operations. *)

(* Saturated: the bits above the lowest are all those of the sign if, and  *)
(* only if, the number fits.                                               *)
LEMMA SaturatedIs ==
    ASSUME NEW L \in Int
    PROVE  Saturated(L) = Clamped(L, MAX_16)
<1> DEFINE r == Right(L, Width - 1)
<1>1. Half \in Nat /\ Half > 0 /\ MAX_16 = Half - 1
  BY Powers, Limits
<1>2. r = L \div Half
  BY Powers DEF Right
<1>3. r \in Int /\ (r >= 0 <=> L >= 0) /\ (r >= -1 <=> L >= -Half) /\ (r >= 1 <=> L >= Half)
  <2>1. \A q \in Int : (L \div Half >= q <=> L >= Half * q)
    BY <1>1, QuotientBounds
  <2>2. L \div Half \in Int
    BY <1>1, Divided
  <2>3. Half * 0 = 0 /\ Half * (-1) = -Half /\ Half * 1 = Half
    BY <1>1
  <2> QED BY <1>2, <2>1, <2>2, <2>3
<1>4. Saturated(L) = IF r # Sign(L) THEN Extreme(L, MAX_16) ELSE Int16(L)
  BY DEF Saturated
<1> HIDE DEF r
<1>5. CASE L >= Half
  BY <1>1, <1>3, <1>4, <1>5 DEF Sign, Extreme, Clamped
<1>6. CASE L < -Half
  BY <1>1, <1>3, <1>4, <1>6 DEF Sign, Extreme, Clamped
<1>7. CASE -Half <= L /\ L < Half
  <2>1. r = Sign(L)
    BY <1>1, <1>3, <1>7 DEF Sign
  <2>2. Int16(L) = L
    BY <1>1, <1>7, WordsKept
  <2> QED BY <1>1, <1>4, <1>7, <2>1, <2>2 DEF Clamped
<1> QED BY <1>1, <1>5, <1>6, <1>7

(* add_int32: the sign of the sum tells whether it overflowed. *)
LEMMA AddIs ==
    ASSUME NEW a \in Long, NEW b \in Long
    PROVE  add_int32(a, b) = Clamped(a + b, MAX_32)
<1> DEFINE k == 2 * Square  s == Int32(a + b)
<1>1. Square \in Nat /\ Square > 0 /\ MAX_32 = k - 1 /\ a \in Int /\ b \in Int /\ -k <= a /\ a < k /\ -k <= b /\ b < k
  BY Limits
<1>2. k \in Nat /\ k > 0 /\ 6 * Square = 3 * k /\ 4 * Square = 2 * k
  BY <1>1
<1>3. /\ -k <= a + b /\ a + b < k => s = a + b
      /\ k <= a + b => s = a + b - 2 * k
      /\ a + b < -k => s = a + b + 2 * k
  <2>1. /\ -k <= a + b /\ a + b < k => s = a + b
        /\ k <= a + b /\ a + b < 6 * Square => s = a + b - 4 * Square
        /\ -(6 * Square) <= a + b /\ a + b < -k => s = a + b + 4 * Square
    BY <1>1, WordsKept
  <2> QED BY <1>1, <1>2, <2>1
<1>4. add_int32(a, b) = IF Sign(a) = Sign(b) /\ Sign(s) # Sign(a) THEN Extreme(a, MAX_32) ELSE s
  BY DEF add_int32
<1> HIDE DEF k, s
<1>5. CASE -k <= a + b /\ a + b < k
  BY <1>1, <1>2, <1>3, <1>4, <1>5 DEF Sign, Extreme, Clamped
<1>6. CASE k <= a + b
  BY <1>1, <1>2, <1>3, <1>4, <1>6 DEF Sign, Extreme, Clamped
<1>7. CASE a + b < -k
  BY <1>1, <1>2, <1>3, <1>4, <1>7 DEF Sign, Extreme, Clamped
<1> QED BY <1>1, <1>2, <1>5, <1>6, <1>7

(* sub_int32: the sign of the difference tells whether it overflowed. *)
LEMMA SubtractIs ==
    ASSUME NEW a \in Long, NEW b \in Long
    PROVE  sub_int32(a, b) = Clamped(a - b, MAX_32)
<1> DEFINE k == 2 * Square  s == Int32(a - b)
<1>1. Square \in Nat /\ Square > 0 /\ MAX_32 = k - 1 /\ a \in Int /\ b \in Int /\ -k <= a /\ a < k /\ -k <= b /\ b < k
  BY Limits
<1>2. k \in Nat /\ k > 0 /\ 6 * Square = 3 * k /\ 4 * Square = 2 * k
  BY <1>1
<1>3. /\ -k <= a - b /\ a - b < k => s = a - b
      /\ k <= a - b => s = a - b - 2 * k
      /\ a - b < -k => s = a - b + 2 * k
  <2>1. /\ -k <= a - b /\ a - b < k => s = a - b
        /\ k <= a - b /\ a - b < 6 * Square => s = a - b - 4 * Square
        /\ -(6 * Square) <= a - b /\ a - b < -k => s = a - b + 4 * Square
    BY <1>1, WordsKept
  <2> QED BY <1>1, <1>2, <2>1
<1>4. sub_int32(a, b) = IF Sign(a) # Sign(b) /\ Sign(s) # Sign(a) THEN Extreme(a, MAX_32) ELSE s
  BY DEF sub_int32
<1> HIDE DEF k, s
<1>5. CASE -k <= a - b /\ a - b < k
  BY <1>1, <1>2, <1>3, <1>4, <1>5 DEF Sign, Extreme, Clamped
<1>6. CASE k <= a - b
  BY <1>1, <1>2, <1>3, <1>4, <1>6 DEF Sign, Extreme, Clamped
<1>7. CASE a - b < -k
  BY <1>1, <1>2, <1>3, <1>4, <1>7 DEF Sign, Extreme, Clamped
<1> QED BY <1>1, <1>2, <1>5, <1>6, <1>7

(* What is saturated is a long. *)
LEMMA ClampedInLong ==
    ASSUME NEW x \in Int
    PROVE  Clamped(x, MAX_32) \in Long
<1>1. Square \in Nat /\ Square > 0 /\ MAX_32 = 2 * Square - 1
  BY Limits
<1> DEFINE c == Clamped(x, MAX_32)
<1>2. c \in Int /\ -(2 * Square) <= c /\ c <= 2 * Square - 1
  BY <1>1 DEF Clamped
<1> HIDE DEF c
<1>3. c \in Long
  BY <1>2, Limits
<1> QED BY <1>3 DEF c

(* The greatest product is that of the least words. *)
LEMMA Products ==
    ASSUME NEW a \in Word, NEW b \in Word
    PROVE  a * b \in Int /\ -Square < a * b /\ a * b <= Square
<1>1. Half \in Nat /\ Half >= 2 /\ a \in Int /\ b \in Int /\ -Half <= a /\ a < Half /\ -Half <= b /\ b < Half
  BY Powers, Limits
<1> DEFINE h == Half
<1>2. Square = h * h
  BY DEF Square
<1> HIDE DEF h
<1> DEFINE p == a * b
<1>3. p \in Int /\ -(h * h) < p /\ p <= h * h
  <2>1. CASE a >= 0 /\ b >= 0
    <3>1. a * b <= h * h /\ a * b >= 0
      BY <1>1, <2>1 DEF h
    <3> QED BY <1>1, <3>1 DEF h
  <2>2. CASE a < 0 /\ b < 0
    <3>1. (-a) * (-b) <= h * h /\ (-a) * (-b) > 0
      BY <1>1, <2>2 DEF h
    <3>2. (-a) * (-b) = a * b
      BY <1>1
    <3> QED BY <1>1, <3>1, <3>2 DEF h
  <2>3. CASE a >= 0 /\ b < 0
    <3>1. a * (-b) <= (h - 1) * h /\ a * (-b) = -(a * b) /\ a * (-b) >= 0 /\ (h - 1) * h = h * h - h
      BY <1>1, <2>3 DEF h
    <3> QED BY <1>1, <3>1 DEF h
  <2>4. CASE a < 0 /\ b >= 0
    <3>1. (-a) * b <= h * (h - 1) /\ (-a) * b = -(a * b) /\ (-a) * b >= 0 /\ h * (h - 1) = h * h - h
      BY <1>1, <2>4 DEF h
    <3> QED BY <1>1, <3>1 DEF h
  <2> QED BY <1>1, <2>1, <2>2, <2>3, <2>4
<1> QED BY <1>2, <1>3

(* mul_16by16_to_int32: no other product is too great to be doubled. *)
LEMMA MultiplyIs ==
    ASSUME NEW a \in Word, NEW b \in Word
    PROVE  mul_16by16_to_int32(a, b) = Clamped(2 * a * b, MAX_32) /\ Clamped(2 * a * b, MAX_32) \in Long
<1> DEFINE p == a * b
<1>1. Square \in Nat /\ Square > 0 /\ MAX_32 = 2 * Square - 1 /\ a \in Int /\ b \in Int
  BY Limits
<1>2. p \in Int /\ -Square < p /\ p <= Square
  BY Products
<1>3. 2 * a * b = 2 * p
  BY <1>1
<1>4. mul_16by16_to_int32(a, b) = IF p # Square THEN Int32(p * 2) ELSE MAX_32
  <2>1. 2^(2 * Width - 2) = Square /\ 2^1 = 2
    BY Powers DEF Square
  <2> QED BY <2>1, Zenon DEF mul_16by16_to_int32, Left
<1> HIDE DEF p
<1>5. p # Square => Int32(p * 2) = p * 2
  BY <1>1, <1>2, WordsKept
<1>6. mul_16by16_to_int32(a, b) = Clamped(2 * p, MAX_32)
  BY <1>1, <1>2, <1>4, <1>5 DEF Clamped
<1>7. Clamped(2 * p, MAX_32) \in Long
  BY <1>2, ClampedInLong
<1> QED BY <1>3, <1>6, <1>7

(* The upper halves of the greatest and of the least long. *)
LEMMA Ends16 ==
    /\ 2 * Half \in Nat /\ 2 * Half > 0 /\ 2 * Square = (2 * Half) * Half
    /\ Right(MAX_32, Width) = Half - 1
    /\ Right(-(2 * Square), Width) = -Half
<1> DEFINE h == Half  n == 2 * h
<1>1. h \in Nat /\ h >= 2 /\ Square = h * h /\ MAX_32 = 2 * Square - 1
  BY Powers, Limits
<1>2. 2^Width = n
  BY Powers
<1> HIDE DEF h
<1>3. n \in Nat /\ n > 0 /\ 2 * Square = n * h /\ 2 * Square \in Nat
  BY <1>1
<1>4. MAX_32 = n * (h - 1) + (n - 1) /\ -(2 * Square) = n * (-h) + 0
  <2>1. n * (h - 1) = n * h - n
    BY <1>1, <1>3
  <2> QED BY <1>1, <1>3, <2>1
<1> HIDE DEF n
<1>5. MAX_32 \div n = h - 1
  <2>1. MAX_32 \in Int /\ h - 1 \in Int /\ n - 1 \in Int /\ 0 <= n - 1 /\ n - 1 < n
    BY <1>1, <1>3
  <2> QED BY <1>3, <1>4, <2>1, QuotientIs
<1>6. (-(2 * Square)) \div n = -h
  <2>1. -(2 * Square) \in Int /\ -h \in Int
    BY <1>1, <1>3
  <2> DEFINE x == -(2 * Square)
  <2> HIDE DEF x
  <2>2. x \in Int /\ x = n * (-h) + 0
    BY <1>4, <2>1 DEF x
  <2>3. x \div n = -h
    BY <1>3, <2>1, <2>2, QuotientIs
  <2> QED BY <2>3 DEF x
<1> QED BY <1>2, <1>3, <1>5, <1>6 DEF Right, n, h

(* amr_wb_round: the quotient is at most the greatest word, unless it is   *)
(* that of the greatest long.                                              *)
LEMMA RoundIs ==
    ASSUME NEW a \in Long, a <= MAX_32 - 2^(Width - 1) \/ a = MAX_32
    PROVE  amr_wb_round(a) = Clamped(Right(a + 2^(Width - 1), Width), MAX_16)
<1> DEFINE h == Half  n == 2 * h
<1>1. h \in Nat /\ h >= 2 /\ MAX_32 = 2 * Square - 1 /\ MAX_16 = h - 1 /\ Square \in Nat /\ Square >= 4
  BY Powers, Limits
<1>2. n \in Nat /\ n > 0 /\ 2 * Square = n * h /\ 2^Width = n /\ 2^(Width - 1) = h
  BY Powers, Ends16
<1>3. a \in Int /\ -(2 * Square) <= a /\ a <= 2 * Square - 1
  BY Limits
<1>4. amr_wb_round(a) = Int16(Right(IF a # MAX_32 THEN Int32(a + h) ELSE a, Width))
  BY <1>2, Zenon DEF amr_wb_round
<1> HIDE DEF h, n
<1>5. CASE a = MAX_32
  <2>1. amr_wb_round(a) = Int16(h - 1)
    BY <1>4, <1>5, Ends16 DEF h
  <2>2. Int16(h - 1) = h - 1
    <3>1. h - 1 \in Int /\ -Half <= h - 1 /\ h - 1 < Half
      BY <1>1 DEF h
    <3> QED BY <3>1, WordsKept
  <2>3. (a + h) \div n >= h
    <3>1. a + h \in Int /\ a + h >= n * h
      BY <1>1, <1>2, <1>5
    <3> QED BY <1>1, <1>2, <3>1, QuotientBounds
  <2>4. (a + h) \div n \in Int
    BY <1>1, <1>2, <1>3, Divided
  <2>5. Right(a + 2^(Width - 1), Width) = (a + h) \div n
    BY <1>2 DEF Right
  <2> QED BY <1>1, <2>1, <2>2, <2>3, <2>4, <2>5 DEF Clamped
<1>6. CASE a # MAX_32 /\ a <= MAX_32 - h
  <2> DEFINE r == (a + h) \div n
  <2>1. Int32(a + h) = a + h
    <3>1. a + h \in Int /\ -(2 * Square) <= a + h /\ a + h < 2 * Square
      BY <1>1, <1>3, <1>6
    <3> QED BY <3>1, WordsKept
  <2>2. r \in Int /\ r >= -h /\ r < h
    <3>1. a + h \in Int /\ a + h < n * h /\ a + h >= n * (-h) /\ -h \in Int
      <4>1. n * (-h) = -(2 * Square)
        BY <1>1, <1>2
      <4> QED BY <1>1, <1>2, <1>3, <1>6, <4>1
    <3> DEFINE x == a + h  m == -h
    <3>2. x \in Int /\ m \in Int /\ x < n * h /\ x >= n * m
      BY <3>1
    <3> HIDE DEF x, m
    <3>3. x \div n >= m /\ x \div n < h /\ x \div n \in Int
      BY <1>1, <1>2, <3>2, QuotientBounds, Divided
    <3> QED BY <3>3 DEF x, m
  <2>3. Right(a + h, Width) = r
    BY <1>2 DEF Right
  <2> HIDE DEF r
  <2>4. amr_wb_round(a) = Int16(r)
    BY <1>4, <1>6, <2>1, <2>3
  <2>5. Int16(r) = r
    BY <2>2, WordsKept DEF h
  <2>6. Clamped(r, MAX_16) = r
    BY <1>1, <2>2 DEF Clamped
  <2> QED BY <1>2, <2>3, <2>4, <2>5, <2>6
<1> QED BY <1>2, <1>5, <1>6

-----------------------------------------------------------------------------
(* The shifts. *)

(* A shift to the left and back, where p is the power that it multiplies by*)
(* and m the one that is left of the range: the number that comes back is  *)
(* the one that was shifted if, and only if, the product fits.             *)
LEMMA ThereAndBack ==
    ASSUME NEW k \in Nat, k > 0, NEW p \in Nat, p > 0, NEW m \in Nat, m > 0, 2 * k = p * m,
           NEW a \in Int, NEW w \in Int, w = ((a * p + k) % (2 * k)) - k
    PROVE  /\ -k <= a * p /\ a * p < k => w = a * p /\ w \div p = a
           /\ a * p >= k => a > 0 /\ w \div p # a
           /\ a * p < -k => a < 0 /\ w \div p # a
<1> DEFINE x == a * p  n == 2 * k  q == (x + k) \div n
<1>1. x \in Int /\ n \in Nat /\ n > 0 /\ n = p * m
  OBVIOUS
<1>2. q \in Int /\ x + k = n * q + ((x + k) % n) /\ (x + k) % n \in Int /\ 0 <= (x + k) % n /\ (x + k) % n < n
  <2> HIDE DEF x, n
  <2>1. x + k \in Int
    BY <1>1
  <2> DEFINE y == x + k
  <2> HIDE DEF y
  <2>2. y \div n \in Int /\ y % n \in Int /\ 0 <= y % n /\ y % n < n /\ y = n * (y \div n) + (y % n)
    BY <1>1, <2>1, Divided DEF y
  <2> QED BY <2>2 DEF y
<1>3. w = x - n * q
  <2> DEFINE r == (x + k) % n
  <2>1. w = r - k
    OBVIOUS
  <2> HIDE DEF r, q, n, x
  <2>2. r \in Int /\ q \in Int /\ x \in Int /\ n \in Int /\ x + k = n * q + r
    BY <1>1, <1>2 DEF r
  <2> QED BY <2>1, <2>2
<1>4. (-k <= x /\ x < k => q = 0) /\ (x >= k => q >= 1) /\ (x < -k => q < 0)
  <2> DEFINE y == x + k
  <2>1. y \in Int
    BY <1>1
  <2> HIDE DEF y, n, q
  <2>2. \A i \in Int : (y \div n >= i <=> y >= n * i) /\ (y \div n < i <=> y < n * i)
    BY <1>1, <2>1, QuotientBounds
  <2>3. q = y \div n
    BY DEF q, y
  <2>4. n * 0 = 0 /\ n * 1 = n /\ n = 2 * k
    BY <1>1 DEF n
  <2>5. (q >= 0 <=> y >= 0) /\ (q >= 1 <=> y >= n) /\ (q < 0 <=> y < 0)
    BY <2>2, <2>3, <2>4
  <2>6. y = x + k
    BY DEF y
  <2> HIDE DEF x
  <2> QED BY <1>1, <1>2, <2>4, <2>5, <2>6
<1>5. w \div p = a - m * q
  <2>1. w = p * (a - m * q) + 0
    <3> HIDE DEF q
    <3>1. n * q = p * (m * q)
      BY <1>1, <1>2
    <3>2. p * (a - m * q) = a * p - p * (m * q)
      BY <1>2
    <3> QED BY <1>1, <1>2, <1>3, <3>1, <3>2
  <2>2. a - m * q \in Int
    <3> HIDE DEF q
    <3> QED BY <1>2
  <2> DEFINE d == a - m * q
  <2> HIDE DEF d
  <2>3. d \in Int /\ w = p * d + 0
    BY <2>1, <2>2 DEF d
  <2>4. w \div p = d
    BY <2>3, QuotientIs
  <2> QED BY <2>4 DEF d
<1>6. (x >= k => a > 0) /\ (x < -k => a < 0)
  <2>1. a <= 0 => x <= 0
    OBVIOUS
  <2>2. a >= 0 => x >= 0
    OBVIOUS
  <2> HIDE DEF x
  <2> QED BY <1>1, <2>1, <2>2
<1>7. (q = 0 => m * q = 0) /\ (q >= 1 => m * q > 0) /\ (q < 0 => m * q < 0) /\ m * q \in Int /\ (q = 0 => n * q = 0)
  <2> HIDE DEF q, n
  <2> QED BY <1>1, <1>2
<1>8. CASE -k <= x /\ x < k
  BY <1>1, <1>3, <1>4, <1>5, <1>7, <1>8
<1>9. CASE x >= k
  BY <1>4, <1>5, <1>6, <1>7, <1>9
<1>10. CASE x < -k
  BY <1>4, <1>5, <1>6, <1>7, <1>10
<1> QED BY <1>1, <1>8, <1>9, <1>10

(* ... of a long, *)
LEMMA LeftOfLong ==
    ASSUME NEW a \in Long, NEW n \in 0..(2 * Width)
    PROVE  /\ a * 2^n \in Int
           /\ a * 2^n \in Long => Left(a, n) = a * 2^n /\ Right(Left(a, n), n) = a
           /\ a * 2^n > MAX_32 => a > 0 /\ Right(Left(a, n), n) # a
           /\ a * 2^n < -MAX_32 - 1 => a < 0 /\ Right(Left(a, n), n) # a
<1> DEFINE k == 2 * Square  p == 2^n  m == 2^(2 * Width - n)  w == Left(a, n)
<1>1. Width \in Nat /\ n \in Nat /\ 2 * Width - n \in Nat /\ n + (2 * Width - n) = 2 * Width
  BY ArithmeticAssumption DEF ArithmeticAssumption
<1>2. p \in Nat /\ p > 0 /\ m \in Nat /\ m > 0
  <2>1. p \in Nat /\ p >= 1
    BY <1>1, PowersArePositive
  <2>2. m \in Nat /\ m >= 1
    BY <1>1, PowersArePositive
  <2> QED BY <2>1, <2>2
<1>3. k \in Nat /\ k > 0 /\ 2 * k = 4 * Square /\ MAX_32 = k - 1 /\ a \in Int
  BY Limits
<1>4. 2 * k = p * m
  <2>1. 2^(n + (2 * Width - n)) = p * m
    BY <1>1, PowersAdd
  <2>2. 2^(2 * Width) = 4 * Square
    BY Powers DEF Square
  <2> QED BY <1>1, <1>3, <2>1, <2>2
<1>5. w = ((a * p + k) % (2 * k)) - k
  <2>1. 2^(2 * Width - 1) = k /\ 2^(2 * Width) = 4 * Square
    BY Powers DEF Square
  <2>2. w = ((a * p + k) % (4 * Square)) - k
    BY <2>1, Zenon DEF Left, Int32, Wrap
  <2> QED BY <1>3, <2>2
<1>6. Right(w, n) = w \div p
  BY DEF Right
<1>7. \A x : x \in Long <=> x \in Int /\ -k <= x /\ x < k
  BY <1>3, Limits
<1> HIDE DEF k, p, m, w
<1>8. a * p \in Int /\ (a * p + k) % (2 * k) \in Int
  <2>1. a * p \in Int
    BY <1>2, <1>3
  <2> DEFINE y == a * p + k  t == 2 * k
  <2>2. y \in Int /\ t \in Nat /\ t > 0
    BY <1>3, <2>1
  <2> HIDE DEF y, t
  <2>3. y % t \in Int
    BY <2>2, Divided
  <2> QED BY <2>1, <2>3 DEF y, t
<1>9. w \in Int
  BY <1>3, <1>5, <1>8
<1>10. /\ -k <= a * p /\ a * p < k => w = a * p /\ w \div p = a
       /\ a * p >= k => a > 0 /\ w \div p # a
       /\ a * p < -k => a < 0 /\ w \div p # a
  BY <1>2, <1>3, <1>4, <1>5, <1>9, ThereAndBack
<1> DEFINE x == a * p
<1>11. x \in Int /\ (x > MAX_32 => x >= k) /\ (x < -MAX_32 - 1 => x < -k) /\ (x \in Long => -k <= x /\ x < k)
  BY <1>3, <1>7, <1>8
<1> HIDE DEF x
<1>12. /\ x \in Int /\ (x \in Long => w = x /\ Right(w, n) = a)
       /\ (x > MAX_32 => a > 0 /\ Right(w, n) # a) /\ (x < -MAX_32 - 1 => a < 0 /\ Right(w, n) # a)
  BY <1>6, <1>10, <1>11, Zenon DEF x
<1> QED BY <1>12 DEF x, p, w

(* ... and of a word. *)
LEMMA LeftOfWord ==
    ASSUME NEW a \in Word, NEW n \in 0..Width
    PROVE  /\ a * 2^n \in Int
           /\ a * 2^n \in Word => Int16(a * 2^n) = a * 2^n /\ Right(Int16(a * 2^n), n) = a
           /\ a * 2^n > MAX_16 => a > 0 /\ Right(Int16(a * 2^n), n) # a
           /\ a * 2^n < -MAX_16 - 1 => a < 0 /\ Right(Int16(a * 2^n), n) # a
<1> DEFINE k == Half  p == 2^n  m == 2^(Width - n)  w == Int16(a * 2^n)
<1>1. Width \in Nat /\ n \in Nat /\ Width - n \in Nat /\ n + (Width - n) = Width
  BY ArithmeticAssumption DEF ArithmeticAssumption
<1>2. p \in Nat /\ p > 0 /\ m \in Nat /\ m > 0
  <2>1. p \in Nat /\ p >= 1
    BY <1>1, PowersArePositive
  <2>2. m \in Nat /\ m >= 1
    BY <1>1, PowersArePositive
  <2> QED BY <2>1, <2>2
<1>3. k \in Nat /\ k > 0 /\ MAX_16 = k - 1 /\ a \in Int
  BY Powers, Limits
<1>4. 2 * k = p * m
  <2>1. 2^(n + (Width - n)) = p * m
    BY <1>1, PowersAdd
  <2>2. 2^Width = 2 * k
    BY Powers
  <2> QED BY <1>1, <2>1, <2>2
<1>5. w = ((a * p + k) % (2 * k)) - k
  <2>1. 2^(Width - 1) = k /\ 2^Width = 2 * k
    BY Powers
  <2> QED BY <2>1, Zenon DEF Int16, Wrap
<1>6. Right(w, n) = w \div p
  BY DEF Right
<1>7. \A x : x \in Word <=> x \in Int /\ -k <= x /\ x < k
  BY <1>3, Limits
<1> HIDE DEF k, p, m, w
<1>8. a * p \in Int /\ (a * p + k) % (2 * k) \in Int
  <2>1. a * p \in Int
    BY <1>2, <1>3
  <2> DEFINE y == a * p + k  t == 2 * k
  <2>2. y \in Int /\ t \in Nat /\ t > 0
    BY <1>3, <2>1
  <2> HIDE DEF y, t
  <2>3. y % t \in Int
    BY <2>2, Divided
  <2> QED BY <2>1, <2>3 DEF y, t
<1>9. w \in Int
  BY <1>3, <1>5, <1>8
<1>10. /\ -k <= a * p /\ a * p < k => w = a * p /\ w \div p = a
       /\ a * p >= k => a > 0 /\ w \div p # a
       /\ a * p < -k => a < 0 /\ w \div p # a
  BY <1>2, <1>3, <1>4, <1>5, <1>9, ThereAndBack
<1> DEFINE x == a * p
<1>11. x \in Int /\ (x > MAX_16 => x >= k) /\ (x < -MAX_16 - 1 => x < -k) /\ (x \in Word => -k <= x /\ x < k)
  BY <1>3, <1>7, <1>8
<1> HIDE DEF x
<1>12. /\ x \in Int /\ (x \in Word => w = x /\ Right(w, n) = a)
       /\ (x > MAX_16 => a > 0 /\ Right(w, n) # a) /\ (x < -MAX_16 - 1 => a < 0 /\ Right(w, n) # a)
  BY <1>6, <1>10, <1>11, Zenon DEF x
<1> QED BY <1>12 DEF x, p, w

(* So a shift that compares what comes back saturates: a long, *)
LEMMA SaturatedLeft ==
    ASSUME NEW a \in Long, NEW n \in 0..(2 * Width)
    PROVE  (IF Right(Left(a, n), n) # a THEN Extreme(a, MAX_32) ELSE Left(a, n)) = Clamped(a * 2^n, MAX_32)
<1> DEFINE x == a * 2^n  w == Left(a, n)  r == Right(w, n)
<1>1. /\ x \in Int /\ (x \in Long => w = x /\ r = a)
      /\ (x > MAX_32 => a > 0 /\ r # a) /\ (x < -MAX_32 - 1 => a < 0 /\ r # a)
  BY LeftOfLong
<1>2. a \in Int /\ MAX_32 \in Nat /\ (x \in Long <=> x \in Int /\ -MAX_32 - 1 <= x /\ x <= MAX_32)
  BY Limits
<1> HIDE DEF x, w, r
<1>3. (IF r # a THEN Extreme(a, MAX_32) ELSE w) = Clamped(x, MAX_32)
  <2>1. CASE x > MAX_32
    BY <1>1, <1>2, <2>1 DEF Extreme, Clamped
  <2>2. CASE x < -MAX_32 - 1
    BY <1>1, <1>2, <2>2 DEF Extreme, Clamped
  <2>3. CASE -MAX_32 - 1 <= x /\ x <= MAX_32
    BY <1>1, <1>2, <2>3 DEF Extreme, Clamped
  <2> QED BY <1>1, <1>2, <2>1, <2>2, <2>3
<1> QED BY <1>3 DEF x, w, r

(* ... and a word. *)
LEMMA SaturatedLeftOfWord ==
    ASSUME NEW a \in Word, NEW n \in 0..Width
    PROVE  (IF Right(Int16(a * 2^n), n) # a THEN Extreme(a, MAX_16) ELSE Int16(a * 2^n)) = Clamped(a * 2^n, MAX_16)
<1> DEFINE x == a * 2^n  w == Int16(x)  r == Right(w, n)
<1>1. /\ x \in Int /\ (x \in Word => w = x /\ r = a)
      /\ (x > MAX_16 => a > 0 /\ r # a) /\ (x < -MAX_16 - 1 => a < 0 /\ r # a)
  BY LeftOfWord
<1>2. a \in Int /\ MAX_16 \in Nat /\ (x \in Word <=> x \in Int /\ -MAX_16 - 1 <= x /\ x <= MAX_16)
  BY Powers, Limits
<1> HIDE DEF x, w, r
<1>3. (IF r # a THEN Extreme(a, MAX_16) ELSE w) = Clamped(x, MAX_16)
  <2>1. CASE x > MAX_16
    BY <1>1, <1>2, <2>1 DEF Extreme, Clamped
  <2>2. CASE x < -MAX_16 - 1
    BY <1>1, <1>2, <2>2 DEF Extreme, Clamped
  <2>3. CASE -MAX_16 - 1 <= x /\ x <= MAX_16
    BY <1>1, <1>2, <2>3 DEF Extreme, Clamped
  <2> QED BY <1>1, <1>2, <2>1, <2>2, <2>3
<1> QED BY <1>3 DEF x, w, r

(* shl_int32, shr_int32 and shl_int16 by every amount less than the width  *)
(* that masks it.                                                          *)
LEMMA ShiftsAre ==
    ASSUME NEW a \in Long, NEW b \in Word, NEW n \in 0..(2 * Width - 1)
    PROVE  /\ shl_int32(a, n) = Clamped(a * 2^n, MAX_32)
           /\ shr_int32(a, n) = Right(a, n)
           /\ shr_int32(a, -n) = Clamped(a * 2^n, MAX_32)
           /\ n < Width => /\ shl_int32(a, -n) = Right(a, n)
                           /\ shl_int16(b, n) = Clamped(b * 2^n, MAX_16)
                           /\ shl_int16(b, -n) = Right(b, n)
<1>1. Width \in Nat /\ Width >= 2 /\ n \in Nat /\ n \in 0..(2 * Width)
  BY ArithmeticAssumption DEF ArithmeticAssumption
<1> DEFINE W == 2 * Width
<1>2. W \in Nat /\ W > 0 /\ 0 <= n /\ n < W
  BY <1>1
<1>3. n % W = n
  <2>1. n = W * 0 + n
    BY <1>2
  <2> HIDE DEF W
  <2> QED BY <1>1, <1>2, <2>1, QuotientIs
<1>4. n < Width => n % Width = n
  <2>1. n = Width * 0 + n
    BY <1>1
  <2> QED BY <1>1, <2>1, QuotientIs
<1>5. 0 % Width = 0
  <2>1. 0 = Width * 0 + 0
    BY <1>1
  <2> QED BY <1>1, <2>1, QuotientIs
<1>6. a \in Int /\ b \in Int /\ MAX_32 \in Nat /\ MAX_16 \in Nat /\ -MAX_32 - 1 <= a /\ a <= MAX_32 /\ -MAX_16 - 1 <= b /\ b <= MAX_16
  BY Powers, Limits
<1>7. -(-n) = n /\ (n = 0 => -n = 0) /\ (n # 0 => -n < 0 /\ ~(-n >= 0) /\ ~(n <= 0)) /\ n >= 0 /\ -n <= 0
  BY <1>1
<1>8. 2^0 = 1 /\ Right(a, 0) = a /\ Right(b, 0) = b
  <2>1. \A x \in Int : x \div 1 = x
    OBVIOUS
  <2>2. 2^0 = 1
    OBVIOUS
  <2> QED BY <1>6, <2>1, <2>2 DEF Right
<1>9. Clamped(a, MAX_32) = a /\ Clamped(b, MAX_16) = b
  BY <1>6 DEF Clamped
<1>10. n = 0 => Clamped(a * 2^n, MAX_32) = a
  BY <1>6, <1>8, <1>9
<1>11. shl_int32(a, n) = Clamped(a * 2^n, MAX_32)
  <2>1. CASE n = 0
    <3>1. shl_int32(a, n) = Right(a, (-n) % Width)
      BY <2>1 DEF shl_int32
    <3>2. (-n) % Width = 0
      BY <1>5, <2>1
    <3> QED BY <1>8, <1>10, <2>1, <3>1, <3>2
  <2>2. CASE n # 0
    <3>1. shl_int32(a, n) = IF Right(Left(a, n), n) # a THEN Extreme(a, MAX_32) ELSE Left(a, n)
      BY <1>7, <2>2, Zenon DEF shl_int32
    <3> QED BY <1>1, <3>1, SaturatedLeft
  <2> QED BY <2>1, <2>2
<1>12. shr_int32(a, n) = Right(a, n)
  BY <1>3, <1>7, Zenon DEF shr_int32
<1>13. shr_int32(a, -n) = Clamped(a * 2^n, MAX_32)
  <2>1. CASE n = 0
    <3>1. shr_int32(a, -n) = Right(a, n)
      BY <1>7, <1>12, <2>1
    <3> QED BY <1>8, <1>10, <2>1, <3>1
  <2>2. CASE n # 0
    <3>1. (-(-n)) % (2 * Width) = n
      BY <1>3, <1>7
    <3>2. shr_int32(a, -n) = IF Right(Left(a, n), n) # a THEN Extreme(a, MAX_32) ELSE Left(a, n)
      BY <1>7, <2>2, <3>1, Zenon DEF shr_int32
    <3> QED BY <1>1, <3>2, SaturatedLeft
  <2> QED BY <2>1, <2>2
<1>14. ASSUME n < Width PROVE shl_int32(a, -n) = Right(a, n)
  <2>1. (-(-n)) % Width = n
    BY <1>4, <1>7, <1>14
  <2> QED BY <1>7, <2>1, Zenon DEF shl_int32
<1>15. ASSUME n < Width PROVE shl_int16(b, n) = Clamped(b * 2^n, MAX_16)
  <2>1. n % Width = n /\ ~ (n < 0)
    BY <1>1, <1>4, <1>15
  <2>2. shl_int16(b, n) = IF Right(Int16(b * 2^n), n) # b THEN Extreme(b, MAX_16) ELSE Int16(b * 2^n)
    BY <2>1, Zenon DEF shl_int16
  <2>3. n \in 0..Width
    BY <1>1, <1>15
  <2> QED BY <2>2, <2>3, SaturatedLeftOfWord
<1>16. ASSUME n < Width PROVE shl_int16(b, -n) = Right(b, n)
  <2>1. CASE n = 0
    <3>1. shl_int16(b, n) = Clamped(b * 2^n, MAX_16) /\ -n = n
      BY <1>7, <1>15, <1>16, <2>1
    <3>2. b * 2^n = b
      BY <1>6, <1>8, <2>1
    <3> QED BY <1>8, <1>9, <2>1, <3>1, <3>2
  <2>2. CASE n # 0
    <3>1. (-(-n)) % Width = n
      BY <1>4, <1>7, <1>16
    <3> QED BY <1>7, <2>2, <3>1, Zenon DEF shl_int16
  <2> QED BY <2>1, <2>2
<1> QED BY <1>11, <1>12, <1>13, <1>14, <1>15, <1>16

-----------------------------------------------------------------------------
(* Rounding what is doubled, and all operations together. *)

(* amr_wb_shl1_round: what is doubled exactly is divided by half the power,*)
(* the rest is saturated first.                                            *)
LEMMA DoubledRoundIs ==
    ASSUME NEW a \in Long, 2 * a <= MAX_32 - 2^(Width - 1) \/ 2 * a > MAX_32
    PROVE  amr_wb_shl1_round(a) = Clamped(Right(2 * a + 2^(Width - 1), Width), MAX_16)
<1> DEFINE h == Half  n == 2 * h  q == 2^(Width - 2)  k == 2 * Square  back == Right(Left(a, 1), 1)
           x == 2 * a + h  r == x \div n
<1>1. h \in Nat /\ h >= 2 /\ MAX_32 = k - 1 /\ MAX_16 = h - 1 /\ k \in Nat /\ k = 2 * Square /\ Square \in Nat
  BY Powers, Limits
<1>2. n \in Nat /\ n > 0 /\ k = n * h /\ 2^Width = n /\ 2^(Width - 1) = h /\ n = 2 * h
  BY Powers, Ends16
<1>3. q \in Nat /\ h = 2 * q
  BY Powers
<1>4. a \in Int /\ -k <= a /\ a < k
  BY Limits
<1>5. \/ back = a /\ -k <= 2 * a /\ 2 * a < k
      \/ a > 0 /\ back # a /\ 2 * a >= k
      \/ a < 0 /\ back # a /\ 2 * a < -k
  <2>1. 2^1 = 2 /\ 1 \in 0..(2 * Width)
    <3>1. 2^(0 + 1) = 2 * 2^0 /\ 2^0 = 1
      BY PowerDoubles
    <3> QED BY <3>1, ArithmeticAssumption DEF ArithmeticAssumption
  <2>2. /\ a * 2^1 \in Long => back = a
        /\ a * 2^1 > MAX_32 => a > 0 /\ back # a
        /\ a * 2^1 < -MAX_32 - 1 => a < 0 /\ back # a
    BY <2>1, LeftOfLong
  <2>3. a * 2^1 = 2 * a
    BY <1>4, <2>1
  <2> HIDE DEF back
  <2>4. /\ 2 * a \in Long => back = a
        /\ 2 * a > MAX_32 => a > 0 /\ back # a
        /\ 2 * a < -MAX_32 - 1 => a < 0 /\ back # a
    BY <2>2, <2>3
  <2>5. 2 * a \in Long <=> 2 * a \in Int /\ -(2 * Square) <= 2 * a /\ 2 * a <= 2 * Square - 1
    BY Limits
  <2> HIDE DEF k
  <2> QED BY <1>1, <1>4, <2>4, <2>5
<1>6. amr_wb_shl1_round(a) = IF back = a THEN Int16(Right(Int32(a + q), Width - 1)) ELSE Int16(Right(Extreme(a, MAX_32), Width))
  BY Zenon DEF amr_wb_shl1_round
<1>7. Right(2 * a + 2^(Width - 1), Width) = r /\ x \in Int /\ x = 2 * a + h /\ r \in Int
  <2>1. x \in Int
    BY <1>1, <1>4
  <2> HIDE DEF h, n, x
  <2>2. x \div n \in Int
    BY <1>2, <2>1, Divided
  <2> QED BY <1>2, <2>1, <2>2 DEF Right, x
<1>8. \A c \in Int : -h <= c /\ c <= h - 1 => Int16(c) = c
  BY <1>1, WordsKept
<1>9. \A c \in Int : (r >= c <=> x >= n * c) /\ (r < c <=> x < n * c)
  <2> HIDE DEF h, n, x
  <2> QED BY <1>2, <1>7, QuotientBounds
<1>10. -h \in Int /\ 1 - h \in Int /\ n * (-h) = -k /\ n * (1 - h) = n - k
  <2> HIDE DEF h, n, k
  <2> QED BY <1>1, <1>2
<1>11. Right(MAX_32, Width) = h - 1 /\ Right(-k, Width) = -h
  BY Ends16
<1> HIDE DEF h, n, q, k, back, x, r
<1>12. CASE back = a /\ -k <= 2 * a /\ 2 * a < k
  <2>1. 2 * a <= MAX_32 - h
    BY <1>1, <1>2, <1>4, <1>12
  <2>2. -h <= r /\ r <= h - 1
    <3>1. x >= n * (-h) /\ x < n * h
      BY <1>1, <1>2, <1>4, <1>7, <1>10, <1>12, <2>1
    <3>2. r >= -h /\ r < h
      BY <1>1, <1>9, <1>10, <3>1
    <3> QED BY <1>1, <1>7, <3>2
  <2>3. Int32(a + q) = a + q
    <3>1. a + q \in Int /\ -(2 * Square) <= a + q /\ a + q < 2 * Square
      BY <1>1, <1>3, <1>4, <1>12, <2>1
    <3> QED BY <3>1, WordsKept
  <2>4. Right(a + q, Width - 1) = r
    <3> DEFINE y == a + q  s == y % h  t == y \div h
    <3>1. y \in Int /\ x = 2 * y
      BY <1>3, <1>4, <1>7
    <3> HIDE DEF y
    <3>2. t \in Int /\ s \in Int /\ 0 <= s /\ s < h /\ y = h * t + s
      BY <1>1, <3>1, Divided
    <3>3. Right(a + q, Width - 1) = t
      BY <1>2 DEF Right, y
    <3> HIDE DEF s, t
    <3> DEFINE u == 2 * s
    <3>4. u \in Int /\ 0 <= u /\ u < n /\ x = n * t + u
      <4>1. h * t \in Int /\ n * t = 2 * (h * t)
        BY <1>1, <1>2, <3>2
      <4> QED BY <1>1, <1>2, <3>1, <3>2, <4>1
    <3> HIDE DEF u
    <3>5. x \div n = t
      BY <1>2, <1>7, <3>2, <3>4, QuotientIs
    <3> QED BY <3>3, <3>5 DEF r
  <2>5. amr_wb_shl1_round(a) = Int16(r)
    BY <1>6, <1>12, <2>3, <2>4
  <2>6. Clamped(r, MAX_16) = r
    BY <1>1, <1>7, <2>2 DEF Clamped
  <2> QED BY <1>7, <1>8, <2>2, <2>5, <2>6
<1>13. CASE a > 0 /\ back # a /\ 2 * a >= k
  <2>1. Extreme(a, MAX_32) = MAX_32
    BY <1>1, <1>4, <1>13 DEF Extreme
  <2>2. amr_wb_shl1_round(a) = Int16(h - 1)
    BY <1>6, <1>11, <1>13, <2>1
  <2>3. Int16(h - 1) = h - 1
    BY <1>1, <1>8
  <2>4. r >= h
    <3>1. x >= n * h
      BY <1>1, <1>2, <1>4, <1>7, <1>13
    <3> QED BY <1>1, <1>9, <3>1
  <2>5. Clamped(r, MAX_16) = h - 1
    BY <1>1, <1>7, <2>4 DEF Clamped
  <2> QED BY <1>7, <2>2, <2>3, <2>5
<1>14. CASE a < 0 /\ back # a /\ 2 * a < -k
  <2>1. Extreme(a, MAX_32) = -k
    BY <1>1, <1>4, <1>14 DEF Extreme
  <2>2. amr_wb_shl1_round(a) = Int16(-h)
    BY <1>6, <1>11, <1>14, <2>1
  <2>3. Int16(-h) = -h
    BY <1>1, <1>8
  <2>4. r <= -h
    <3>1. x < n * (1 - h)
      BY <1>1, <1>2, <1>4, <1>7, <1>10, <1>14
    <3>2. r < 1 - h
      BY <1>9, <1>10, <3>1
    <3> QED BY <1>1, <1>7, <3>2
  <2>5. Clamped(r, MAX_16) = -h
    BY <1>1, <1>7, <2>4 DEF Clamped
  <2> QED BY <1>7, <2>2, <2>3, <2>5
<1> QED BY <1>5, <1>12, <1>13, <1>14

(* Two words side by side are a long. *)
LEMMA SideBySide ==
    ASSUME NEW a \in Word, NEW b \in Word
    PROVE  a * 2^Width + (b - MIN_16) \in Long
<1> DEFINE h == Half
<1>1. h \in Nat /\ h >= 2 /\ 2^Width = 2 * h /\ MIN_16 = -h /\ Square = h * h /\ Square \in Nat
  BY Powers, Limits
<1>2. a \in Int /\ b \in Int /\ -h <= a /\ a <= h - 1 /\ -h <= b /\ b <= h - 1
  BY Limits
<1>3. \A c \in Int : -(2 * Square) <= c /\ c <= 2 * Square - 1 => c \in Long
  BY Limits
<1> HIDE DEF h
<1> DEFINE m == h * a
<1>4. m \in Int /\ a * (2 * h) = 2 * m
  BY <1>1, <1>2
<1>5. -(h * h) <= m /\ m <= h * h - h
  <2>1. h * (a + h) >= 0 /\ h * (a + h) = m + h * h
    BY <1>1, <1>2
  <2>2. h * (h - 1 - a) >= 0 /\ h * (h - 1 - a) = h * h - h - m
    BY <1>1, <1>2
  <2>3. h * h \in Int
    BY <1>1
  <2> HIDE DEF m
  <2> QED BY <1>1, <1>4, <2>1, <2>2, <2>3
<1> HIDE DEF m
<1>6. 2 * m + (b - (-h)) \in Int /\ -(2 * Square) <= 2 * m + (b - (-h)) /\ 2 * m + (b - (-h)) <= 2 * Square - 1
  BY <1>1, <1>2, <1>4, <1>5
<1>7. 2 * m + (b - (-h)) \in Long
  BY <1>3, <1>6
<1> QED BY <1>1, <1>4, <1>7

ArithmeticInv == var1 \in Word /\ var2 \in Word /\ L_var1 \in Long

(* The inductive invariant: the operands are words and longs. *)
LEMMA OperandsAreWords == ArithmeticSpec => []ArithmeticInv
<1>1. ArithmeticInit => ArithmeticInv
  BY Limits, Powers DEF ArithmeticInit, ArithmeticInv
<1>2. ArithmeticInv /\ [ArithmeticNext]_arithmeticVars => ArithmeticInv'
  BY DEF ArithmeticInv, ArithmeticNext, ChooseOperands, arithmeticVars
<1> QED BY <1>1, <1>2, PTL DEF ArithmeticSpec

(* The operations of OperationsSaturate, for all operands. *)
LEMMA Operations == ArithmeticInv => OperationsSaturate
<1> SUFFICES ASSUME ArithmeticInv PROVE OperationsSaturate
  OBVIOUS
<1> DEFINE a == var1  b == var2  c == L_var1  d == L_var2  p == Clamped(2 * var1 * var2, MAX_32)
<1>1. a \in Word /\ b \in Word /\ c \in Long /\ d \in Long
  BY SideBySide DEF ArithmeticInv, L_var2
<1>2. a \in Int /\ b \in Int /\ a * b \in Int
  BY <1>1, Limits, Products
<1>3. add_int16(a, b) = Clamped(a + b, MAX_16) /\ sub_int16(a, b) = Clamped(a - b, MAX_16)
  BY <1>2, SaturatedIs DEF add_int16, sub_int16
<1>4. mult_int16(a, b) = Clamped(Right(a * b, Width - 1), MAX_16)
  <2>1. Right(a * b, Width - 1) \in Int
    BY <1>2, Powers, Divided DEF Right
  <2> QED BY <2>1, SaturatedIs DEF mult_int16
<1>5. negate_int16(a) = Clamped(-a, MAX_16)
  <2>1. -Half <= a /\ a <= Half - 1 /\ MAX_16 = Half - 1 /\ MIN_16 = -Half /\ Half \in Nat
    BY <1>1, Limits, Powers
  <2> QED BY <1>2, <2>1 DEF negate_int16, Clamped
<1>6. add_int32(c, d) = Clamped(c + d, MAX_32) /\ sub_int32(c, d) = Clamped(c - d, MAX_32)
  <2> HIDE DEF d
  <2> QED BY <1>1, AddIs, SubtractIs
<1>7. mul_16by16_to_int32(a, b) = p /\ p \in Long
  BY <1>1, MultiplyIs
<1>8. mac_16by16_to_int32(c, a, b) = Clamped(c + p, MAX_32)
  <2>1. mac_16by16_to_int32(c, a, b) = add_int32(c, p)
    BY <1>7 DEF mac_16by16_to_int32
  <2> HIDE DEF p
  <2> QED BY <1>1, <1>7, <2>1, AddIs
<1>9. msu_16by16_from_int32(c, a, b) = Clamped(c - p, MAX_32)
  <2>1. msu_16by16_from_int32(c, a, b) = sub_int32(c, p)
    BY <1>7 DEF msu_16by16_from_int32
  <2> HIDE DEF p
  <2> QED BY <1>1, <1>7, <2>1, SubtractIs
<1>10. c <= MAX_32 - 2^(Width - 1) \/ c = MAX_32 => amr_wb_round(c) = Clamped(Right(c + 2^(Width - 1), Width), MAX_16)
  BY <1>1, RoundIs
<1>11. 2 * c <= MAX_32 - 2^(Width - 1) \/ 2 * c > MAX_32 =>
           amr_wb_shl1_round(c) = Clamped(Right(2 * c + 2^(Width - 1), Width), MAX_16)
  BY <1>1, DoubledRoundIs
<1> QED BY <1>3, <1>4, <1>5, <1>6, <1>7, <1>8, <1>9, <1>10, <1>11, Zenon DEF OperationsSaturate

(* The shifts of ShiftsSaturate, for all operands. *)
LEMMA Shifts == ArithmeticInv => ShiftsSaturate
BY ShiftsAre DEF ArithmeticInv, ShiftsSaturate

(* The operations of pvamrwbdecoder_basic_op give the exact result or the  *)
(* nearest that there is, for words of every width.                        *)
THEOREM EveryOperationSaturates == ArithmeticSpec => []OperationsSaturate
BY OperandsAreWords, Operations, PTL

(* The shifts multiply and divide by powers of two and saturate, for words *)
(* of every width.                                                         *)
THEOREM EveryShiftSaturates == ArithmeticSpec => []ShiftsSaturate
BY OperandsAreWords, Shifts, PTL

-----------------------------------------------------------------------------
(* Double precision. *)

(* A product of a word and of a number that is not negative. *)
LEMMA ProductBounds ==
    ASSUME NEW h \in Nat, NEW x \in Int, NEW l \in Nat, -h <= x, x <= h - 1
    PROVE  h * l \in Nat /\ x * l \in Int /\ -(h * l) <= x * l /\ x * l <= h * l - l
<1>1. h * l \in Nat /\ x * l \in Int
  OBVIOUS
<1>2. (x + h) * l >= 0 /\ (x + h) * l = x * l + h * l
  OBVIOUS
<1>3. (h - 1 - x) * l >= 0 /\ (h - 1 - x) * l = h * l - l - x * l
  OBVIOUS
<1> DEFINE u == x * l  v == h * l
<1> HIDE DEF u, v
<1>4. u \in Int /\ v \in Nat /\ u + v >= 0 /\ v - l - u >= 0
  BY <1>1, <1>2, <1>3 DEF u, v
<1> QED BY <1>4 DEF u, v

(* The greatest product of two numbers that are not negative. *)
LEMMA SquareBounds ==
    ASSUME NEW n \in Nat, NEW x \in 0..n, NEW y \in 0..n
    PROVE  x * y \in Nat /\ x * y <= n * n
<1>1. x * y \in Nat /\ n * n \in Nat /\ n * y \in Nat
  OBVIOUS
<1>2. (n - x) * y >= 0 /\ (n - x) * y = n * y - x * y
  OBVIOUS
<1>3. n * (n - y) >= 0 /\ n * (n - y) = n * n - n * y
  OBVIOUS
<1> DEFINE u == x * y  v == n * n  w == n * y
<1> HIDE DEF u, v, w
<1>4. u \in Nat /\ v \in Nat /\ w \in Nat /\ w - u >= 0 /\ v - w >= 0
  BY <1>1, <1>2, <1>3 DEF u, v, w
<1> QED BY <1>4 DEF u, v

(* Two longs in halves, with their lowest bits d and e, and the products of  *)
(* a high part and a low one divided by h.                                  *)
InHalves(h, A, B, k, l, d, e, p, q, f, g) ==
    /\ h \in Nat /\ h >= 2 /\ A \in Int /\ B \in Int /\ -h <= A /\ A <= h - 1 /\ -h <= B /\ B <= h - 1
    /\ k \in Nat /\ l \in Nat /\ k < h /\ l < h /\ d \in 0..1 /\ e \in 0..1
    /\ p \in Int /\ q \in Int /\ f \in Int /\ g \in Int /\ 0 <= f /\ f < h /\ 0 <= g /\ g < h
    /\ A * l = h * p + f /\ B * k = h * q + g

(* The whole product t of two longs is that of their high parts and of the *)
(* two pairs of a high and a low part, as mpy_dpf_32 adds them, but for    *)
(* what the divisions leave (f and g), the lowest bits (d and e) and the   *)
(* product of the low parts: less than eight in all.                       *)
LEMMA ProductOfHalves ==
    ASSUME NEW h, NEW A, NEW B, NEW k, NEW l, NEW d, NEW e, NEW p, NEW q, NEW f, NEW g,
           InHalves(h, A, B, k, l, d, e, p, q, f, g)
    PROVE  LET a == 2 * h * A + 2 * k + d  b == 2 * h * B + 2 * l + e
               t == 2 * (A * B) + 2 * p + 2 * q  z == (a * b) \div (2 * (h * h))
           IN  /\ z \in Int /\ t \in Int
               /\ t - 2 <= z /\ z <= t + 7
               /\ f = 0 /\ g = 0 /\ A = -h /\ B = -h => z <= t + 1
<1> DEFINE a == 2 * h * A + 2 * k + d  b == 2 * h * B + 2 * l + e  t == 2 * (A * B) + 2 * p + 2 * q
           D == h * h  z == (a * b) \div (2 * (h * h))
           c == 2 * k + d  s == 2 * l + e
           r1 == h * f  r2 == h * g  r3 == h * (A * e)  r4 == h * (B * d)  r5 == c * s
           R == 4 * r1 + 4 * r2 + 2 * r3 + 2 * r4 + r5
<1> USE DEF InHalves
<1>1. D \in Nat /\ D >= 2 * h
  <2>1. h * (h - 2) >= 0 /\ h * (h - 2) = D - 2 * h /\ D \in Nat
    OBVIOUS
  <2> HIDE DEF D
  <2> QED BY <2>1
<1>2. r1 \in Int /\ 0 <= r1 /\ r1 <= D - h /\ r2 \in Int /\ 0 <= r2 /\ r2 <= D - h
  <2>1. f * h \in Int /\ g * h \in Int /\ f * h <= h * h - h /\ g * h <= h * h - h
    BY ProductBounds
  <2>2. r1 = f * h /\ r2 = g * h /\ r1 >= 0 /\ r2 >= 0
    OBVIOUS
  <2> HIDE DEF r1, r2
  <2> QED BY <2>1, <2>2
<1>3. r3 \in Int /\ -D <= r3 /\ r3 <= D - h /\ r4 \in Int /\ -D <= r4 /\ r4 <= D - h
  <2>1. A * h \in Int /\ B * h \in Int /\ -D <= A * h /\ A * h <= D - h /\ -D <= B * h /\ B * h <= D - h
    BY ProductBounds
  <2>2. (e = 0 \/ e = 1) /\ (d = 0 \/ d = 1)
    OBVIOUS
  <2>3. r3 = 0 \/ r3 = A * h
    BY <2>2
  <2>4. r4 = 0 \/ r4 = B * h
    BY <2>2
  <2> HIDE DEF r3, r4, D
  <2> QED BY <1>1, <2>1, <2>3, <2>4
<1>4. r5 \in Int /\ 0 <= r5 /\ r5 <= 4 * D - 4 * h + 1
  <2>1. 2 * h - 1 \in Nat /\ c \in 0..(2 * h - 1) /\ s \in 0..(2 * h - 1)
    OBVIOUS
  <2>2. (2 * h - 1) * (2 * h - 1) = 4 * D - 4 * h + 1
    OBVIOUS
  <2> DEFINE n == 2 * h - 1
  <2> HIDE DEF c, s, n
  <2>3. c * s \in Nat /\ c * s <= n * n
    BY <2>1, SquareBounds DEF n
  <2> HIDE DEF r5, D
  <2>4. r5 \in Nat /\ r5 <= 4 * D - 4 * h + 1
    BY <2>2, <2>3 DEF n, r5
  <2> QED BY <2>4
<1>5. t \in Int /\ a \in Int /\ b \in Int /\ a * b \in Int /\ R \in Int /\ A * B \in Int
  <2>1. A * B \in Int /\ t \in Int /\ a \in Int /\ b \in Int
    OBVIOUS
  <2> HIDE DEF a, b, t, r1, r2, r3, r4, r5
  <2> QED BY <1>2, <1>3, <1>4, <2>1
<1>6. a * b = 2 * (D * t) + R
  <2>1. a * b = 4 * (D * (A * B)) + 4 * (h * (A * l)) + 4 * (h * (B * k)) + 2 * r3 + 2 * r4 + r5
    OBVIOUS
  <2>2. h * (A * l) = D * p + r1 /\ h * (B * k) = D * q + r2
    <3>1. h * (h * p + f) = D * p + r1 /\ h * (h * q + g) = D * q + r2
      OBVIOUS
    <3> QED BY <3>1
  <2>3. 2 * (D * t) = 4 * (D * (A * B)) + 4 * (D * p) + 4 * (D * q)
    <3> DEFINE m == A * B
    <3>1. m \in Int
      OBVIOUS
    <3> HIDE DEF D, m
    <3>2. 2 * (D * (2 * m + 2 * p + 2 * q)) = 4 * (D * m) + 4 * (D * p) + 4 * (D * q)
      BY <1>1, <3>1
    <3> QED BY <3>2 DEF m
  <2> DEFINE w1 == D * (A * B)  w2 == D * p  w3 == D * q  w4 == a * b  w5 == D * t
  <2>4. w1 \in Int /\ w2 \in Int /\ w3 \in Int /\ w4 \in Int /\ w5 \in Int
    <3> HIDE DEF D, t, a, b
    <3> QED BY <1>1, <1>5
  <2>5. w4 = 4 * w1 + 4 * (w2 + r1) + 4 * (w3 + r2) + 2 * r3 + 2 * r4 + r5
    BY <2>1, <2>2, Zenon
  <2>6. 2 * w5 = 4 * w1 + 4 * w2 + 4 * w3
    BY <2>3
  <2> HIDE DEF w1, w2, w3, w4, w5, r1, r2, r3, r4, r5
  <2>7. w4 = 2 * w5 + R
    BY <1>2, <1>3, <1>4, <2>4, <2>5, <2>6
  <2> QED BY <2>7 DEF w4, w5
<1>7. -4 * D <= R /\ R < 16 * D
  <2> HIDE DEF D, r1, r2, r3, r4, r5
  <2> QED BY <1>1, <1>2, <1>3, <1>4
<1>8. ASSUME f = 0, g = 0, A = -h, B = -h PROVE R < 4 * D
  <2>1. r1 = 0 /\ r2 = 0
    BY <1>8
  <2>2. r3 = -(D * e) /\ r4 = -(D * d) /\ D * e >= 0 /\ D * d >= 0 /\ D * e \in Int /\ D * d \in Int
    BY <1>8
  <2> DEFINE u == D * e  v == D * d
  <2> HIDE DEF D, r1, r2, r3, r4, r5, u, v
  <2>3. r3 = -u /\ r4 = -v /\ u >= 0 /\ v >= 0 /\ u \in Int /\ v \in Int
    BY <2>2 DEF u, v
  <2> QED BY <1>1, <1>4, <2>1, <2>3
<1> HIDE DEF a, b, t, D, R
<1>9. \A c2 \in Int : (z >= c2 <=> a * b >= 2 * D * c2) /\ (z < c2 <=> a * b < 2 * D * c2)
  <2>1. 2 * D \in Nat /\ 2 * D > 0
    BY <1>1
  <2> DEFINE n == 2 * D  w == a * b
  <2>2. z = w \div n /\ n \in Nat /\ n > 0 /\ w \in Int
    BY <1>5, <2>1 DEF D
  <2> HIDE DEF n, w, z
  <2>3. \A c2 \in Int : (z >= c2 <=> w >= n * c2) /\ (z < c2 <=> w < n * c2)
    BY <2>2, QuotientBounds
  <2> QED BY <2>3 DEF n, w
<1>10. z \in Int
  <2>1. 2 * D \in Nat /\ 2 * D > 0
    BY <1>1
  <2> DEFINE n == 2 * D  w == a * b
  <2>2. z = w \div n /\ n \in Nat /\ n > 0 /\ w \in Int
    BY <1>5, <2>1 DEF D
  <2> HIDE DEF n, w, z
  <2> QED BY <2>2, Divided
<1> DEFINE m == D * t  w == a * b
<1>11. /\ 2 * D * (t - 2) = 2 * m - 4 * D /\ 2 * D * (t + 8) = 2 * m + 16 * D /\ 2 * D * (t + 2) = 2 * m + 4 * D
       /\ m \in Int
  BY <1>1, <1>5
<1>12. w = 2 * m + R /\ w \in Int
  BY <1>5, <1>6
<1>13. \A c2 \in Int : (z >= c2 <=> w >= 2 * D * c2) /\ (z < c2 <=> w < 2 * D * c2)
  BY <1>9
<1> HIDE DEF z, m, w
<1>14. z >= t - 2
  <2>1. w >= 2 * D * (t - 2)
    BY <1>1, <1>5, <1>7, <1>11, <1>12
  <2> QED BY <1>5, <1>13, <2>1
<1>15. z < t + 8
  <2>1. w < 2 * D * (t + 8)
    BY <1>1, <1>5, <1>7, <1>11, <1>12
  <2> QED BY <1>5, <1>13, <2>1
<1>16. f = 0 /\ g = 0 /\ A = -h /\ B = -h => z < t + 2
  <2> SUFFICES ASSUME f = 0 /\ g = 0 /\ A = -h /\ B = -h PROVE z < t + 2
    OBVIOUS
  <2>1. w < 2 * D * (t + 2)
    BY <1>1, <1>5, <1>8, <1>11, <1>12
  <2> QED BY <1>5, <1>13, <2>1
<1>17. t - 2 <= z /\ z <= t + 7 /\ (f = 0 /\ g = 0 /\ A = -h /\ B = -h => z <= t + 1)
  BY <1>5, <1>10, <1>14, <1>15, <1>16
<1> QED BY <1>5, <1>10, <1>17 DEF z, t, a, b

(* int32_to_dpf: a high part, a low one, and the lowest bit. *)
LEMMA HalvesOf ==
    ASSUME NEW a \in Long
    PROVE  LET x == int32_to_dpf(a) IN
           /\ x.hi \in Word /\ x.lo \in 0..(Half - 1)
           /\ \E e \in 0..1 : a = 2 * Half * x.hi + 2 * x.lo + e
<1> DEFINE h == Half  n == 2 * h  A == a \div n  r == a % n  l == r \div 2  e == r % 2  k == 2 * Square
<1>1. h \in Nat /\ h >= 2 /\ n \in Nat /\ n > 0 /\ n = 2 * h /\ k = n * h /\ 2^Width = n
  BY Powers, Ends16
<1>2. a \in Int /\ -k <= a /\ a < k
  BY Limits
<1>3. 2^1 = 2
  <2>1. 2^(0 + 1) = 2 * 2^0 /\ 2^0 = 1
    BY PowerDoubles
  <2> QED BY <2>1
<1>4. \A x : x \in Word <=> x \in Int /\ -h <= x /\ x <= h - 1
  BY Limits
<1> HIDE DEF h, n, k
<1>5. A \in Int /\ r \in Int /\ 0 <= r /\ r < n /\ a = n * A + r
  BY <1>1, <1>2, Divided
<1>6. A \in Word
  <2>1. n * (-h) = -k /\ -h \in Int
    BY <1>1
  <2> DEFINE m == -h
  <2> HIDE DEF m
  <2>2. m \in Int /\ a >= n * m /\ a < n * h
    BY <1>1, <1>2, <2>1 DEF m
  <2>3. A >= m /\ A < h
    BY <1>1, <1>2, <2>2, QuotientBounds
  <2> QED BY <1>1, <1>4, <1>5, <2>3 DEF m
<1>7. Right(a, Width) = A
  BY <1>1 DEF Right
<1>8. a - A * 2^Width = r
  <2>1. A * n = n * A /\ n * A \in Int
    BY <1>1, <1>5
  <2> QED BY <1>1, <1>5, <2>1
<1> HIDE DEF A, r
<1>9. Right(a - A * 2^Width, 1) = l
  BY <1>3, <1>8 DEF Right
<1>10. l \in Int /\ e \in Int /\ 0 <= e /\ e < 2 /\ r = 2 * l + e
  BY <1>5, Divided
<1> HIDE DEF l, e
<1>11. l \in 0..(h - 1) /\ e \in 0..1
  BY <1>1, <1>5, <1>10
<1>12. int32_to_dpf(a).hi = A /\ int32_to_dpf(a).lo = l
  BY <1>7, <1>9, Zenon DEF int32_to_dpf
<1>13. a = 2 * h * A + 2 * l + e
  BY <1>1, <1>5, <1>10
<1> QED BY <1>6, <1>11, <1>12, <1>13 DEF h

(* A product of a high part and a low one needs no saturation. *)
LEMMA PartProduct ==
    ASSUME NEW A \in Word, NEW l \in 0..(Half - 1)
    PROVE  LET p == (A * l) \div Half  f == (A * l) % Half IN
           /\ p \in Int /\ f \in Int /\ 0 <= f /\ f < Half /\ A * l = Half * p + f
           /\ 1 - Half <= p /\ p <= Half - 1
           /\ mult_int16(A, l) = p /\ mult_int16(l, A) = p
           /\ A = -Half => p = -l /\ f = 0
<1> DEFINE h == Half  x == A * l  p == x \div h  f == x % h
<1>1. h \in Nat /\ h >= 2 /\ 2^(Width - 1) = h /\ MAX_16 = h - 1
  BY Powers, Limits
<1>2. A \in Int /\ -h <= A /\ A <= h - 1 /\ l \in Nat /\ l < h
  BY <1>1, Limits
<1>3. x \in Int /\ l * A = x
  BY <1>2
<1>4. x >= h * (1 - h) /\ x < h * h
  <2>1. h * l \in Nat /\ -(h * l) <= x /\ x <= h * l - l
    <3> HIDE DEF h, p, f
    <3> QED BY <1>1, <1>2, ProductBounds
  <2>2. h * (h - 1 - l) >= 0 /\ h * (h - 1 - l) = h * h - h - h * l /\ h * (1 - h) = h - h * h /\ h * h \in Nat
    <3> HIDE DEF h, p, f, x
    <3> QED BY <1>1, <1>2
  <2> DEFINE u == h * l  v == h * h  w == h * (1 - h)
  <2> HIDE DEF u, v, w, x, p, f, h
  <2>3. u \in Nat /\ -u <= x /\ x <= u - l /\ v - h - u >= 0 /\ w = h - v /\ v \in Nat
    BY <1>1, <1>2, <2>1, <2>2 DEF u, v, w
  <2>4. x >= w /\ x < v
    BY <1>1, <1>2, <1>3, <2>3
  <2> QED BY <2>4 DEF v, w
<1> HIDE DEF x
<1>5. p \in Int /\ f \in Int /\ 0 <= f /\ f < h /\ x = h * p + f
  <2> HIDE DEF h
  <2> QED BY <1>1, <1>3, Divided
<1>6. 1 - h <= p /\ p <= h - 1
  <2> DEFINE m == 1 - h
  <2> HIDE DEF h
  <2>1. m \in Int
    BY <1>1
  <2> HIDE DEF m
  <2>2. p >= m /\ p < h
    BY <1>1, <1>3, <1>4, <2>1, QuotientBounds DEF m
  <2> QED BY <1>1, <1>5, <2>2 DEF m
<1>7. Right(x, Width - 1) = p
  BY <1>1 DEF Right
<1>8. Saturated(p) = p
  <2>1. Saturated(p) = Clamped(p, MAX_16)
    BY <1>5, SaturatedIs
  <2> HIDE DEF p, h
  <2> QED BY <1>1, <1>5, <1>6, <2>1 DEF Clamped
<1>9. mult_int16(A, l) = p /\ mult_int16(l, A) = p
  BY <1>3, <1>7, <1>8, Zenon DEF mult_int16, x
<1>10. A = -h => p = -l /\ f = 0
  <2> SUFFICES ASSUME A = -h PROVE p = -l /\ f = 0
    OBVIOUS
  <2> DEFINE q == -l
  <2>1. x = h * q + 0 /\ q \in Int
    <3> HIDE DEF h, p, f
    <3> QED BY <1>1, <1>2 DEF x
  <2> HIDE DEF h, q
  <2>2. p = q /\ f = 0
    BY <1>1, <1>3, <2>1, QuotientIs
  <2> QED BY <2>2 DEF q
<1> QED BY <1>1, <1>5, <1>6, <1>9, <1>10 DEF x

(* Saturation brings numbers no further apart. *)
LEMMA ClampedNear ==
    ASSUME NEW x \in Int, NEW y \in Int, NEW m \in Nat, y - 2 <= x, x <= y + 7
    PROVE  Clamped(x, m) - Clamped(y, m) \in -2..7
BY DEF Clamped

(* mpy_dpf_32: only the sum of the parts saturates, or the product of the  *)
(* two least high parts, where the low parts take away one more than is    *)
(* lost.                                                                   *)
LEMMA ProductOfLongs ==
    ASSUME NEW a \in Long, NEW b \in Long
    PROVE  Clamped(Right(a * b, 2 * Width - 1), MAX_32) - mpy_dpf_32(int32_to_dpf(a), int32_to_dpf(b)) \in -2..7
<1> DEFINE h == Half  A == int32_to_dpf(a).hi  k == int32_to_dpf(a).lo  B == int32_to_dpf(b).hi  l == int32_to_dpf(b).lo
           p == (A * l) \div h  f == (A * l) % h  q == (B * k) \div h  g == (B * k) % h
           P == A * B  t == 2 * P + 2 * p + 2 * q  z == (a * b) \div (2 * (h * h))
           m0 == mul_16by16_to_int32(A, B)
           m1 == mac_16by16_to_int32(m0, mult_int16(A, l), 1)  m2 == mac_16by16_to_int32(m1, mult_int16(k, B), 1)
<1>1. A \in Word /\ k \in 0..(h - 1) /\ B \in Word /\ l \in 0..(h - 1)
  BY HalvesOf
<1>2. PICK d \in 0..1 : a = 2 * h * A + 2 * k + d
  BY HalvesOf
<1>3. PICK e \in 0..1 : b = 2 * h * B + 2 * l + e
  BY HalvesOf
<1>4. mpy_dpf_32(int32_to_dpf(a), int32_to_dpf(b)) = m2
  BY Zenon DEF mpy_dpf_32
<1>5. /\ h \in Nat /\ h >= 2 /\ MAX_32 = 2 * Square - 1 /\ Square = h * h /\ Square >= 2 * h /\ Square \in Nat
      /\ 2^(2 * Width - 1) = 2 * (h * h)
  BY Powers, Limits
<1> HIDE DEF A, k, B, l
<1>6. A \in Int /\ -h <= A /\ A <= h - 1 /\ B \in Int /\ -h <= B /\ B <= h - 1
  BY <1>1, Limits
<1>7. k \in Nat /\ k < h /\ l \in Nat /\ l < h
  BY <1>1, <1>5
<1>8. /\ p \in Int /\ f \in Int /\ 0 <= f /\ f < h /\ A * l = h * p + f
      /\ 1 - h <= p /\ p <= h - 1 /\ mult_int16(A, l) = p
      /\ A = -h => p = -l /\ f = 0
  BY <1>1, PartProduct
<1>9. /\ q \in Int /\ g \in Int /\ 0 <= g /\ g < h /\ B * k = h * q + g
      /\ 1 - h <= q /\ q <= h - 1 /\ mult_int16(k, B) = q
      /\ B = -h => q = -k /\ g = 0
  BY <1>1, PartProduct
<1> HIDE DEF p, f, q, g
<1>10. /\ z \in Int /\ t \in Int /\ t - 2 <= z /\ z <= t + 7
       /\ A = -h /\ B = -h => z <= t + 1
  <2> DEFINE aa == 2 * h * A + 2 * k + d  bb == 2 * h * B + 2 * l + e  zz == (aa * bb) \div (2 * (h * h))
  <2>1. /\ zz \in Int /\ t \in Int /\ t - 2 <= zz /\ zz <= t + 7
        /\ f = 0 /\ g = 0 /\ A = -h /\ B = -h => zz <= t + 1
    <3> HIDE DEF h
    <3>1. InHalves(h, A, B, k, l, d, e, p, q, f, g)
      BY <1>5, <1>6, <1>7, <1>8, <1>9 DEF InHalves
    <3> QED BY <3>1, ProductOfHalves, Zenon
  <2>2. zz = z
    BY <1>2, <1>3, Zenon
  <2> HIDE DEF zz, z, t
  <2> QED BY <1>8, <1>9, <2>1, <2>2
<1>11. Right(a * b, 2 * Width - 1) = z
  BY <1>5 DEF Right
<1> HIDE DEF z
<1>12. m0 = Clamped(2 * A * B, MAX_32) /\ m0 \in Long
  BY <1>1, MultiplyIs
<1>13. P \in Int /\ 2 * A * B = 2 * P
  BY <1>6
<1>14. 1 \in Word /\ p \in Word /\ q \in Word
  <2>1. \A x : x \in Word <=> x \in Int /\ -h <= x /\ x <= h - 1
    BY Limits
  <2> HIDE DEF h
  <2> QED BY <1>5, <1>8, <1>9, <2>1
<1>15. ASSUME NEW c \in Long, NEW x \in Word, x \in Int, 1 - h <= x, x <= h - 1
       PROVE  mac_16by16_to_int32(c, x, 1) = Clamped(c + 2 * x, MAX_32)
  <2>1. mul_16by16_to_int32(x, 1) = Clamped(2 * x * 1, MAX_32) /\ Clamped(2 * x * 1, MAX_32) \in Long
    BY <1>14, MultiplyIs
  <2>2. Clamped(2 * x * 1, MAX_32) = 2 * x
    <3> HIDE DEF h
    <3> QED BY <1>5, <1>15 DEF Clamped
  <2>3. mac_16by16_to_int32(c, x, 1) = add_int32(c, 2 * x) /\ 2 * x \in Long
    BY <2>1, <2>2 DEF mac_16by16_to_int32
  <2> QED BY <2>3, AddIs
<1>16. m1 = Clamped(m0 + 2 * p, MAX_32)
  <2> HIDE DEF m0
  <2>1. mac_16by16_to_int32(m0, p, 1) = Clamped(m0 + 2 * p, MAX_32)
    BY <1>8, <1>12, <1>14, <1>15
  <2> QED BY <1>8, <2>1
<1>17. m1 \in Long
  <2>1. m0 + 2 * p \in Int
    <3>1. m0 \in Int
      BY <1>12, Limits
    <3> HIDE DEF m0
    <3> QED BY <1>8, <3>1
  <2> QED BY <1>16, <2>1, ClampedInLong
<1>18. m2 = Clamped(m1 + 2 * q, MAX_32)
  <2> HIDE DEF m1
  <2>1. mac_16by16_to_int32(m1, q, 1) = Clamped(m1 + 2 * q, MAX_32)
    BY <1>9, <1>14, <1>15, <1>17
  <2> QED BY <1>9, <2>1
<1>19. /\ h - h * h <= P
       /\ (P <= h * h - h) \/ (A = -h /\ B = -h /\ P = h * h)
  <2>1. CASE A = -h /\ B = -h
    <3>1. P = h * h
      BY <2>1, <1>5
    <3> HIDE DEF P, h
    <3> QED BY <1>5, <2>1, <3>1
  <2>2. CASE A # -h
    <3>1. (h - 1 - A) * (h - B) >= 0 /\ (h - 1 - A) * (h + B) >= 0 /\ (h - 1 + A) * (h - B) >= 0 /\ (h - 1 + A) * (h + B) >= 0
      <4> HIDE DEF h, P
      <4>1. h - 1 - A \in Nat /\ h - B \in Nat /\ h + B \in Nat /\ h - 1 + A \in Nat
        BY <1>5, <1>6, <2>2
      <4> DEFINE u == h - 1 - A  v == h - 1 + A  w == h - B  y == h + B
      <4> HIDE DEF u, v, w, y
      <4>2. u * w >= 0 /\ u * y >= 0 /\ v * w >= 0 /\ v * y >= 0
        BY <4>1 DEF u, v, w, y
      <4> QED BY <4>2 DEF u, v, w, y
    <3>2. /\ (h - 1 - A) * (h - B) = h * h - h - h * A - h * B + B + P
          /\ (h - 1 - A) * (h + B) = h * h - h - h * A + h * B - B - P
          /\ (h - 1 + A) * (h - B) = h * h - h + h * A - h * B + B - P
          /\ (h - 1 + A) * (h + B) = h * h - h + h * A + h * B - B + P
      BY <1>5, <1>6
    <3>3. h * h \in Int /\ h * A \in Int /\ h * B \in Int
      BY <1>5, <1>6
    <3> DEFINE hh == h * h  hA == h * A  hB == h * B
    <3> HIDE DEF hh, hA, hB, P, h
    <3>4. /\ hh - h - hA - hB + B + P >= 0 /\ hh - h - hA + hB - B - P >= 0
          /\ hh - h + hA - hB + B - P >= 0 /\ hh - h + hA + hB - B + P >= 0
          /\ hh \in Int /\ hA \in Int /\ hB \in Int
      BY <3>1, <3>2, <3>3 DEF hh, hA, hB
    <3>5. P <= hh - h /\ P >= h - hh
      BY <1>5, <1>6, <1>13, <3>4
    <3> QED BY <1>5, <1>13, <3>3, <3>5 DEF hh
  <2>3. CASE B # -h
    <3>1. (h - 1 - B) * (h - A) >= 0 /\ (h - 1 - B) * (h + A) >= 0 /\ (h - 1 + B) * (h - A) >= 0 /\ (h - 1 + B) * (h + A) >= 0
      <4> HIDE DEF h, P
      <4>1. h - 1 - B \in Nat /\ h - A \in Nat /\ h + A \in Nat /\ h - 1 + B \in Nat
        BY <1>5, <1>6, <2>3
      <4> DEFINE u == h - 1 - B  v == h - 1 + B  w == h - A  y == h + A
      <4> HIDE DEF u, v, w, y
      <4>2. u * w >= 0 /\ u * y >= 0 /\ v * w >= 0 /\ v * y >= 0
        BY <4>1 DEF u, v, w, y
      <4> QED BY <4>2 DEF u, v, w, y
    <3>2. /\ (h - 1 - B) * (h - A) = h * h - h - h * A - h * B + A + P
          /\ (h - 1 - B) * (h + A) = h * h - h + h * A - h * B - A - P
          /\ (h - 1 + B) * (h - A) = h * h - h - h * A + h * B + A - P
          /\ (h - 1 + B) * (h + A) = h * h - h + h * A + h * B - A + P
      BY <1>5, <1>6
    <3>3. h * h \in Int /\ h * A \in Int /\ h * B \in Int
      BY <1>5, <1>6
    <3> DEFINE hh == h * h  hA == h * A  hB == h * B
    <3> HIDE DEF hh, hA, hB, P, h
    <3>4. /\ hh - h - hA - hB + A + P >= 0 /\ hh - h + hA - hB - A - P >= 0
          /\ hh - h - hA + hB + A - P >= 0 /\ hh - h + hA + hB - A + P >= 0
          /\ hh \in Int /\ hA \in Int /\ hB \in Int
      BY <3>1, <3>2, <3>3 DEF hh, hA, hB
    <3>5. P <= hh - h /\ P >= h - hh
      BY <1>5, <1>6, <1>13, <3>4
    <3> QED BY <1>5, <1>13, <3>3, <3>5 DEF hh
  <2> QED BY <2>1, <2>2, <2>3
<1> DEFINE S == h * h  M == 2 * S - 1
<1>20. S \in Nat /\ S >= 2 * h /\ MAX_32 = M
  BY <1>5
<1> HIDE DEF S, h, P
<1>21. CASE P <= S - h
  <2>1. m0 = 2 * P
    BY <1>5, <1>12, <1>13, <1>19, <1>20, <1>21 DEF Clamped, S
  <2>2. m1 = 2 * P + 2 * p
    <3>1. m1 = Clamped(2 * P + 2 * p, MAX_32)
      BY <1>16, <2>1
    <3> HIDE DEF m1
    <3>2. -2 * S <= 2 * P + 2 * p /\ 2 * P + 2 * p <= 2 * S - 1 /\ 2 * P + 2 * p \in Int
      BY <1>5, <1>8, <1>13, <1>19, <1>20, <1>21 DEF S
    <3> QED BY <1>20, <3>1, <3>2 DEF Clamped
  <2>3. m2 = Clamped(t, MAX_32)
    BY <1>18, <2>2
  <2> HIDE DEF m2, t
  <2>4. Clamped(z, MAX_32) - Clamped(t, MAX_32) \in -2..7
    <3>1. MAX_32 \in Nat
      BY <1>5, <1>20
    <3> QED BY <1>10, <3>1, ClampedNear
  <2> QED BY <1>4, <1>11, <2>3, <2>4
<1>22. CASE A = -h /\ B = -h /\ P = S
  <2>1. p = -l /\ q = -k
    BY <1>8, <1>9, <1>22
  <2>2. m0 = 2 * S - 1
    BY <1>5, <1>12, <1>13, <1>20, <1>22 DEF Clamped
  <2>3. m1 = 2 * S - 1 - 2 * l
    <3>1. m1 = Clamped(2 * S - 1 + 2 * (-l), MAX_32)
      BY <1>16, <2>1, <2>2
    <3> HIDE DEF m1
    <3> QED BY <1>5, <1>7, <1>20, <3>1 DEF Clamped
  <2>4. m2 = 2 * S - 1 - 2 * l - 2 * k
    <3>1. m2 = Clamped(2 * S - 1 - 2 * l + 2 * (-k), MAX_32)
      BY <1>18, <2>1, <2>3
    <3> HIDE DEF m2
    <3> QED BY <1>5, <1>7, <1>20, <3>1 DEF Clamped
  <2>5. t = 2 * S - 2 * l - 2 * k
    BY <1>7, <1>20, <1>22, <2>1
  <2> HIDE DEF m2, t
  <2>6. Clamped(z, MAX_32) - m2 \in -2..7
    BY <1>5, <1>7, <1>10, <1>20, <1>22, <2>4, <2>5 DEF Clamped
  <2> QED BY <1>4, <1>11, <2>6
<1> QED BY <1>19, <1>21, <1>22 DEF S

(* mul_32by16: by a word other than the least, nothing overflows. *)
LEMMA ProductByWord ==
    ASSUME NEW a \in Long, NEW n \in Word, n # MIN_16
    PROVE  Right(a * n, Width - 1) - mul_32by16(int32_to_dpf(a), n) \in -1..2
<1> DEFINE h == Half  A == int32_to_dpf(a).hi  l == int32_to_dpf(a).lo  u == (n * l) \div h  f == (n * l) % h
           P == A * n  y == P + u  x == a * n
<1>1. A \in Word /\ l \in 0..(h - 1)
  BY HalvesOf
<1>2. PICK e \in 0..1 : a = 2 * h * A + 2 * l + e
  BY HalvesOf
<1>3. /\ h \in Nat /\ h >= 2 /\ Square = h * h /\ Square \in Nat /\ MIN_16 = -h /\ 2^(Width - 1) = h
  BY Powers, Limits
<1>4. mul_32by16(int32_to_dpf(a), n) = Left(A * n + Right(l * n, Width - 1), 1)
  BY Zenon DEF mul_32by16
<1> HIDE DEF A, l
<1>5. A \in Int /\ -h <= A /\ A <= h - 1 /\ n \in Int /\ 1 - h <= n /\ n <= h - 1 /\ l \in Nat /\ l < h
  BY <1>1, <1>3, Limits
<1>6. u \in Int /\ f \in Int /\ 0 <= f /\ f < h /\ n * l = h * u + f /\ 1 - h <= u /\ u <= h - 1
  BY <1>1, PartProduct
<1>7. Right(l * n, Width - 1) = u
  <2>1. l * n = n * l
    BY <1>5
  <2> QED BY <1>3, <2>1 DEF Right
<1> HIDE DEF u, f
<1>8. P \in Int /\ h - h * h <= P /\ P <= h * h - h
  <2>1. CASE n >= 0
    <3>1. h * n \in Nat /\ -(h * n) <= P /\ P <= h * n - n
      <4>1. n \in Nat
        BY <1>5, <2>1
      <4> HIDE DEF h
      <4> QED BY <1>3, <1>5, <4>1, ProductBounds
    <3>2. h * (h - 1 - n) >= 0 /\ h * (h - 1 - n) = h * h - h - h * n /\ h * h \in Nat /\ P \in Int
      <4> HIDE DEF h
      <4> QED BY <1>3, <1>5
    <3> DEFINE v == h * n  w == h * h
    <3> HIDE DEF v, w, P, h
    <3>3. v \in Nat /\ -v <= P /\ P <= v - n /\ w - h - v >= 0 /\ w \in Nat
      BY <3>1, <3>2 DEF v, w
    <3>4. h - w <= P /\ P <= w - h
      BY <1>3, <1>5, <2>1, <3>2, <3>3
    <3> QED BY <3>2, <3>4 DEF w
  <2>2. CASE n < 0
    <3> DEFINE m == -n
    <3>1. m \in Nat /\ P = -(A * m) /\ m <= h - 1
      BY <1>3, <1>5, <2>2
    <3> HIDE DEF m, P, h
    <3>2. h * m \in Nat /\ A * m \in Int /\ -(h * m) <= A * m /\ A * m <= h * m - m
      BY <1>3, <1>5, <3>1, ProductBounds
    <3>3. h * (h - 1 - m) >= 0 /\ h * (h - 1 - m) = h * h - h - h * m /\ h * h \in Nat
      BY <1>3, <3>1
    <3> DEFINE v == h * m  w == h * h  z == A * m
    <3> HIDE DEF v, w, z
    <3>4. v \in Nat /\ z \in Int /\ -v <= z /\ z <= v - m /\ w - h - v >= 0 /\ w \in Nat /\ P = -z
      BY <3>1, <3>2, <3>3 DEF v, w, z
    <3>5. h - w <= P /\ P <= w - h /\ P \in Int
      BY <1>3, <3>1, <3>4
    <3> QED BY <3>5 DEF w
  <2> QED BY <1>5, <2>1, <2>2
<1>9. Left(y, 1) = 2 * y /\ y \in Int
  <2>1. 2^(0 + 1) = 2 * 2^0 /\ 2^0 = 1
    BY PowerDoubles
  <2>2. 2^1 = 2
    BY <2>1
  <2>3. y \in Int /\ -(2 * Square) <= y * 2 /\ y * 2 < 2 * Square /\ y * 2 = 2 * y
    <3> DEFINE w == h * h
    <3>1. h - w <= P /\ P <= w - h /\ Square = w
      BY <1>3, <1>8
    <3> HIDE DEF w, P, h
    <3> QED BY <1>3, <1>6, <1>8, <3>1
  <2> HIDE DEF y
  <2>4. y * 2 \in Int
    BY <2>3
  <2>5. Int32(y * 2) = y * 2
    BY <2>3, <2>4, WordsKept
  <2> QED BY <2>2, <2>3, <2>5 DEF Left
<1> DEFINE r == 2 * f + e * n
<1>10. x = h * (2 * y) + r /\ x \in Int
  <2>1. x = 2 * (h * P) + 2 * (n * l) + e * n
    <3> HIDE DEF h
    <3> QED BY <1>2, <1>3, <1>5
  <2>2. h * (2 * y) = 2 * (h * P) + 2 * (h * u) /\ h * P \in Int /\ h * u \in Int /\ e * n \in Int
    <3> HIDE DEF h, P
    <3> QED BY <1>3, <1>5, <1>6, <1>8
  <2> DEFINE w1 == h * P  w2 == h * u  w3 == e * n  w4 == h * (2 * y)
  <2>3. x = 2 * w1 + 2 * (w2 + f) + w3
    BY <1>6, <2>1, Zenon
  <2>4. w4 = 2 * w1 + 2 * w2 /\ w1 \in Int /\ w2 \in Int /\ w3 \in Int
    BY <2>2
  <2> HIDE DEF w1, w2, w3, w4, x
  <2>5. x = w4 + (2 * f + w3) /\ x \in Int
    BY <1>6, <2>3, <2>4
  <2> QED BY <2>5 DEF w4, w3
<1>11. r \in Int /\ -h <= r /\ r < 3 * h
  <2>1. e * n = 0 \/ e * n = n
    <3>1. e = 0 \/ e = 1
      OBVIOUS
    <3> QED BY <1>5, <3>1
  <2> DEFINE w == e * n
  <2> HIDE DEF w, h
  <2>2. w = 0 \/ w = n
    BY <2>1 DEF w
  <2>3. 2 * f + w \in Int /\ -h <= 2 * f + w /\ 2 * f + w < 3 * h
    BY <1>3, <1>5, <1>6, <2>2
  <2> QED BY <2>3 DEF w
<1> DEFINE z == x \div h
<1>12. Right(a * n, Width - 1) = z
  BY <1>3 DEF Right
<1> HIDE DEF h, x, r, y
<1>13. z \in Int /\ \A c \in Int : (z >= c <=> x >= h * c) /\ (z < c <=> x < h * c)
  BY <1>3, <1>10, QuotientBounds, Divided
<1> HIDE DEF z
<1>14. z >= 2 * y - 1
  <2>1. h * (2 * y - 1) = h * (2 * y) - h /\ h * (2 * y) \in Int
    BY <1>3, <1>9
  <2> DEFINE w == h * (2 * y)
  <2> HIDE DEF w
  <2>2. x = w + r /\ h * (2 * y - 1) = w - h /\ w \in Int
    BY <1>10, <2>1 DEF w
  <2>3. x >= h * (2 * y - 1)
    BY <1>3, <1>10, <1>11, <2>2
  <2>4. 2 * y - 1 \in Int
    BY <1>9
  <2> QED BY <1>13, <2>3, <2>4
<1>15. z < 2 * y + 3
  <2>1. h * (2 * y + 3) = h * (2 * y) + 3 * h /\ h * (2 * y) \in Int
    BY <1>3, <1>9
  <2> DEFINE w == h * (2 * y)
  <2> HIDE DEF w
  <2>2. x = w + r /\ h * (2 * y + 3) = w + 3 * h /\ w \in Int
    BY <1>10, <2>1 DEF w
  <2>3. x < h * (2 * y + 3)
    BY <1>3, <1>10, <1>11, <2>2
  <2>4. 2 * y + 3 \in Int
    BY <1>9
  <2> QED BY <1>13, <2>3, <2>4
<1>16. mul_32by16(int32_to_dpf(a), n) = 2 * y
  BY <1>4, <1>7, <1>9 DEF y
<1> QED BY <1>9, <1>12, <1>13, <1>14, <1>15, <1>16

(* The products of HalvesMultiply, for all operands. *)
LEMMA HalvesAre == ArithmeticInv => HalvesMultiply
<1> SUFFICES ASSUME ArithmeticInv PROVE HalvesMultiply
  OBVIOUS
<1>1. var2 \in Word /\ L_var1 \in Long /\ L_var2 \in Long
  BY SideBySide DEF ArithmeticInv, L_var2
<1> DEFINE A == int32_to_dpf(L_var1).hi  l == int32_to_dpf(L_var1).lo
<1>2. L_var1 - (A * 2^Width + 2 * l) \in 0..1
  <2>1. A \in Word /\ l \in 0..(Half - 1)
    BY <1>1, HalvesOf
  <2>2. PICK e \in 0..1 : L_var1 = 2 * Half * A + 2 * l + e
    BY <1>1, HalvesOf
  <2>3. 2^Width = 2 * Half /\ Half \in Nat /\ A \in Int
    BY <2>1, Powers, Limits
  <2> DEFINE h == Half
  <2> HIDE DEF A, l, h
  <2>4. A * (2 * h) = 2 * h * A /\ 2 * h * A \in Int
    BY <2>3 DEF h
  <2> DEFINE w == 2 * h * A
  <2> HIDE DEF w
  <2>5. w \in Int /\ A * 2^Width = w /\ L_var1 = w + 2 * l + e /\ l \in Int
    BY <2>1, <2>2, <2>3, <2>4 DEF h, w
  <2> QED BY <2>5
<1>3. Clamped(Right(L_var1 * L_var2, 2 * Width - 1), MAX_32) - mpy_dpf_32(int32_to_dpf(L_var1), int32_to_dpf(L_var2))
          \in -2..7
  BY <1>1, ProductOfLongs
<1>4. var2 # MIN_16 => Right(L_var1 * var2, Width - 1) - mul_32by16(int32_to_dpf(L_var1), var2) \in -1..2
  BY <1>1, ProductByWord
<1> QED BY <1>2, <1>3, <1>4, Zenon DEF HalvesMultiply

(* The numbers in double precision of pvamrwb_math_op differ from exact    *)
(* ones by so much as HalvesMultiply says, and by no more, for words of    *)
(* every width.                                                            *)
THEOREM HalvesAlwaysMultiply == ArithmeticSpec => []HalvesMultiply
BY OperandsAreWords, HalvesAre, PTL

-----------------------------------------------------------------------------
(* Types. *)

(* What is kept of a number is a word. *)
LEMMA WrapTypes ==
    ASSUME NEW x \in Int
    PROVE  Int16(x) \in Word /\ Int32(x) \in Int
<1>1. Half \in Nat /\ Half >= 2 /\ 2^(Width - 1) = Half /\ 2^Width = 2 * Half
  BY Powers
<1>2. 2^(2 * Width - 1) = 2 * Square /\ 2^(2 * Width) = 4 * Square /\ Square \in Nat /\ Square >= 4
  BY Powers, Limits DEF Square
<1> DEFINE r == (x + Half) % (2 * Half)  s == (x + 2 * Square) % (4 * Square)
<1>3. r \in Int /\ 0 <= r /\ r < 2 * Half
  <2> DEFINE y == x + Half  n == 2 * Half
  <2>1. y \in Int /\ n \in Nat /\ n > 0
    BY <1>1
  <2> HIDE DEF y, n
  <2>2. y % n \in Int /\ 0 <= y % n /\ y % n < n
    BY <2>1, Divided
  <2> QED BY <2>2 DEF y, n
<1>4. s \in Int
  <2> DEFINE y == x + 2 * Square  n == 4 * Square
  <2>1. y \in Int /\ n \in Nat /\ n > 0
    BY <1>2
  <2> HIDE DEF y, n
  <2>2. y % n \in Int
    BY <2>1, Divided
  <2> QED BY <2>2 DEF y, n
<1>5. Int16(x) = r - Half /\ Int32(x) = s - 2 * Square
  BY <1>1, <1>2, Zenon DEF Int16, Int32, Wrap
<1> HIDE DEF r, s
<1>6. r - Half \in Word
  BY <1>1, <1>3, Limits
<1> QED BY <1>2, <1>4, <1>5, <1>6

(* A shift to the right keeps a word one. *)
LEMMA RightTypes ==
    ASSUME NEW x \in Int, NEW n \in Nat
    PROVE  Right(x, n) \in Int /\ (x \in Word => Right(x, n) \in Word)
<1> DEFINE p == 2^n  q == x \div p  h == Half
<1>1. p \in Nat /\ p >= 1
  BY PowersArePositive
<1>2. h \in Nat /\ \A y : y \in Word <=> y \in Int /\ -h <= y /\ y <= h - 1
  BY Powers, Limits
<1>3. Right(x, n) = q
  BY DEF Right
<1> HIDE DEF p, h
<1>4. q \in Int /\ \A c \in Int : (q >= c <=> x >= p * c) /\ (q < c <=> x < p * c)
  BY <1>1, QuotientBounds, Divided
<1>5. ASSUME x \in Word PROVE q \in Word
  <2>1. -h <= x /\ x < h
    BY <1>2, <1>5
  <2>2. p * h >= h /\ p * (-h) <= -h /\ p * h \in Int /\ -h \in Int
    <3>1. (p - 1) * h >= 0 /\ (p - 1) * h = p * h - h /\ p * (-h) = -(p * h) /\ p * h \in Int
      BY <1>1, <1>2
    <3> QED BY <1>2, <3>1
  <2>3. p * (-h) \in Int
    BY <1>1, <1>2
  <2>4. x < p * h /\ x >= p * (-h)
    BY <1>2, <2>1, <2>2, <2>3
  <2>5. q < h /\ q >= -h
    BY <1>2, <1>4, <2>2, <2>4
  <2> QED BY <1>2, <1>4, <2>5
<1> QED BY <1>3, <1>4, <1>5

(* amr_wb_round gives a word. *)
LEMMA RoundTypes ==
    ASSUME NEW a \in Int
    PROVE  amr_wb_round(a) \in Word
<1>1. Width \in Nat /\ 2^(Width - 1) \in Int
  BY Powers, ArithmeticAssumption DEF ArithmeticAssumption
<1> DEFINE x == IF a # MAX_32 THEN Int32(a + 2^(Width - 1)) ELSE a
<1>2. x \in Int
  <2>1. Int32(a + 2^(Width - 1)) \in Int
    BY <1>1, WrapTypes
  <2> QED BY <2>1
<1> HIDE DEF x
<1>3. Right(x, Width) \in Int
  BY <1>1, <1>2, RightTypes
<1>4. Int16(Right(x, Width)) \in Word
  BY <1>3, WrapTypes
<1> QED BY <1>4 DEF amr_wb_round, x

(* scale_signal gives a word, by any amount. *)
LEMMA ScaledIsWord ==
    ASSUME NEW x \in Word, NEW exp \in Word
    PROVE  scale_signal(x, exp) \in Word
<1>1. x \in Int /\ exp \in Int
  BY Limits
<1>2. Width \in Nat /\ Width >= 2 /\ 2^Width \in Int /\ MAX_32 \in Int
  BY Powers, Limits, ArithmeticAssumption DEF ArithmeticAssumption
<1>3. CASE exp > 0
  <2> DEFINE y == x * 2^Width  s == shl_int32(y, exp)
  <2>1. y \in Int
    BY <1>1, <1>2
  <2> HIDE DEF y
  <2>2. Left(y, exp) \in Int
    <3> DEFINE p == 2^exp
    <3>1. p \in Int
      BY <1>1, <1>3, PowersArePositive
    <3> HIDE DEF p
    <3>2. y * p \in Int
      BY <2>1, <3>1
    <3> QED BY <3>2, WrapTypes DEF Left, p
  <2>3. Extreme(y, MAX_32) \in Int
    BY <1>2 DEF Extreme
  <2>4. s \in {Extreme(y, MAX_32), Left(y, exp)}
    <3>1. ~ (exp <= 0)
      BY <1>1, <1>3
    <3> QED BY <3>1, Zenon DEF shl_int32
  <2>5. s \in Int
    BY <2>2, <2>3, <2>4
  <2>6. amr_wb_round(s) \in Word
    BY <2>5, RoundTypes
  <2> QED BY <1>3, <2>6 DEF scale_signal, y
<1>4. CASE exp < 0
  <2> DEFINE n == (-exp) % Width  y == add_int16(x, Right(2^(Width - 1), Width - n))
  <2>1. n \in Nat /\ Width - n \in Nat
    BY <1>1, <1>2
  <2> HIDE DEF n
  <2>2. y \in Word
    <3> DEFINE r == Right(2^(Width - 1), Width - n)
    <3>1. r \in Int
      BY <2>1, Powers, RightTypes
    <3> HIDE DEF r
    <3>2. x + r \in Int
      BY <1>1, <3>1
    <3> DEFINE z == x + r
    <3> HIDE DEF z
    <3>3. Saturated(z) = Clamped(z, MAX_16) /\ z \in Int
      BY <3>2, SaturatedIs DEF z
    <3>4. Clamped(z, MAX_16) \in Word
      <4>1. Half \in Nat /\ Half >= 2 /\ MAX_16 = Half - 1 /\ \A c : c \in Word <=> c \in Int /\ -Half <= c /\ c <= Half - 1
        BY Powers, Limits
      <4>2. Clamped(z, MAX_16) \in Int /\ -Half <= Clamped(z, MAX_16) /\ Clamped(z, MAX_16) <= Half - 1
        BY <3>3, <4>1 DEF Clamped
      <4> DEFINE c == Clamped(z, MAX_16)
      <4> HIDE DEF c
      <4>3. c \in Word
        BY <4>1, <4>2 DEF c
      <4> QED BY <4>3 DEF c
    <3> QED BY <3>3, <3>4 DEF add_int16, r, z
  <2> HIDE DEF y
  <2>3. Right(y, n) \in Word
    <3>1. y \in Int
      BY <2>2, Limits
    <3> QED BY <2>1, <2>2, <3>1, RightTypes
  <2>4. ~ (exp > 0)
    BY <1>1, <1>4
  <2>5. scale_signal(x, exp) = Right(y, n)
    BY <1>4, <2>4, Zenon DEF scale_signal, y, n
  <2> QED BY <2>3, <2>5
<1>5. CASE exp = 0
  <2>1. ~ (exp > 0) /\ ~ (exp < 0)
    BY <1>5
  <2> QED BY <2>1, Zenon DEF scale_signal
<1> QED BY <1>1, <1>3, <1>4, <1>5

(* Operands, scaled samples and halves keep to their types. *)
THEOREM ArithmeticTypes == ArithmeticSpec => []ArithmeticTypeOK
<1>1. ArithmeticInv => ArithmeticTypeOK
  <2> SUFFICES ASSUME ArithmeticInv PROVE ArithmeticTypeOK
    OBVIOUS
  <2>1. var1 \in Word /\ var2 \in Word /\ L_var1 \in Long
    BY DEF ArithmeticInv
  <2>2. scale_signal(var1, var2) \in Word
    BY <2>1, ScaledIsWord
  <2>3. int32_to_dpf(L_var1).hi \in Word /\ int32_to_dpf(L_var1).lo \in 0..MAX_16
    BY <2>1, HalvesOf, Limits
  <2> QED BY <2>1, <2>2, <2>3 DEF ArithmeticTypeOK
<1> QED BY <1>1, OperandsAreWords, PTL

-----------------------------------------------------------------------------
(* Division and normalisation.                                             *)

(* Three bits of a quotient: with the bits before them they are that of    *)
(* eight times the dividend.                                               *)
LEMMA DigitIs ==
    ASSUME NEW v \in Nat, NEW d, d.out \in Nat, d.rest \in 0..(v - 1)
    PROVE  LET e == OctalDigit(d, v)
           IN  e.out \in Nat /\ e.rest \in 0..(v - 1) /\ v * e.out + e.rest = 8 * (v * d.out + d.rest)
<1> DEFINE r == d.rest  o == d.out
           fours == IF 8 * r >= 4 * v THEN 4 ELSE 0
           twos  == IF 8 * r - fours * v >= 2 * v THEN 2 ELSE 0
           ones  == IF 8 * r - (fours + twos) * v >= v THEN 1 ELSE 0
           digit == fours + twos + ones
<1>1. OctalDigit(d, v) = [out |-> 8 * o + digit, rest |-> 8 * r - digit * v]
  BY DEF OctalDigit
<1>2. r \in Nat /\ r < v /\ o \in Nat
  OBVIOUS
<1> HIDE DEF r, o
<1>3. digit \in 0..7 /\ 0 <= 8 * r - digit * v /\ 8 * r - digit * v < v
  <2>1. fours \in {0, 4} /\ 0 <= 8 * r - fours * v /\ 8 * r - fours * v < 4 * v
    BY <1>2
  <2> HIDE DEF fours
  <2>2. /\ twos \in {0, 2} /\ 0 <= 8 * r - (fours + twos) * v /\ 8 * r - (fours + twos) * v < 2 * v
    BY <1>2, <2>1
  <2> HIDE DEF twos
  <2>3. ones \in {0, 1} /\ 0 <= 8 * r - digit * v /\ 8 * r - digit * v < v
    BY <1>2, <2>1, <2>2
  <2> QED BY <2>1, <2>2, <2>3
<1> HIDE DEF digit
<1>4. v * (8 * o + digit) + (8 * r - digit * v) = 8 * (v * o + r)
  <2>1. v * (8 * o + digit) = 8 * (v * o) + digit * v
    BY <1>2, <1>3
  <2>2. v * o \in Int /\ digit * v \in Int
    BY <1>2, <1>3
  <2> QED BY <1>2, <2>1, <2>2
<1>5. 8 * o + digit \in Nat /\ 8 * r - digit * v \in 0..(v - 1)
  BY <1>2, <1>3
<1> QED BY <1>1, <1>4, <1>5 DEF r, o

(* Five digits give fifteen bits. *)
LEMMA DivisionIs ==
    ASSUME NEW a \in Nat, NEW v \in Nat, 0 < a, a < v
    PROVE  div_16by16(a, v) = (a * 32768) \div v
<1> DEFINE Step(f, n) == IF n = 0 THEN [out |-> 0, rest |-> a] ELSE OctalDigit(f[n - 1], v)
           digits == CHOOSE f : f = [n \in 0..5 |-> Step(f, n)]
           d0 == [out |-> 0, rest |-> a]
           d1 == OctalDigit(d0, v)
           d2 == OctalDigit(d1, v)
           d3 == OctalDigit(d2, v)
           d4 == OctalDigit(d3, v)
           d5 == OctalDigit(d4, v)
           g == [n \in 0..5 |-> IF n = 0 THEN d0 ELSE IF n = 1 THEN d1 ELSE IF n = 2 THEN d2
                                ELSE IF n = 3 THEN d3 ELSE IF n = 4 THEN d4 ELSE d5]
<1>1. div_16by16(a, v) = digits[5].out
  <2>1. ~ (a > v \/ a <= 0) /\ a # v
    OBVIOUS
  <2> HIDE DEF d0, d1, d2, d3, d4, d5, g
  <2> QED BY <2>1 DEF div_16by16
<1>2. digits = [n \in 0..5 |-> Step(digits, n)]
  <2>1. \A n \in 0..5 : g[n] = Step(g, n)
    <3>1. g[0] = d0 /\ g[1] = d1 /\ g[2] = d2 /\ g[3] = d3 /\ g[4] = d4 /\ g[5] = d5
      <4> HIDE DEF d0, d1, d2, d3, d4, d5
      <4> QED OBVIOUS
    <3> HIDE DEF g
    <3>2. \A n \in 1..5 : Step(g, n) = OctalDigit(g[n - 1], v)
      BY DEF Step
    <3>3. /\ OctalDigit(g[0], v) = d1 /\ OctalDigit(g[1], v) = d2 /\ OctalDigit(g[2], v) = d3
          /\ OctalDigit(g[3], v) = d4 /\ OctalDigit(g[4], v) = d5
      BY <3>1, Zenon
    <3>4. Step(g, 0) = d0
      BY DEF Step
    <3> HIDE DEF Step, d0, d1, d2, d3, d4, d5
    <3>5. \A n \in 0..5 : n = 0 \/ n = 1 \/ n = 2 \/ n = 3 \/ n = 4 \/ n = 5
      OBVIOUS
    <3>6. 1 \in 1..5 /\ 2 \in 1..5 /\ 3 \in 1..5 /\ 4 \in 1..5 /\ 5 \in 1..5
          /\ 1 - 1 = 0 /\ 2 - 1 = 1 /\ 3 - 1 = 2 /\ 4 - 1 = 3 /\ 5 - 1 = 4
      OBVIOUS
    <3>7. /\ Step(g, 1) = d1 /\ Step(g, 2) = d2 /\ Step(g, 3) = d3 /\ Step(g, 4) = d4 /\ Step(g, 5) = d5
      BY <3>2, <3>3, <3>6
    <3> QED BY <3>1, <3>4, <3>5, <3>7
  <2> HIDE DEF Step
  <2>2. g = [n \in 0..5 |-> Step(g, n)]
    <3>1. g = [n \in 0..5 |-> g[n]]
      BY Zenon
    <3> HIDE DEF g
    <3> QED BY <2>1, <3>1
  <2> HIDE DEF g
  <2> QED BY <2>2
<1> HIDE DEF digits
<1>3. \A n \in 0..5 : digits[n] = Step(digits, n)
  <2> HIDE DEF Step
  <2> QED BY <1>2
<1>4. digits[0] = d0
  BY <1>3
<1>5. \A n \in 0..4 : digits[n + 1] = OctalDigit(digits[n], v)
  <2> SUFFICES ASSUME NEW n \in 0..4 PROVE digits[n + 1] = OctalDigit(digits[n], v)
    OBVIOUS
  <2>1. n + 1 \in 0..5 /\ n + 1 # 0 /\ (n + 1) - 1 = n
    OBVIOUS
  <2>2. digits[n + 1] = Step(digits, n + 1)
    BY <1>3, <2>1
  <2> QED BY <2>1, <2>2, Zenon
<1> DEFINE Value(n) == v * digits[n].out + digits[n].rest
           RestFits(n) == digits[n].out \in Nat /\ digits[n].rest \in 0..(v - 1)
<1>6. RestFits(0) /\ Value(0) = a
  BY <1>4
<1>7. ASSUME NEW n \in 0..4, RestFits(n) PROVE RestFits(n + 1) /\ Value(n + 1) = 8 * Value(n)
  BY <1>5, <1>7, DigitIs
<1> HIDE DEF RestFits
<1>8. /\ RestFits(1) /\ Value(1) = 8 * Value(0) /\ RestFits(2) /\ Value(2) = 8 * Value(1)
      /\ RestFits(3) /\ Value(3) = 8 * Value(2) /\ RestFits(4) /\ Value(4) = 8 * Value(3)
      /\ RestFits(5) /\ Value(5) = 8 * Value(4)
  <2> HIDE DEF Value
  <2>1. 0 \in 0..4 /\ 1 \in 0..4 /\ 2 \in 0..4 /\ 3 \in 0..4 /\ 4 \in 0..4
        /\ 0 + 1 = 1 /\ 1 + 1 = 2 /\ 2 + 1 = 3 /\ 3 + 1 = 4 /\ 4 + 1 = 5
    OBVIOUS
  <2>2. RestFits(1) /\ Value(1) = 8 * Value(0)
    BY <1>6, <1>7, <2>1
  <2>3. RestFits(2) /\ Value(2) = 8 * Value(1)
    BY <1>7, <2>1, <2>2
  <2>4. RestFits(3) /\ Value(3) = 8 * Value(2)
    BY <1>7, <2>1, <2>3
  <2>5. RestFits(4) /\ Value(4) = 8 * Value(3)
    BY <1>7, <2>1, <2>4
  <2>6. RestFits(5) /\ Value(5) = 8 * Value(4)
    BY <1>7, <2>1, <2>5
  <2> QED BY <2>2, <2>3, <2>4, <2>5, <2>6
<1>9. Value(5) = a * 32768
  <2> HIDE DEF Value
  <2> QED BY <1>6, <1>8
<1>10. (a * 32768) \div v = digits[5].out
  <2> DEFINE x == a * 32768  q == digits[5].out  r == digits[5].rest
  <2>1. q \in Nat /\ r \in Nat /\ r < v
    BY <1>8 DEF RestFits
  <2>2. x = v * q + r
    BY <1>9
  <2>3. x \in Int /\ v > 0
    OBVIOUS
  <2> HIDE DEF x, q, r
  <2>4. q \in Int /\ r \in Int /\ 0 <= r
    BY <2>1
  <2>5. x \div v = q
    BY <2>1, <2>2, <2>3, <2>4, QuotientIs
  <2> QED BY <2>5 DEF x, q
<1> QED BY <1>1, <1>10

(* Which includes the cases without a fraction.                            *)
LEMMA DivisionsExact ==
    ASSUME num \in Nat, den \in Nat
    PROVE  DivisionsAreExact
<1>1. CASE num > den
  <2>1. div_16by16(num, den) = 0
    BY <1>1 DEF div_16by16
  <2> QED BY <1>1, <2>1 DEF DivisionsAreExact
<1>2. CASE num = 0
  <2>1. div_16by16(num, den) = 0
    BY <1>2 DEF div_16by16
  <2>2. num < den => (num * 32768) \div den = 0
    BY <1>2
  <2> QED BY <1>2, <2>1, <2>2 DEF DivisionsAreExact
<1>3. CASE num = den /\ num # 0
  <2>1. div_16by16(num, den) = 32767
    BY <1>3 DEF div_16by16
  <2> QED BY <1>3, <2>1 DEF DivisionsAreExact
<1>4. CASE 0 < num /\ num < den
  BY <1>4, DivisionIs DEF DivisionsAreExact
<1> QED BY <1>1, <1>2, <1>3, <1>4

(* Hexadecimal digits. *)
LEMMA Digits ==
    /\ 16^1 = 16 /\ 16^2 = 256 /\ 16^3 = 4096 /\ 16^4 = 65536
    /\ 16^5 = 1048576 /\ 16^6 = 16777216 /\ 16^7 = 268435456
OBVIOUS

(* Powers of two at the places of digits.                                  *)
LEMMA SomePowers ==
    /\ 2^0 = 1 /\ 2^1 = 2 /\ 2^2 = 4 /\ 2^3 = 8 /\ 2^7 = 128 /\ 2^11 = 2048 /\ 2^15 = 32768 /\ 2^19 = 524288
    /\ 2^23 = 8388608 /\ 2^27 = 134217728 /\ 2^30 = 1073741824
OBVIOUS

(* How many of seven numbers of digits are more than a number needs. *)
LEMMA DigitsLeft ==
    ASSUME NEW x, NEW j \in 1..8, \A d \in 1..7 : x < 16^d <=> j <= d
    PROVE  Cardinality({digits \in 1..7 : x < 16^digits}) = 8 - j
<1>1. {digits \in 1..7 : x < 16^digits} = j..7
  <2>1. {digits \in 1..7 : x < 16^digits} = {digits \in 1..7 : j <= digits}
    BY Zenon
  <2>2. {digits \in 1..7 : j <= digits} = j..7
    OBVIOUS
  <2> QED BY <2>1, <2>2, Zenon
<1>2. Cardinality(j..7) = 8 - j
  <2>1. j \in Int /\ 7 \in Int /\ (j > 7 => 8 - j = 0) /\ (7 - j) + 1 = 8 - j
    OBVIOUS
  <2>2. Cardinality(j..7) = IF j > 7 THEN 0 ELSE (7 - j) + 1
    BY <2>1, FS_Interval
  <2> QED BY <2>1, <2>2
<1> QED BY <1>1, <1>2, Zenon

(* Shifted by a multiple of four places, a number has its first bit among  *)
(* the highest four.                                                       *)
LEMMA CoarseIs ==
    ASSUME NEW x \in Nat, x > 0
    PROVE  LET zeros  == Cardinality({digits \in 1..7 : x < 16^digits})
               coarse == IF zeros = 0 THEN 0 ELSE 4 * zeros - 1
           IN  coarse \in Nat /\ x * 2^coarse \in Nat /\ x * 2^coarse >= 134217728
<1> DEFINE zeros  == Cardinality({digits \in 1..7 : x < 16^digits})
           coarse == IF zeros = 0 THEN 0 ELSE 4 * zeros - 1
           Needs(j) == \A d \in 1..7 : x < 16^d <=> j <= d
<1>1. ASSUME NEW j \in 1..8, Needs(j) PROVE zeros = 8 - j
  BY <1>1, DigitsLeft
<1>2. \/ x < 16 /\ Needs(1)
      \/ x >= 16 /\ x < 256 /\ Needs(2)
      \/ x >= 256 /\ x < 4096 /\ Needs(3)
      \/ x >= 4096 /\ x < 65536 /\ Needs(4)
      \/ x >= 65536 /\ x < 1048576 /\ Needs(5)
      \/ x >= 1048576 /\ x < 16777216 /\ Needs(6)
      \/ x >= 16777216 /\ x < 268435456 /\ Needs(7)
      \/ x >= 268435456 /\ Needs(8)
  <2>1. \A d \in 1..7 : d = 1 \/ d = 2 \/ d = 3 \/ d = 4 \/ d = 5 \/ d = 6 \/ d = 7
    OBVIOUS
  <2> QED BY <2>1, Digits
<1> HIDE DEF zeros, Needs
<1>3. \/ zeros = 7 /\ x >= 1
      \/ zeros = 6 /\ x >= 16
      \/ zeros = 5 /\ x >= 256
      \/ zeros = 4 /\ x >= 4096
      \/ zeros = 3 /\ x >= 65536
      \/ zeros = 2 /\ x >= 1048576
      \/ zeros = 1 /\ x >= 16777216
      \/ zeros = 0 /\ x >= 268435456
  BY <1>1, <1>2
<1>4. \/ coarse = 27 /\ x >= 1
      \/ coarse = 23 /\ x >= 16
      \/ coarse = 19 /\ x >= 256
      \/ coarse = 15 /\ x >= 4096
      \/ coarse = 11 /\ x >= 65536
      \/ coarse = 7 /\ x >= 1048576
      \/ coarse = 3 /\ x >= 16777216
      \/ coarse = 0 /\ x >= 268435456
  BY <1>3
<1> HIDE DEF coarse
<1> DEFINE P(n) == 2^n
<1>5. /\ P(0) = 1 /\ P(3) = 8 /\ P(7) = 128 /\ P(11) = 2048 /\ P(15) = 32768 /\ P(19) = 524288
      /\ P(23) = 8388608 /\ P(27) = 134217728
  BY SomePowers
<1> HIDE DEF P
<1>6. \/ P(coarse) = 134217728 /\ x >= 1
      \/ P(coarse) = 8388608 /\ x >= 16
      \/ P(coarse) = 524288 /\ x >= 256
      \/ P(coarse) = 32768 /\ x >= 4096
      \/ P(coarse) = 2048 /\ x >= 65536
      \/ P(coarse) = 128 /\ x >= 1048576
      \/ P(coarse) = 8 /\ x >= 16777216
      \/ P(coarse) = 1 /\ x >= 268435456
  BY <1>4, <1>5
<1> DEFINE p == P(coarse)
<1> HIDE DEF p
<1>7. p \in Nat /\ x * p \in Nat /\ x * p >= 134217728
  BY <1>6 DEF p
<1>8. x * 2^coarse \in Nat /\ x * 2^coarse >= 134217728
  BY <1>7 DEF p, P
<1>9. coarse \in Nat
  BY <1>4
<1> QED BY <1>8, <1>9 DEF coarse, zeros

(* The first bit of what is shifted is the highest.                        *)
LEMMA NormalizedIs == ASSUME L_x \in Nat PROVE NormalizedOnce
<1> SUFFICES ASSUME L_x > 0 PROVE L_x * 2^normalize_amr_wb(L_x) >= 2^30
  BY DEF NormalizedOnce
<1> DEFINE zeros  == Cardinality({digits \in 1..7 : L_x < 16^digits})
           coarse == IF zeros = 0 THEN 0 ELSE 4 * zeros - 1
           y == L_x * 2^coarse
           top == y \div 2^27
           fine == IF top = 1 THEN 3 ELSE IF top \in {2, 3} THEN 2 ELSE IF top \in 4..7 THEN 1 ELSE 0
<1>1. coarse \in Nat /\ y \in Nat /\ y >= 134217728
  BY CoarseIs
<1>2. normalize_amr_wb(L_x) = coarse + fine
  BY DEF normalize_amr_wb
<1>3. top = y \div 134217728
  BY SomePowers
<1>4. 2^coarse \in Nat
  BY <1>1, PowersArePositive
<1> HIDE DEF coarse, top, y
<1>5. fine \in 0..3 /\ (fine = 3 <=> top = 1) /\ (fine = 2 <=> top \in {2, 3}) /\ (fine = 1 <=> top \in 4..7)
  OBVIOUS
<1> HIDE DEF fine
<1>6. top \in Nat /\ top >= 1 /\ y >= 134217728 * top
  BY <1>1, <1>3
<1>7. y * 2^fine >= 1073741824
  <2>1. \/ fine = 3 /\ 2^fine = 8
        \/ fine = 2 /\ 2^fine = 4
        \/ fine = 1 /\ 2^fine = 2
        \/ fine = 0 /\ 2^fine = 1
    <3> DEFINE P(n) == 2^n
    <3>1. P(0) = 1 /\ P(1) = 2 /\ P(2) = 4 /\ P(3) = 8
      BY SomePowers
    <3> HIDE DEF P
    <3>2. \/ fine = 3 /\ P(fine) = 8
          \/ fine = 2 /\ P(fine) = 4
          \/ fine = 1 /\ P(fine) = 2
          \/ fine = 0 /\ P(fine) = 1
      BY <1>5, <3>1
    <3> QED BY <3>2 DEF P
  <2> QED BY <1>1, <1>5, <1>6, <2>1
<1>8. 2^(coarse + fine) = 2^coarse * 2^fine
  BY <1>1, <1>5, PowersAdd
<1>9. 2^fine \in Nat
  BY <1>5, PowersArePositive
<1>10. L_x * 2^(coarse + fine) = y * 2^fine
  BY <1>4, <1>8, <1>9 DEF y
<1> QED BY <1>2, <1>7, <1>10, SomePowers

(* A quotient is exact to its fifteenth bit, and a number is normalized by *)
(* one look at its hexadecimal digits and one at its first: div_16by16 and *)
(* normalize_amr_wb, for all numbers.                                      *)
THEOREM FunctionsExact == MathSpec => [](DivisionsAreExact /\ NormalizedOnce)
<1> DEFINE Operands == num \in Nat /\ den \in Nat /\ L_x \in Nat
<1>1. MathInit => Operands
  BY DEF MathInit, NoOperands
<1>2. Operands /\ [MathNext]_mathVars => Operands'
  BY MathAssumption DEF MathAssumption, MathNext, mathVars, ChooseFraction, ChooseNumber, ChooseLoudness
<1>3. Operands => DivisionsAreExact /\ NormalizedOnce
  BY DivisionsExact, NormalizedIs
<1> QED BY <1>1, <1>2, <1>3, PTL DEF MathSpec

-----------------------------------------------------------------------------
(* Comfort noise between two descriptions.                                 *)

(* Shares f and r of the whole k of two numbers lie between them.          *)
LEMMA SharesAre ==
    ASSUME NEW a \in Int, NEW b \in Int, NEW f \in Int, NEW r \in Int, NEW k \in Int, f >= 0, r >= 0, f + r = k
    PROVE  LET d == f * b + r * a
           IN  /\ d \in Int
               /\ a <= b => k * a <= d /\ d <= k * b
               /\ b <= a => k * b <= d /\ d <= k * a
               /\ f = 0 => d = k * a
               /\ d = k * b - r * (b - a)
<1> DEFINE c == b - a  d == f * b + r * a
<1>1. c \in Int /\ b = a + c
  OBVIOUS
<1>2. k * a = f * a + r * a /\ k * b = f * b + r * b
  OBVIOUS
<1>3. f * b = f * a + f * c /\ r * b = r * a + r * c
  <2> HIDE DEF c
  <2> QED BY <1>1
<1>4. f * a \in Int /\ r * a \in Int /\ f * b \in Int /\ r * b \in Int
  OBVIOUS
<1>5. f * c \in Int /\ r * c \in Int
  BY <1>1
<1>6. a <= b => f * c >= 0 /\ r * c >= 0
  <2> SUFFICES ASSUME a <= b PROVE f * c >= 0 /\ r * c >= 0
    OBVIOUS
  <2>1. c >= 0
    OBVIOUS
  <2> HIDE DEF c
  <2> QED BY <1>1, <2>1
<1>7. b <= a => f * c <= 0 /\ r * c <= 0
  <2> SUFFICES ASSUME b <= a PROVE f * c <= 0 /\ r * c <= 0
    OBVIOUS
  <2>1. c <= 0
    OBVIOUS
  <2> HIDE DEF c
  <2> QED BY <1>1, <2>1
<1>8. f = 0 => f * b = 0 /\ r = k
  OBVIOUS
<1> DEFINE fa == f * a  ra == r * a  fb == f * b  rb == r * b  fc == f * c  rc == r * c  ka == k * a  kb == k * b
<1>9. /\ fa \in Int /\ ra \in Int /\ fb \in Int /\ rb \in Int /\ fc \in Int /\ rc \in Int
      /\ ka = fa + ra /\ kb = fb + rb /\ fb = fa + fc /\ rb = ra + rc
      /\ a <= b => fc >= 0 /\ rc >= 0
      /\ b <= a => fc <= 0 /\ rc <= 0
      /\ f = 0 => fb = 0 /\ ra = ka
  BY <1>2, <1>3, <1>4, <1>5, <1>6, <1>7, <1>8
<1>10. d = fb + ra
  OBVIOUS
<1> HIDE DEF fa, ra, fb, rb, fc, rc, ka, kb, d
<1>11. /\ d \in Int
       /\ a <= b => ka <= d /\ d <= kb
       /\ b <= a => kb <= d /\ d <= ka
       /\ f = 0 => d = ka
       /\ d = kb - rc
  BY <1>9, <1>10
<1> QED BY <1>11 DEF d, ka, kb, rc, c

(* The sum of the quotients of two numbers is that of their sum, or less   *)
(* than two below it.                                                      *)
LEMMA SumOfQuotients ==
    ASSUME NEW p \in Int, NEW q \in Int, NEW n \in Nat, n > 0
    PROVE  LET s == (p \div n) + (q \div n)
           IN  s \in Int /\ n * s <= p + q /\ p + q <= n * s + (2 * n - 2)
<1> DEFINE x == p \div n  y == q \div n  i == p % n  j == q % n
<1>1. /\ x \in Int /\ i \in Int /\ 0 <= i /\ i < n /\ p = n * x + i
      /\ y \in Int /\ j \in Int /\ 0 <= j /\ j < n /\ q = n * y + j
  BY Divided
<1> HIDE DEF x, y, i, j
<1>2. n * (x + y) = n * x + n * y
  BY <1>1
<1>3. n * x \in Int /\ n * y \in Int
  BY <1>1
<1>4. x + y \in Int /\ n * (x + y) <= p + q /\ p + q <= n * (x + y) + (2 * n - 2)
  BY <1>1, <1>2, <1>3
<1> QED BY <1>4 DEF x, y

(* An ISF between two: within three of them, of one of them when nothing   *)
(* is taken of the other, and within 130 when nearly all is.               *)
IsBetween(a, b, fac, v) ==
    /\ v \in Int
    /\ a <= b => a - 3 <= v /\ v <= b
    /\ b <= a => b - 3 <= v /\ v <= a
    /\ fac = 0 => a - 3 <= v /\ v <= a
    /\ fac >= 16368 => b - 130 <= v /\ v <= b + 130

(* The mean of two ISFs with weights, cut twice to 16 bits, is such.       *)
LEMMA MixedIs ==
    ASSUME NEW a \in Int, NEW b \in Int, NEW fac \in Int, 0 <= fac, fac <= 16384,
           -26000 <= a, a <= 26000, -26000 <= b, b <= 26000
    PROVE  IsBetween(a, b, fac, Sat16(2 * Sat16(Mult(fac, b) + Mult(16384 - fac, a))))
<1> DEFINE r == 16384 - fac  p == fac * b  q == r * a  d == p + q  s == (p \div 32768) + (q \div 32768)
           e == r * (b - a)
<1>1. r \in Int /\ r >= 0 /\ fac + r = 16384
  OBVIOUS
<1>2. /\ d \in Int
      /\ a <= b => 16384 * a <= d /\ d <= 16384 * b
      /\ b <= a => 16384 * b <= d /\ d <= 16384 * a
      /\ fac = 0 => d = 16384 * a
      /\ d = 16384 * b - e
  <2> HIDE DEF r
  <2> QED BY <1>1, SharesAre
<1>3. p \in Int /\ q \in Int
  <2> HIDE DEF r
  <2> QED BY <1>1
<1>4. s \in Int /\ 32768 * s <= d /\ d <= 32768 * s + 65534
  <2>1. s \in Int /\ 32768 * s <= p + q /\ p + q <= 32768 * s + (2 * 32768 - 2)
    <3> HIDE DEF p, q
    <3> QED BY <1>3, SumOfQuotients
  <2> HIDE DEF p, q, s
  <2> QED BY <2>1, <1>3
<1>5. fac >= 16368 => -832000 <= e /\ e <= 832000
  <2> SUFFICES ASSUME fac >= 16368 PROVE -832000 <= e /\ e <= 832000
    OBVIOUS
  <2> DEFINE c == b - a
  <2>1. r >= 0 /\ r <= 16 /\ c \in Int /\ -52000 <= c /\ c <= 52000
    OBVIOUS
  <2>2. e = r * c
    OBVIOUS
  <2> HIDE DEF r, c, e
  <2>3. r = 0 \/ r = 1 \/ r = 2 \/ r = 3 \/ r = 4 \/ r = 5 \/ r = 6 \/ r = 7 \/ r = 8 \/ r = 9 \/ r = 10
        \/ r = 11 \/ r = 12 \/ r = 13 \/ r = 14 \/ r = 15 \/ r = 16
    BY <1>1, <2>1
  <2> QED BY <2>1, <2>2, <2>3
<1>6. Mult(fac, b) + Mult(16384 - fac, a) = s
  BY DEF Mult
<1> DEFINE v == Sat16(2 * Sat16(Mult(fac, b) + Mult(16384 - fac, a)))
<1>7. v = Sat16(2 * Sat16(s))
  BY <1>6
<1>8. e \in Int
  <2> HIDE DEF r
  <2> QED BY <1>1
<1> HIDE DEF s, d, v, e
<1>9. v = 2 * s
  <2>1. -16000 <= s /\ s <= 16000
    BY <1>2, <1>4
  <2> QED BY <1>4, <1>7, <2>1 DEF Sat16
<1>10. IsBetween(a, b, fac, v)
  BY <1>2, <1>4, <1>5, <1>8, <1>9 DEF IsBetween
<1> QED BY <1>10 DEF v

(* What the code calls int_fac is a share of 16384: nothing of the new     *)
(* description when it has just been received, and all but a thousandth    *)
(* once as many frames have passed as before it.                           *)
IsShare(fac, s, t) ==
    /\ fac \in Int /\ 0 <= fac /\ fac <= 16384
    /\ s = 0 => fac = 0
    /\ s >= t /\ s >= 2 => fac >= 16368

(* Its weights are shares, though the period is a quotient that is cut.    *)
LEMMA FactorIs ==
    ASSUME NEW s \in Int, NEW t \in Int, 0 <= s, s <= 33, 0 <= t, t <= 33
    PROVE  IsShare(int_fac(s, true_sid_period_inv(t)), s, t)
<1> DEFINE n == IF t > 32 THEN 32 ELSE t
           w == Sat16(n * 1024)  m == Sat16(s * 1024)  inv == true_sid_period_inv(t)
<1>1. n \in Int /\ 0 <= n /\ n <= 32 /\ n <= t
  OBVIOUS
<1>2. /\ m \in Int /\ 0 <= m /\ (s = 0 => m = 0) /\ (s >= 2 => m >= 2048)
      /\ w \in Int /\ 0 <= w /\ w <= 32767 /\ (n >= 2 => w >= 2048)
      /\ s >= t => m >= w
  <2> HIDE DEF n
  <2> QED BY <1>1 DEF Sat16
<1>3. inv = IF n >= 2 THEN div_16by16(1024, w) ELSE 16384
  BY DEF true_sid_period_inv
<1> HIDE DEF n, w, m, inv
<1>4. inv \in Int /\ inv >= 0
  <2>1. CASE n >= 2
    <3>1. inv = 33554432 \div w
      BY <1>2, <1>3, <2>1, DivisionIs
    <3> QED BY <1>2, <2>1, <3>1
  <2>2. CASE ~ (n >= 2)
    BY <1>3, <2>2
  <2> QED BY <2>1, <2>2
<1>5. s >= t /\ s >= 2 => m * inv >= 33521664
  <2> SUFFICES ASSUME s >= t, s >= 2 PROVE m * inv >= 33521664
    OBVIOUS
  <2>1. CASE n >= 2
    <3>1. inv = 33554432 \div w
      BY <1>2, <1>3, <2>1, DivisionIs
    <3>2. w * inv > 33554432 - w
      <4> DEFINE x == 33554432  rest == x % w
      <4>1. x \in Int /\ w \in Nat /\ w > 0
        BY <1>2, <2>1
      <4> HIDE DEF x
      <4>2. rest \in Int /\ rest < w /\ x = w * (x \div w) + rest
        BY <4>1, Divided
      <4> HIDE DEF rest
      <4>3. inv = x \div w
        BY <3>1 DEF x
      <4>4. w * inv \in Int /\ x = w * inv + rest
        BY <1>2, <1>4, <4>2, <4>3
      <4>5. w * inv > x - w
        BY <1>2, <4>1, <4>2, <4>4
      <4> QED BY <4>5 DEF x
    <3>3. m * inv >= w * inv
      <4>1. m - w >= 0 /\ m - w \in Int
        BY <1>2
      <4>2. (m - w) * inv >= 0
        BY <1>4, <4>1
      <4>3. (m - w) * inv = m * inv - w * inv
        BY <1>2, <1>4
      <4>4. m * inv \in Int /\ w * inv \in Int
        BY <1>2, <1>4
      <4> QED BY <4>2, <4>3, <4>4
    <3>4. m * inv \in Int /\ w * inv \in Int
      BY <1>2, <1>4
    <3> QED BY <1>2, <3>2, <3>3, <3>4
  <2>2. CASE ~ (n >= 2)
    BY <1>2, <1>3, <2>2
  <2> QED BY <2>1, <2>2
<1> DEFINE p == m * inv  f == p \div 32768
<1>6. p \in Int /\ p >= 0 /\ (s = 0 => p = 0)
  BY <1>2, <1>4
<1>7. int_fac(s, inv) = 16 * (IF f > 1024 THEN 1024 ELSE f)
  BY DEF int_fac, Mult, m
<1>8. s >= t /\ s >= 2 => p >= 33521664
  BY <1>5
<1> HIDE DEF p
<1>9. f \in Int /\ f >= 0 /\ (s = 0 => f = 0) /\ (s >= t /\ s >= 2 => f >= 1023)
  BY <1>6, <1>8
<1> QED BY <1>7, <1>9 DEF inv, IsShare

(* A spectrum whose ISFs are no more than can be decoded. *)
IsSpectrum(isf) == DOMAIN isf = 1..16 /\ \A i \in 1..16 : isf[i] \in Int /\ -26000 <= isf[i] /\ isf[i] <= 26000

(* Comfort noise between two descriptions. *)
LEMMA BetweenIs ==
    ASSUME NEW old, NEW new, IsSpectrum(old), IsSpectrum(new),
           NEW s \in Int, NEW t \in Int, 0 <= s, s <= 33, 0 <= t, t <= 33, NEW i \in 1..16
    PROVE  LET v == NoiseBetween(old, new, int_fac(s, true_sid_period_inv(t)))[i]
           IN  /\ v \in Int
               /\ old[i] <= new[i] => old[i] - 3 <= v /\ v <= new[i]
               /\ new[i] <= old[i] => new[i] - 3 <= v /\ v <= old[i]
               /\ s = 0 => old[i] - 3 <= v /\ v <= old[i]
               /\ s >= t /\ s >= 2 => new[i] - 130 <= v /\ v <= new[i] + 130
<1> DEFINE fac == int_fac(s, true_sid_period_inv(t))  a == old[i]  b == new[i]  v == NoiseBetween(old, new, fac)[i]
<1>1. IsShare(fac, s, t)
  BY FactorIs, Zenon
<1> HIDE DEF fac
<1>2. a \in Int /\ -26000 <= a /\ a <= 26000 /\ b \in Int /\ -26000 <= b /\ b <= 26000
  BY DEF IsSpectrum
<1>3. v = Sat16(2 * Sat16(Mult(fac, b) + Mult(16384 - fac, a)))
  BY DEF NoiseBetween, IsSpectrum
<1> HIDE DEF a, b, v
<1>4. IsBetween(a, b, fac, v)
  <2>1. fac \in Int /\ 0 <= fac /\ fac <= 16384
    BY <1>1 DEF IsShare
  <2> QED BY <2>1, <1>2, <1>3, MixedIs
<1>5. /\ v \in Int
      /\ a <= b => a - 3 <= v /\ v <= b
      /\ b <= a => b - 3 <= v /\ v <= a
      /\ s = 0 => a - 3 <= v /\ v <= a
      /\ s >= t /\ s >= 2 => b - 130 <= v /\ v <= b + 130
  BY <1>1, <1>4 DEF IsShare, IsBetween
<1> QED BY <1>5 DEF a, b, v, fac

(* Words of 16 bits.                                                       *)
IsWord(x) == x \in Int /\ -32768 <= x /\ x <= 32767

(* What the generator gives is a word.                                     *)
LEMMA NoiseIsWord == ASSUME NEW x \in Int PROVE IsWord(noise_gen_amrwb(x))
<1> DEFINE y == (x * 31821 + 13849) + 32768
<1>1. y \in Int
  OBVIOUS
<1> HIDE DEF y
<1>2. y % 65536 \in Int /\ 0 <= y % 65536 /\ y % 65536 < 65536
  BY <1>1
<1>3. noise_gen_amrwb(x) = (y % 65536) - 32768
  BY DEF noise_gen_amrwb, y
<1> QED BY <1>2, <1>3 DEF IsWord

(* The numbers that are drawn are words.                                   *)
LEMMA DrawnIs ==
    ASSUME NEW seed, IsWord(seed)
    PROVE  \A k \in 1..33 : IsWord(Drawn(seed)[k])
<1> DEFINE Step(f, k) == IF k = 1 THEN seed ELSE noise_gen_amrwb(f[k - 1])
           S == {n \in Nat : \E f : f = [k \in 1..n |-> Step(f, k)]}
<1>1. 0 \in S
  <2> DEFINE f == [k \in 1..0 |-> seed]
  <2>1. 1..0 = {}
    OBVIOUS
  <2> HIDE DEF Step
  <2>2. f = [k \in 1..0 |-> Step(f, k)]
    BY <2>1
  <2> HIDE DEF f
  <2> QED BY <2>2
<1>2. ASSUME NEW m \in Nat, m \in S PROVE m + 1 \in S
  <2>1. PICK f : f = [k \in 1..m |-> Step(f, k)]
    BY <1>2
  <2> DEFINE g == [k \in 1..(m + 1) |-> IF k <= m THEN f[k] ELSE Step(f, m + 1)]
  <2>2. \A k \in 1..(m + 1) : g[k] = Step(g, k)
    <3> SUFFICES ASSUME NEW k \in 1..(m + 1) PROVE g[k] = Step(g, k)
      OBVIOUS
    <3>1. k # 1 => g[k - 1] = f[k - 1]
      OBVIOUS
    <3> HIDE DEF g
    <3>2. Step(g, k) = Step(f, k)
      BY <3>1
    <3>3. g[k] = IF k <= m THEN f[k] ELSE Step(f, m + 1)
      BY DEF g
    <3> HIDE DEF Step
    <3>4. k <= m => f[k] = Step(f, k)
      BY <2>1
    <3>5. ~ (k <= m) => k = m + 1
      OBVIOUS
    <3> QED BY <3>2, <3>3, <3>4, <3>5
  <2>3. g = [k \in 1..(m + 1) |-> g[k]]
    OBVIOUS
  <2> HIDE DEF g, Step
  <2>4. g = [k \in 1..(m + 1) |-> Step(g, k)]
    BY <2>2, <2>3
  <2> QED BY <2>4
<1>3. 33 \in S
  <2> HIDE DEF S
  <2> QED BY <1>1, <1>2, UpFromZero
<1> DEFINE word == CHOOSE f : f = [k \in 1..33 |-> Step(f, k)]
<1>4. word = [k \in 1..33 |-> Step(word, k)]
  <2> HIDE DEF Step
  <2> QED BY <1>3, Zenon
<1>5. Drawn(seed) = word
  BY DEF Drawn
<1> HIDE DEF word
<1>6. \A k \in 1..33 : word[k] = Step(word, k)
  <2> HIDE DEF Step
  <2> QED BY <1>4
<1> DEFINE T == {k \in Nat : k \in 1..33 => IsWord(word[k])}
<1>7. 0 \in T
  OBVIOUS
<1>8. ASSUME NEW k \in Nat, k \in T PROVE k + 1 \in T
  <2> SUFFICES ASSUME k + 1 \in 1..33 PROVE IsWord(word[k + 1])
    OBVIOUS
  <2>1. word[k + 1] = Step(word, k + 1)
    BY <1>6
  <2>2. CASE k = 0
    BY <2>1, <2>2
  <2>3. CASE k # 0
    <3>1. k \in 1..33 /\ (k + 1) - 1 = k /\ k + 1 # 1
      BY <2>3
    <3>2. word[k] \in Int
      BY <1>8, <3>1 DEF IsWord
    <3>3. word[k + 1] = noise_gen_amrwb(word[k])
      BY <2>1, <3>1, Zenon
    <3> QED BY <3>2, <3>3, NoiseIsWord
  <2> QED BY <2>2, <2>3
<1>9. Nat \subseteq T
  <2> HIDE DEF T
  <2> QED BY <1>7, <1>8, UpFromZero
<1> QED BY <1>5, <1>9

(* Half the sum of two of them is one.                                     *)
LEMMA DitherIs ==
    ASSUME NEW drawn, \A k \in 1..33 : IsWord(drawn[k]), NEW n \in 0..15
    PROVE  IsWord(Dither(drawn, n))
<1> DEFINE a == drawn[2 * n + 2]  b == drawn[2 * n + 3]
<1>1. 2 * n + 2 \in 1..33 /\ 2 * n + 3 \in 1..33
  OBVIOUS
<1>2. a \in Int /\ b \in Int /\ -32768 <= a /\ a <= 32767 /\ -32768 <= b /\ b <= 32767
  BY <1>1 DEF IsWord
<1>3. Dither(drawn, n) = (a \div 2) + (b \div 2)
  BY DEF Dither
<1> HIDE DEF a, b
<1> QED BY <1>2, <1>3 DEF IsWord

(* A dithered value moves an ISF by 284 at most.                           *)
LEMMA MoveIs ==
    ASSUME NEW v \in Int, -26003 <= v, v <= 26000, NEW x, IsWord(x), NEW i \in 1..15
    PROVE  LET temp == Sat16(v + mult_int16_r(x, 256 + 2 * (i - 1)))
           IN  temp \in Int /\ temp <= 26284
<1> DEFINE f == 256 + 2 * (i - 1)  p == x * f  q == (p + 16384) \div 32768
<1>1. f \in Int /\ 0 <= f /\ f <= 284 /\ x \in Int /\ -32768 <= x /\ x <= 32767
  BY DEF IsWord
<1>2. mult_int16_r(x, f) = Sat16(q)
  BY DEF mult_int16_r
<1> HIDE DEF f
<1>3. p \in Int /\ p <= 32767 * 284 /\ p >= -32768 * 284
  <2>1. (32767 - x) * f >= 0 /\ (32767 - x) * f = 32767 * f - p
    BY <1>1
  <2>2. (x + 32768) * f >= 0 /\ (x + 32768) * f = p + 32768 * f
    BY <1>1
  <2>3. p \in Int
    BY <1>1
  <2> QED BY <1>1, <2>1, <2>2, <2>3
<1> HIDE DEF p
<1>4. q \in Int /\ q <= 284 /\ q >= -284
  BY <1>3
<1> HIDE DEF q
<1>5. Sat16(q) = q
  BY <1>4 DEF Sat16
<1>6. Sat16(v + q) \in Int /\ Sat16(v + q) <= 26284
  BY <1>4 DEF Sat16
<1> QED BY <1>2, <1>5, <1>6 DEF f

(* A spectrum between two.                                                 *)
IsMixture(isf) == \A i \in 1..16 : isf[i] \in Int /\ -26003 <= isf[i] /\ isf[i] <= 26000

(* After dithering the ISFs are in order, at a distance, and, as their     *)
(* sums are not saturated in the code, within 16 bits.                     *)
LEMMA DitheringIs ==
    ASSUME NEW isf, IsMixture(isf), NEW seed, IsWord(seed)
    PROVE  LET noise == CN_dithering(isf, 0, seed)
           IN  /\ \A i \in 2..14 : noise.isf[i] - noise.isf[i - 1] >= ISF_DITH_GAP
               /\ noise.isf[1] >= ISF_GAP /\ noise.isf[15] <= 16384 /\ noise.energy >= 0
               /\ \A i \in 1..14 : noise.isf[i] \in Int /\ noise.isf[i] <= 32767
<1> DEFINE drawn == Drawn(seed)
           temp(i) == Sat16(isf[i] + mult_int16_r(Dither(drawn, i), 256 + 2 * (i - 1)))
           least(f, i) == IF i = 1 THEN ISF_GAP ELSE f[i - 1] + ISF_DITH_GAP
           Step(f, i) == IF temp(i) < least(f, i) THEN least(f, i) ELSE temp(i)
           S == {n \in Nat : \E f : f = [k \in 1..n |-> Step(f, k)]}
<1>0. \A n \in 0..15 : IsWord(Dither(drawn, n))
  <2>1. \A k \in 1..33 : IsWord(drawn[k])
    BY DrawnIs
  <2> HIDE DEF drawn
  <2> QED BY <2>1, DitherIs
<1>1. \A i \in 1..15 : temp(i) \in Int /\ temp(i) <= 26284
  <2> SUFFICES ASSUME NEW i \in 1..15 PROVE temp(i) \in Int /\ temp(i) <= 26284
    OBVIOUS
  <2> DEFINE v == isf[i]  x == Dither(drawn, i)
  <2>1. v \in Int /\ -26003 <= v /\ v <= 26000 /\ IsWord(x)
    BY <1>0 DEF IsMixture
  <2> HIDE DEF v, x
  <2>2. LET t == Sat16(v + mult_int16_r(x, 256 + 2 * (i - 1))) IN t \in Int /\ t <= 26284
    BY <2>1, MoveIs
  <2> QED BY <2>2 DEF v, x
<1> HIDE DEF temp, drawn
<1>2. 0 \in S
  <2> DEFINE f == [k \in 1..0 |-> seed]
  <2>1. 1..0 = {}
    OBVIOUS
  <2> HIDE DEF Step
  <2>2. f = [k \in 1..0 |-> Step(f, k)]
    BY <2>1
  <2> HIDE DEF f
  <2> QED BY <2>2
<1>3. ASSUME NEW m \in Nat, m \in S PROVE m + 1 \in S
  <2>1. PICK f : f = [k \in 1..m |-> Step(f, k)]
    <3> HIDE DEF Step
    <3> QED BY <1>3
  <2> DEFINE g == [k \in 1..(m + 1) |-> IF k <= m THEN f[k] ELSE Step(f, m + 1)]
  <2>2. \A k \in 1..(m + 1) : g[k] = Step(g, k)
    <3> SUFFICES ASSUME NEW k \in 1..(m + 1) PROVE g[k] = Step(g, k)
      OBVIOUS
    <3>1. k # 1 => g[k - 1] = f[k - 1]
      OBVIOUS
    <3>2. g[k] = IF k <= m THEN f[k] ELSE Step(f, m + 1)
      BY DEF g
    <3> HIDE DEF g
    <3>3. least(g, k) = least(f, k)
      BY <3>1
    <3> HIDE DEF least
    <3>4. Step(g, k) = Step(f, k)
      BY <3>3
    <3> HIDE DEF Step
    <3>5. k <= m => f[k] = Step(f, k)
      BY <2>1
    <3>6. ~ (k <= m) => k = m + 1
      OBVIOUS
    <3> QED BY <3>2, <3>4, <3>5, <3>6
  <2>3. g = [k \in 1..(m + 1) |-> g[k]]
    OBVIOUS
  <2> HIDE DEF g, Step
  <2>4. g = [k \in 1..(m + 1) |-> Step(g, k)]
    BY <2>2, <2>3
  <2> QED BY <2>4
<1>4. 15 \in S
  <2> HIDE DEF S
  <2> QED BY <1>2, <1>3, UpFromZero
<1> DEFINE moved == CHOOSE f : f = [i \in 1..15 |-> Step(f, i)]
           energy == 0 + 2 * Dither(drawn, 0) * 75
           new == [i \in 1..16 |-> IF i = 16 THEN isf[16] ELSE IF i = 15 /\ moved[15] > 16384 THEN 16384 ELSE moved[i]]
           noise == CN_dithering(isf, 0, seed)
<1>5. moved = [i \in 1..15 |-> Step(moved, i)]
  <2> HIDE DEF Step
  <2> QED BY <1>4, Zenon
<1>6. noise = [isf |-> new, energy |-> IF energy < 0 THEN 0 ELSE energy, seed |-> drawn[33]]
  BY DEF CN_dithering, temp, drawn
<1> HIDE DEF moved, noise, energy
<1>7. \A i \in 1..15 : moved[i] = Step(moved, i)
  <2> HIDE DEF Step
  <2> QED BY <1>5
<1> DEFINE T == {i \in Nat : i \in 1..15 => moved[i] \in Int /\ moved[i] <= 26284 + 448 * (i - 1)
                                            /\ moved[i] >= least(moved, i)}
<1>8. 0 \in T
  OBVIOUS
<1>9. ASSUME NEW k \in Nat, k \in T PROVE k + 1 \in T
  <2> SUFFICES ASSUME k + 1 \in 1..15
               PROVE  /\ moved[k + 1] \in Int /\ moved[k + 1] <= 26284 + 448 * ((k + 1) - 1)
                      /\ moved[k + 1] >= least(moved, k + 1)
    OBVIOUS
  <2>1. moved[k + 1] = IF temp(k + 1) < least(moved, k + 1) THEN least(moved, k + 1) ELSE temp(k + 1)
    <3> HIDE DEF least
    <3> QED BY <1>7
  <2>2. temp(k + 1) \in Int /\ temp(k + 1) <= 26284
    BY <1>1
  <2>3. least(moved, k + 1) \in Int /\ least(moved, k + 1) <= 26284 + 448 * ((k + 1) - 1)
    <3>1. CASE k = 0
      BY <3>1 DEF ISF_GAP
    <3>2. CASE k # 0
      <4>1. k \in 1..15 /\ (k + 1) - 1 = k /\ k + 1 # 1
        BY <3>2
      <4>2. moved[k] \in Int /\ moved[k] <= 26284 + 448 * (k - 1)
        BY <1>9, <4>1
      <4>3. least(moved, k + 1) = moved[k] + 448
        BY <4>1 DEF ISF_DITH_GAP
      <4> QED BY <4>1, <4>2, <4>3
    <3> QED BY <3>1, <3>2
  <2> DEFINE l == least(moved, k + 1)  t == temp(k + 1)
  <2> HIDE DEF l, t, least
  <2> QED BY <2>1, <2>2, <2>3
<1>10. Nat \subseteq T
  <2> HIDE DEF T
  <2> QED BY <1>8, <1>9, UpFromZero
<1>11. \A i \in 1..15 : moved[i] \in Int /\ moved[i] <= 26284 + 448 * (i - 1) /\ moved[i] >= least(moved, i)
  <2> HIDE DEF least
  <2> QED BY <1>10
<1>12. energy \in Int
  <2>1. IsWord(Dither(drawn, 0))
    BY <1>0
  <2> QED BY <2>1 DEF IsWord, energy
<1>13. noise.isf = new /\ noise.energy >= 0
  BY <1>6, <1>12
<1>14. \A i \in 2..14 : new[i] - new[i - 1] >= 448
  <2> SUFFICES ASSUME NEW i \in 2..14 PROVE new[i] - new[i - 1] >= 448
    OBVIOUS
  <2>1. /\ i \in 1..15 /\ i - 1 \in 1..15 /\ i \in 1..16 /\ i - 1 \in 1..16
        /\ i # 1 /\ i # 15 /\ i - 1 # 15 /\ i # 16 /\ i - 1 # 16
    OBVIOUS
  <2>2. new[i] = moved[i] /\ new[i - 1] = moved[i - 1]
    BY <2>1
  <2>3. moved[i] >= moved[i - 1] + 448 /\ moved[i] \in Int /\ moved[i - 1] \in Int
    BY <1>11, <2>1 DEF ISF_DITH_GAP
  <2> HIDE DEF new
  <2> QED BY <2>2, <2>3
<1>15. new[1] >= 128 /\ new[15] <= 16384
  <2>1. moved[1] >= 128 /\ moved[15] \in Int
    BY <1>11 DEF ISF_GAP
  <2> QED BY <2>1
<1>16. \A i \in 1..14 : new[i] \in Int /\ new[i] <= 32767
  <2> SUFFICES ASSUME NEW i \in 1..14 PROVE new[i] \in Int /\ new[i] <= 32767
    OBVIOUS
  <2>1. new[i] = moved[i]
    OBVIOUS
  <2>2. moved[i] \in Int /\ moved[i] <= 26284 + 448 * (i - 1)
    BY <1>11
  <2> HIDE DEF new
  <2> QED BY <2>1, <2>2
<1> HIDE DEF new
<1> QED BY <1>13, <1>14, <1>15, <1>16 DEF noise, ISF_GAP, ISF_DITH_GAP

(* What is chosen for comfort noise.                                       *)
NoiseInv ==
    Len(isfs) = 2 =>
        /\ IsSpectrum(isfs[1]) /\ IsSpectrum(isfs[2])
        /\ elapsed[1] \in Int /\ 0 <= elapsed[1] /\ elapsed[1] <= 33
        /\ elapsed[2] \in Int /\ 0 <= elapsed[2] /\ elapsed[2] <= 33
        /\ IsWord(dither_seed)

(* What can be chosen.                                                     *)
LEMMA SpectraAre == \A f \in Spectra : IsSpectrum(f)
<1>1. SUFFICES ASSUME NEW f \in Spectra PROVE IsSpectrum(f)
  OBVIOUS
<1>2. f \in [1..16 -> IsfReceived]
  BY Zenon, FilterAssumption DEF FilterAssumption
<1>3. \A x \in IsfReceived : x \in Int /\ -26000 <= x /\ x <= 26000
  BY DEF IsfReceived
<1>4. DOMAIN f = 1..16 /\ \A i \in 1..16 : f[i] \in IsfReceived
  BY Zenon, <1>2
<1>5. \A i \in 1..16 : f[i] \in Int /\ -26000 <= f[i] /\ f[i] <= 26000
  BY <1>3, <1>4
<1> QED BY <1>4, <1>5 DEF IsSpectrum

LEMMA WaitsAre == \A w \in Waits : w \in Int /\ 0 <= w /\ w <= 33
<1>1. \A w \in Waits : w \in Wait
  BY Zenon, FilterAssumption DEF FilterAssumption
<1>2. \A w \in Wait : w \in Int /\ 0 <= w /\ w <= 33
  BY DEF Wait
<1> QED BY Zenon, <1>1, <1>2

LEMMA SeedsAre == \A x \in Seeds : IsWord(x)
<1>1. \A x \in Seeds : x \in Seed
  BY Zenon, FilterAssumption DEF FilterAssumption
<1>2. \A w \in Seed : w \in Int /\ -32768 <= w /\ w <= 32767
  BY SMTT(30) DEF Seed
<1> QED BY <1>1, <1>2 DEF IsWord

(* It stays so.                                                            *)
LEMMA NoiseInitInv == FilterInit => NoiseInv
BY DEF FilterInit, NoSpectrum, NoiseInv

LEMMA NoiseNextInv == ASSUME NoiseInv, [FilterNext]_filterVars PROVE NoiseInv'
<1>1. CASE ChooseSpectrum
  <2>1. Len(isfs') = 1
    BY <1>1 DEF ChooseSpectrum
  <2> QED BY <2>1 DEF NoiseInv
<1>2. CASE ChooseNoise
  <2>1. PICK old \in Spectra, new \in Spectra, s \in Waits, t \in Waits :
            isfs' = <<old, new>> /\ elapsed' = <<s, t>> /\ dither_seed' \in Seeds
    BY <1>2 DEF ChooseNoise
  <2>2. IsSpectrum(old) /\ IsSpectrum(new)
    BY Zenon, SpectraAre
  <2>3. s \in Int /\ 0 <= s /\ s <= 33 /\ t \in Int /\ 0 <= t /\ t <= 33
    BY WaitsAre
  <2>4. IsWord(dither_seed')
    BY Zenon, <2>1, SeedsAre
  <2>5. isfs'[1] = old /\ isfs'[2] = new /\ elapsed'[1] = s /\ elapsed'[2] = t
    BY <2>1
  <2> QED BY <2>2, <2>3, <2>4, <2>5 DEF NoiseInv
<1>3. CASE ChooseIsps \/ UNCHANGED filterVars
  <2>1. UNCHANGED <<isfs, elapsed, dither_seed>>
    BY <1>3 DEF ChooseIsps, filterVars
  <2> QED BY <2>1 DEF NoiseInv
<1> QED BY <1>1, <1>2, <1>3 DEF FilterNext

(* And it is enough.                                                       *)
LEMMA NoiseIsBetween == NoiseInv => NoiseStaysBetween
<1> SUFFICES ASSUME NoiseInv, Len(isfs) = 2 PROVE NoiseStaysBetween
  BY DEF NoiseStaysBetween
<1> DEFINE old == isfs[1]  new == isfs[2]  s == elapsed[1]  t == elapsed[2]
           isf == NoiseBetween(old, new, int_fac(s, true_sid_period_inv(t)))
           noise == CN_dithering(isf, 0, dither_seed)
           Between(i) == /\ isf[i] \in Int
                         /\ old[i] <= new[i] => old[i] - 3 <= isf[i] /\ isf[i] <= new[i]
                         /\ new[i] <= old[i] => new[i] - 3 <= isf[i] /\ isf[i] <= old[i]
                         /\ s = 0 => old[i] - 3 <= isf[i] /\ isf[i] <= old[i]
                         /\ s >= t /\ s >= 2 => new[i] - 130 <= isf[i] /\ isf[i] <= new[i] + 130
<1>1. /\ IsSpectrum(old) /\ IsSpectrum(new) /\ IsWord(dither_seed)
      /\ s \in Int /\ 0 <= s /\ s <= 33 /\ t \in Int /\ 0 <= t /\ t <= 33
  BY DEF NoiseInv
<1> HIDE DEF old, new, s, t
<1>2. \A i \in 1..16 : Between(i)
  BY <1>1, BetweenIs
<1> HIDE DEF isf, Between
<1>3. \A i \in 1..16 : /\ old[i] \in Int /\ -26000 <= old[i] /\ old[i] <= 26000
                       /\ new[i] \in Int /\ -26000 <= new[i] /\ new[i] <= 26000
  BY <1>1 DEF IsSpectrum
<1>4. (\A i \in 1..16 : old[i] \in Int) /\ (\A i \in 1..16 : new[i] \in Int)
  BY <1>3
<1>5. IsMixture(isf)
  BY <1>2, <1>3 DEF IsMixture, Between
<1>6. /\ \A i \in 2..14 : noise.isf[i] - noise.isf[i - 1] >= ISF_DITH_GAP
      /\ noise.isf[1] >= ISF_GAP /\ noise.isf[15] <= 16384 /\ noise.energy >= 0
  BY <1>1, <1>5, DitheringIs
<1>7. \A i \in 1..16 : isf[i] \in (IF old[i] < new[i] THEN old[i] - 3..new[i] ELSE new[i] - 3..old[i])
  <2>1. SUFFICES ASSUME NEW i \in 1..16
                 PROVE  isf[i] \in (IF old[i] < new[i] THEN old[i] - 3..new[i] ELSE new[i] - 3..old[i])
    OBVIOUS
  <2> DEFINE a == old[i]  b == new[i]  v == isf[i]
  <2>2. /\ v \in Int /\ a \in Int /\ b \in Int
        /\ a <= b => a - 3 <= v /\ v <= b
        /\ b <= a => b - 3 <= v /\ v <= a
    <3>1. Between(i) /\ old[i] \in Int /\ new[i] \in Int
      BY Zenon, <1>2, <1>4, <2>1
    <3> QED BY <2>1, <3>1 DEF Between
  <2> HIDE DEF a, b, v
  <2>3. v \in (IF a < b THEN a - 3..b ELSE b - 3..a)
    BY <2>2
  <2> QED BY Zenon, <2>3 DEF a, b, v
<1>8. s = 0 => \A i \in 1..16 : Near(isf[i], old[i], 3)
  <2>1. SUFFICES ASSUME s = 0, NEW i \in 1..16 PROVE Near(isf[i], old[i], 3)
    OBVIOUS
  <2> DEFINE a == old[i]  v == isf[i]
  <2>2. v \in Int /\ a \in Int /\ a - 3 <= v /\ v <= a
    <3>1. Between(i) /\ old[i] \in Int /\ new[i] \in Int
      BY Zenon, <1>2, <1>4, <2>1
    <3> QED BY <2>1, <3>1 DEF Between
  <2> HIDE DEF a, v
  <2>3. Near(v, a, 3)
    BY <2>2 DEF Near
  <2> QED BY Zenon, <2>3 DEF a, v
<1>9. s >= t /\ s >= 2 => \A i \in 1..16 : Near(isf[i], new[i], 3 + 32767 \div 256)
  <2>1. 3 + 32767 \div 256 = 130
    OBVIOUS
  <2>2. s >= t /\ s >= 2 => \A i \in 1..16 : Near(isf[i], new[i], 130)
    <3>1. SUFFICES ASSUME s >= t /\ s >= 2, NEW i \in 1..16 PROVE Near(isf[i], new[i], 130)
      OBVIOUS
    <3> DEFINE b == new[i]  v == isf[i]
    <3>2. v \in Int /\ b \in Int /\ b - 130 <= v /\ v <= b + 130
      <4>1. Between(i) /\ old[i] \in Int /\ new[i] \in Int
        BY Zenon, <1>2, <1>4, <3>1
      <4> QED BY <3>1, <4>1 DEF Between
    <3> HIDE DEF b, v
    <3>3. Near(v, b, 130)
      BY <3>2 DEF Near
    <3> QED BY Zenon, <3>3 DEF b, v
  <2> QED BY <2>1, <2>2
<1> HIDE DEF noise
<1> QED BY <1>6, <1>7, <1>8, <1>9 DEF NoiseStaysBetween, noise, isf, old, new, s, t

(* Comfort noise stays between the descriptions and in order after the     *)
(* dithering, for any of them, any waits and any seed: dtx_dec_amr_wb,     *)
(* CN_dithering.                                                           *)
THEOREM NoiseAlwaysBetween == FilterSpec => []NoiseStaysBetween
BY NoiseInitInv, NoiseNextInv, NoiseIsBetween, PTL DEF FilterSpec
=============================================================================
