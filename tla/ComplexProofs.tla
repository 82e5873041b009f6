--------------------------- MODULE ComplexProofs ---------------------------
(* Proofs about CkComplex: induction over the naturals, powers of two, the  *)
(* arithmetic of complex numbers, and the discrete Fourier transform.       *)
EXTENDS CkComplex, FiniteSetTheorems, TLAPS

(* Induction, for a property given by the set of numbers that have it.      *)
THEOREM Induction ==
  ASSUME NEW S \in SUBSET Nat, 0 \in S, \A n \in S : n + 1 \in S
  PROVE  S = Nat
<1> SUFFICES ASSUME NEW n \in Nat, n \notin S PROVE FALSE
  OBVIOUS
<1> DEFINE A == S \cap (0..n)
           B == A \ {0}
           f == [x \in A |-> x + 1]
<1>1. IsFiniteSet(A)
  <2>1. IsFiniteSet(0..n)
    BY FS_Interval
  <2> QED BY <2>1, FS_Intersection
<1>2. 0 \in A
  OBVIOUS
<1>3. IsFiniteSet(B) /\ Cardinality(B) = Cardinality(A) - 1 /\ Cardinality(A) \in Nat
  BY <1>1, <1>2, FS_RemoveElement, FS_CardinalityType
<1>4. f \in [A -> B]
  <2> SUFFICES ASSUME NEW x \in A PROVE x + 1 \in B
    OBVIOUS
  <2>1. x + 1 \in S /\ x \in Nat /\ x <= n /\ x # n
    OBVIOUS
  <2> QED BY <2>1
<1>5. \E x, y \in A : x # y /\ f[x] = f[y]
  <2> Cardinality(B) < Cardinality(A)
    BY <1>3
  <2> HIDE DEF A, B, f
  <2> QED BY <1>1, <1>3, <1>4, FS_PigeonHole
<1> QED BY <1>5

-----------------------------------------------------------------------------
(* A divisor of a number divides its double.                                *)
LEMMA DivisorHalf ==
  ASSUME NEW a \in Nat, NEW h \in Nat, a = 2 * h,
         NEW d \in Nat \ {0}, h % d = 0
  PROVE  a % d = 0
<1> DEFINE q == h \div d
           e == a \div d
           r == a % d
<1>1. q \in Nat /\ h = d * q
  OBVIOUS
<1>2. e \in Nat /\ r \in 0..(d - 1) /\ a = d * e + r
  OBVIOUS
<1> HIDE DEF q, e, r
<1>3. r = d * (2 * q - e)
  BY <1>1, <1>2
<1>4. 2 * q - e \in Int
  BY <1>1, <1>2
<1>5. ASSUME NEW z \in Int, z > 0 PROVE d * z >= d
  BY <1>5
<1>6. ASSUME NEW z \in Int, z < 0 PROVE d * z < 0
  BY <1>6
<1>7. 2 * q - e = 0
  BY <1>2, <1>3, <1>4, <1>5, <1>6
<1>8. r = 0
  BY <1>3, <1>7
<1> QED BY <1>8 DEF r

(* Division of m*n + l by n: the index of an element says which vector and  *)
(* which lane it is in.                                                     *)
LEMMA QuotientAndRest ==
  ASSUME NEW n \in Nat \ {0}, NEW m \in Nat, NEW l \in 0..(n - 1)
  PROVE  (m * n + l) \div n = m /\ (m * n + l) % n = l
<1> DEFINE x == m * n + l
           q == x \div n
           r == x % n
<1>1. x \in Nat
  OBVIOUS
<1>2. q \in Nat /\ r \in 0..(n - 1) /\ x = n * q + r
  <2> HIDE DEF x
  <2> QED BY <1>1
<1>3. n * q + r = n * m + l
  BY <1>2
<1> HIDE DEF x, q, r
<1>4. r - l = n * (m - q) /\ m - q \in Int
  BY <1>2, <1>3
<1>5. ASSUME NEW z \in Int, z > 0 PROVE n * z >= n
  BY <1>5
<1>6. ASSUME NEW z \in Int, z < 0 PROVE n * z <= -n
  <2>1. -z \in Int /\ -z > 0
    BY <1>6
  <2>2. n * (-z) >= n
    BY <2>1, <1>5
  <2> QED BY <2>2
<1>7. m - q = 0
  BY <1>2, <1>4, <1>5, <1>6
<1>8. q = m /\ r = l
  BY <1>2, <1>3, <1>7
<1> QED BY <1>8 DEF q, r, x

LEMMA PowerOfTwoEven ==
  ASSUME NEW c \in Nat, isPowerOfTwo(c), c > 1
  PROVE  c % 2 = 0 /\ isPowerOfTwo(c \div 2)
<1>1. c % 2 = 0
  <2>1. c \in 1..c /\ c % c = 0
    OBVIOUS
  <2> QED BY <2>1 DEF isPowerOfTwo
<1>2. c = 2 * (c \div 2) /\ c \div 2 \in Nat /\ c \div 2 # 0
  BY <1>1
<1>3. ASSUME NEW d \in 1..(c \div 2), (c \div 2) % d = 0, d % 2 = 1
      PROVE  d = 1
  <2> d \in Nat \ {0}
    BY <1>2, <1>3
  <2>1. c % d = 0
    BY <1>2, <1>3, DivisorHalf
  <2> QED BY <1>2, <1>3, <2>1 DEF isPowerOfTwo
<1> QED BY <1>1, <1>2, <1>3 DEF isPowerOfTwo

LEMMA PowerOfTwoQuarter ==
  ASSUME NEW c \in Nat, isPowerOfTwo(c), c > 2
  PROVE  /\ c = 4 * (c \div 4)
         /\ c \div 4 \in Nat
         /\ isPowerOfTwo(c \div 4)
<1>1. c % 2 = 0 /\ isPowerOfTwo(c \div 2) /\ c \div 2 \in Nat /\ c \div 2 > 1
  BY PowerOfTwoEven
<1>2. (c \div 2) % 2 = 0 /\ isPowerOfTwo((c \div 2) \div 2)
  BY <1>1, PowerOfTwoEven
<1>3. (c \div 2) \div 2 = c \div 4 /\ c = 4 * (c \div 4) /\ c \div 4 \in Nat
  BY <1>1, <1>2
<1> QED BY <1>2, <1>3

(* Of two powers of two, the smaller divides the larger.                    *)
LEMMA PowerOfTwoDivides ==
  ASSUME NEW a \in Nat, isPowerOfTwo(a), NEW b \in Nat, isPowerOfTwo(b), a <= b
  PROVE  \E q \in Nat \ {0} : b = a * q
<1> DEFINE Divides(x, y) == isPowerOfTwo(x) /\ isPowerOfTwo(y) /\ x <= y =>
                              \E q \in Nat \ {0} : y = x * q
           S == {n \in Nat : \A y \in 0..n : \A x \in Nat : Divides(x, y)}
<1>1. 0 \in S
  BY DEF isPowerOfTwo
<1>2. ASSUME NEW n \in S PROVE n + 1 \in S
  <2>1. n \in Nat /\ \A y \in 0..n : \A x \in Nat : Divides(x, y)
    BY <1>2
  <2>2. ASSUME NEW x \in Nat, isPowerOfTwo(x), isPowerOfTwo(n + 1), x <= n + 1
        PROVE  \E q \in Nat \ {0} : n + 1 = x * q
    <3>1. CASE x = 1
      BY <2>1, <3>1
    <3>2. CASE x # 1
      <4>1. x > 1 /\ n + 1 > 1 /\ n + 1 \in Nat
        BY <2>1, <2>2, <3>2 DEF isPowerOfTwo
      <4> DEFINE y == (n + 1) \div 2
                 z == x \div 2
      <4>2. n + 1 = 2 * y /\ y \in Nat /\ isPowerOfTwo(y)
        BY <2>2, <4>1, PowerOfTwoEven
      <4>3. x = 2 * z /\ z \in Nat /\ isPowerOfTwo(z)
        BY <2>2, <4>1, PowerOfTwoEven
      <4> HIDE DEF y, z
      <4>4. y \in 0..n /\ z <= y
        BY <2>1, <2>2, <4>1, <4>2, <4>3
      <4>5. PICK q \in Nat \ {0} : y = z * q
        BY <2>1, <4>2, <4>3, <4>4
      <4>6. n + 1 = x * q
        BY <4>2, <4>3, <4>5
      <4> QED BY <4>6
    <3> QED BY <3>1, <3>2
  <2>3. ASSUME NEW y \in 0..(n + 1), NEW x \in Nat PROVE Divides(x, y)
    <3>1. y \in 0..n \/ y = n + 1
      BY <2>1
    <3> QED BY <2>1, <2>2, <3>1
  <2> HIDE DEF Divides
  <2> QED BY <2>1, <2>3
<1>3. S = Nat
  <2>1. S \in SUBSET Nat
    OBVIOUS
  <2> HIDE DEF S
  <2> QED BY <1>1, <1>2, <2>1, Induction
<1> QED BY <1>3

LEMMA PowerOfTwoQuotient ==
  ASSUME NEW a \in Nat, isPowerOfTwo(a), NEW b \in Nat, isPowerOfTwo(b), a <= b
  PROVE  b \div a \in Nat \ {0} /\ a * (b \div a) = b
<1>1. PICK q \in Nat \ {0} : b = a * q
  BY PowerOfTwoDivides
<1>2. b = q * a + 0 /\ 0 \in 0..(a - 1) /\ a \in Nat \ {0} /\ q \in Nat
  BY <1>1 DEF isPowerOfTwo
<1>3. (q * a + 0) \div a = q
  BY <1>2, QuotientAndRest
<1> QED BY <1>1, <1>2, <1>3

-----------------------------------------------------------------------------
(* The arithmetic keeps floats floats.                                      *)
LEMMA ComplexOps ==
  ASSUME NEW a \in CkFftComplex, NEW b \in CkFftComplex
  PROVE  /\ add(a, b) \in CkFftComplex
         /\ subtract(a, b) \in CkFftComplex
         /\ multiply(a, b) \in CkFftComplex
         /\ conjugate(a) \in CkFftComplex
<1>1. a.real \in Int /\ a.imag \in Int /\ b.real \in Int /\ b.imag \in Int
  BY ModulusAssumption DEF CkFftComplex, Float
<1>2. \A x \in Int : x % P \in Float
  BY ModulusAssumption DEF Float
<1>3. \A x, y \in Int : x * y \in Int
  OBVIOUS
<1> QED BY <1>1, <1>2, <1>3 DEF CkFftComplex, add, subtract, multiply, conjugate

(* Every twiddle factor is a complex number.                                *)
LEMMA TwiddleType ==
  ASSUME NEW i \in Nat, NEW n \in Nat \ {0}
  PROVE  Twiddle(i, n) \in CkFftComplex
<1> DEFINE angle == (i * ((P + 1) \div n)) % (P + 1)
<1>1. (P + 1) \div n \in Nat
  BY ModulusAssumption
<1>2. i * ((P + 1) \div n) \in Nat
  BY <1>1
<1>3. angle \in 0..P
  BY <1>2, ModulusAssumption
<1>4. Expi[angle] \in CkFftComplex
  BY <1>3, ExpiAssumption
<1> QED BY <1>4, ComplexOps DEF Twiddle

-----------------------------------------------------------------------------
(* The rest of a division differs from the number by a multiple.            *)
LEMMA RestOf ==
  ASSUME NEW m \in Nat \ {0}, NEW a \in Int
  PROVE  a % m \in 0..(m - 1) /\ \E k \in Int : a % m = a + k * m
<1> DEFINE q == a \div m
           r == a % m
<1>1. q \in Int /\ r \in 0..(m - 1) /\ a = m * q + r
  OBVIOUS
<1> HIDE DEF q, r
<1>2. r = a + (-q) * m /\ -q \in Int
  BY <1>1
<1> QED BY <1>1, <1>2 DEF r

(* Numbers that differ by a multiple of m have the same rest.               *)
LEMMA RestSame ==
  ASSUME NEW m \in Nat \ {0}, NEW a \in Int, NEW b \in Int, NEW k \in Int, a = b + k * m
  PROVE  a % m = b % m
<1>1. PICK i \in Int : a % m = a + i * m
  BY RestOf
<1>2. PICK j \in Int : b % m = b + j * m
  BY RestOf
<1>3. a % m \in 0..(m - 1) /\ b % m \in 0..(m - 1)
  BY RestOf
<1> DEFINE x == a % m
           y == b % m
           d == k + i - j
<1>4. d \in Int /\ x - y = d * m
  BY <1>1, <1>2
<1>5. x \in 0..(m - 1) /\ y \in 0..(m - 1)
  BY <1>3
<1> HIDE DEF x, y, d
<1>6. ASSUME NEW z \in Int, z > 0 PROVE z * m >= m
  BY <1>6
<1>7. ASSUME NEW z \in Int, z < 0 PROVE z * m <= -m
  <2>1. -z \in Int /\ -z > 0
    BY <1>7
  <2>2. (-z) * m >= m
    BY <2>1, <1>6
  <2> QED BY <2>1, <2>2
<1>8. d = 0
  BY <1>4, <1>5, <1>6, <1>7
<1>9. x = y
  BY <1>4, <1>5, <1>8
<1> QED BY <1>9 DEF x, y

(* mod can be taken of the parts *)
LEMMA RestSum ==
  ASSUME NEW m \in Nat \ {0}, NEW a \in Int, NEW b \in Int
  PROVE  /\ ((a % m) + b) % m = (a + b) % m
         /\ (a + (b % m)) % m = (a + b) % m
         /\ ((a % m) - b) % m = (a - b) % m
         /\ (a - (b % m)) % m = (a - b) % m
         /\ ((a % m) * b) % m = (a * b) % m
         /\ (a * (b % m)) % m = (a * b) % m
<1>1. PICK i \in Int : a % m = a + i * m
  BY RestOf
<1>2. PICK j \in Int : b % m = b + j * m
  BY RestOf
<1>3. a % m \in Int /\ b % m \in Int /\ m \in Int
  OBVIOUS
<1> DEFINE x == a % m
           y == b % m
<1>4. x \in Int /\ x = a + i * m /\ y \in Int /\ y = b + j * m
  BY <1>1, <1>2, <1>3
<1> HIDE DEF x, y
<1>5. /\ x + b = (a + b) + i * m /\ x + b \in Int /\ a + b \in Int
      /\ a + y = (a + b) + j * m /\ a + y \in Int
      /\ x - b = (a - b) + i * m /\ x - b \in Int /\ a - b \in Int
      /\ a - y = (a - b) + (-j) * m /\ a - y \in Int /\ -j \in Int
  BY <1>4, <1>3
<1>6. /\ x * b = a * b + (i * b) * m /\ x * b \in Int /\ a * b \in Int /\ i * b \in Int
      /\ a * y = a * b + (a * j) * m /\ a * y \in Int /\ a * j \in Int
  BY <1>4, <1>3
<1>7. ASSUME NEW u \in Int, NEW v \in Int, NEW k \in Int, u = v + k * m
      PROVE  u % m = v % m
  BY <1>7, RestSame
<1>8. -j \in Int /\ i * b \in Int /\ a * j \in Int
  BY <1>6
<1> HIDE DEF x, y
<1>9. (x + b) % m = (a + b) % m
  BY <1>5, <1>7
<1>10. (a + y) % m = (a + b) % m
  BY <1>5, <1>7
<1>11. (x - b) % m = (a - b) % m
  BY <1>5, <1>7
<1>12. (a - y) % m = (a - b) % m
  BY <1>5, <1>7
<1>13. (x * b) % m = (a * b) % m
  BY <1>6, <1>7
<1>14. (a * y) % m = (a * b) % m
  BY <1>6, <1>7
<1> QED BY <1>9, <1>10, <1>11, <1>12, <1>13, <1>14 DEF x, y

(* The same of the modulus of a float.                                      *)
LEMMA ModOf ==
  ASSUME NEW a \in Int
  PROVE  a % P \in Float /\ \E k \in Int : a % P = a + k * P
<1> P \in Nat \ {0}
  BY ModulusAssumption
<1> QED BY ONLY RestOf, P \in Nat \ {0}, Zenon DEF Float

LEMMA ModSame ==
  ASSUME NEW a \in Int, NEW b \in Int, NEW k \in Int, a = b + k * P
  PROVE  a % P = b % P
<1> P \in Nat \ {0}
  BY ModulusAssumption
<1> QED BY RestSame, Zenon

LEMMA ModSum ==
  ASSUME NEW a \in Int, NEW b \in Int
  PROVE  /\ ((a % P) + b) % P = (a + b) % P
         /\ (a + (b % P)) % P = (a + b) % P
         /\ ((a % P) - b) % P = (a - b) % P
         /\ (a - (b % P)) % P = (a - b) % P
         /\ ((a % P) * b) % P = (a * b) % P
         /\ (a * (b % P)) % P = (a * b) % P
<1> P \in Nat \ {0}
  BY ModulusAssumption
<1> QED BY ONLY RestSum, P \in Nat \ {0}, Zenon

(* A float is its own rest; a rest is a float.                              *)
LEMMA FloatMod ==
  ASSUME NEW a \in Float
  PROVE a % P = a
<1>1. a \in Int /\ a >= 0 /\ a < P /\ P \in Nat \ {0}
  BY ModulusAssumption DEF Float
<1>2. PICK i \in Int : a % P = a + i * P
  BY <1>1, ModOf
<1>3. a % P \in 0..(P - 1)
  BY <1>1, ModOf DEF Float
<1> DEFINE x == a % P
<1>4. x \in 0..(P - 1) /\ x - a = i * P
  BY <1>1, <1>2, <1>3
<1> HIDE DEF x
<1>6. ASSUME NEW z \in Int, z > 0 PROVE z * P >= P
  BY <1>6, ModulusAssumption
<1>7. ASSUME NEW z \in Int, z < 0 PROVE z * P <= -P
  <2>1. -z \in Int /\ -z > 0
    BY <1>7
  <2>2. (-z) * P >= P
    BY <2>1, <1>6
  <2> QED BY <2>1, <2>2, ModulusAssumption
<1>8. i = 0
  BY <1>4, <1>1, <1>6, <1>7
<1>9. x = a
  BY <1>4, <1>1, <1>8
<1> QED BY <1>9 DEF x

(* The parts of a complex number, and a number by its parts.                *)
LEMMA ComplexFields ==
  ASSUME NEW a \in CkFftComplex
  PROVE  /\ a.real \in Int /\ a.imag \in Int
         /\ a.real % P = a.real /\ a.imag % P = a.imag
         /\ a = [real |-> a.real, imag |-> a.imag]
<1>1. a.real \in Float /\ a.imag \in Float /\ a = [real |-> a.real, imag |-> a.imag]
  BY DEF CkFftComplex
<1>2. a.real \in Int /\ a.imag \in Int
  BY <1>1, ModulusAssumption DEF Float
<1> QED BY <1>1, <1>2, FloatMod

LEMMA ZeroOne == Zero \in CkFftComplex /\ One \in CkFftComplex
<1>1. 1 % P \in Float
  <2> 1 \in Int
    OBVIOUS
  <2> QED BY ModOf
<1>2. 0 \in Float
  BY ModulusAssumption DEF Float
<1> QED BY <1>1, <1>2 DEF Zero, One, CkFftComplex

(* The laws of the arithmetic: it is that of a ring with a conjugation.     *)
LEMMA AddCommutes ==
  ASSUME NEW a \in CkFftComplex, NEW b \in CkFftComplex
  PROVE  add(a, b) = add(b, a)
  BY ComplexFields DEF add

LEMMA AddZero ==
  ASSUME NEW a \in CkFftComplex
  PROVE  add(Zero, a) = a /\ add(a, Zero) = a
<1>1. a.real \in Int /\ a.imag \in Int /\ a.real % P = a.real /\ a.imag % P = a.imag
      /\ a = [real |-> a.real, imag |-> a.imag]
  BY ComplexFields
<1>2. a.real + 0 = a.real /\ a.imag + 0 = a.imag /\ 0 + a.real = a.real /\ 0 + a.imag = a.imag
  BY <1>1
<1> QED BY <1>1, <1>2 DEF add, Zero

LEMMA AddAssociates ==
  ASSUME NEW a \in CkFftComplex, NEW b \in CkFftComplex, NEW c \in CkFftComplex
  PROVE  add(add(a, b), c) = add(a, add(b, c))
<1>1. ASSUME NEW x \in Int, NEW y \in Int, NEW z \in Int
      PROVE  (((x + y) % P) + z) % P = (x + ((y + z) % P)) % P
  <2>1. x + y \in Int /\ y + z \in Int /\ (x + y) + z = x + (y + z)
    OBVIOUS
  <2>2. (((x + y) % P) + z) % P = ((x + y) + z) % P
    BY <2>1, ModSum
  <2>3. (x + ((y + z) % P)) % P = (x + (y + z)) % P
    BY <2>1, ModSum
  <2> QED BY <2>1, <2>2, <2>3
<1>2. /\ a.real \in Int /\ b.real \in Int /\ c.real \in Int
      /\ a.imag \in Int /\ b.imag \in Int /\ c.imag \in Int
  BY ComplexFields
<1>3. (((a.real + b.real) % P) + c.real) % P = (a.real + ((b.real + c.real) % P)) % P
  <2> HIDE DEF add
  <2> QED BY <1>1, <1>2
<1>4. (((a.imag + b.imag) % P) + c.imag) % P = (a.imag + ((b.imag + c.imag) % P)) % P
  BY <1>1, <1>2
<1> QED BY <1>3, <1>4 DEF add

LEMMA MultiplyCommutes ==
  ASSUME NEW a \in CkFftComplex, NEW b \in CkFftComplex
  PROVE  multiply(a, b) = multiply(b, a)
<1>2. a.real \in Int /\ b.real \in Int /\ a.imag \in Int /\ b.imag \in Int
  BY ComplexFields
<1>3. /\ a.real * b.real - a.imag * b.imag = b.real * a.real - b.imag * a.imag
      /\ a.imag * b.real + a.real * b.imag = b.imag * a.real + b.real * a.imag
  BY <1>2
<1> QED BY <1>3 DEF multiply

LEMMA MultiplyOne ==
  ASSUME NEW a \in CkFftComplex
  PROVE  multiply(One, a) = a /\ multiply(a, One) = a
<1>1. a.real \in Int /\ a.imag \in Int /\ a.real % P = a.real /\ a.imag % P = a.imag
      /\ a = [real |-> a.real, imag |-> a.imag]
  BY ComplexFields
<1> DEFINE e == 1 % P
<1>2. e \in Int /\ One = [real |-> e, imag |-> 0]
  <2>1. 1 \in Int
    OBVIOUS
  <2> QED BY <2>1, ModOf, ModulusAssumption DEF One, Float
<1>3. ASSUME NEW x \in Int PROVE (e * x) % P = x % P
  <2>1. 1 \in Int /\ 1 * x = x
    OBVIOUS
  <2>2. ((1 % P) * x) % P = (1 * x) % P
    BY <2>1, ModSum
  <2> QED BY <2>1, <2>2
<1> HIDE DEF e
<1>4. /\ multiply(One, a) = [real |-> (e * a.real - 0 * a.imag) % P,
                             imag |-> (0 * a.real + e * a.imag) % P]
  BY <1>2 DEF multiply
<1>5. e * a.real - 0 * a.imag = e * a.real /\ 0 * a.real + e * a.imag = e * a.imag
  BY <1>1, <1>2
<1>6. multiply(One, a) = a
  BY <1>1, <1>3, <1>4, <1>5
<1>7. One \in CkFftComplex
  BY ZeroOne
<1> QED BY <1>6, <1>7, MultiplyCommutes

(* The rest of a product of rests, added to another.                        *)
LEMMA ModCombine ==
  ASSUME NEW r \in Int, NEW s \in Int, NEW x \in Int, NEW y \in Int
  PROVE  /\ ((r % P) * x - (s % P) * y) % P = (r * x - s * y) % P
         /\ ((r % P) * x + (s % P) * y) % P = (r * x + s * y) % P
<1>1. PICK i \in Int : r % P = r + i * P
    BY ModOf
<1>2. PICK j \in Int : s % P = s + j * P
    BY ModOf
<1> DEFINE m == r % P
             n == s % P
<1>3. m = r + i * P /\ n = s + j * P /\ m \in Int /\ n \in Int /\ P \in Int
    BY <1>1, <1>2, ModulusAssumption
<1> HIDE DEF m, n
<1>4. m * x \in Int /\ n * y \in Int /\ r * x \in Int /\ s * y \in Int /\ i * x \in Int /\ j * y \in Int
    BY <1>3
<1>5. m * x = r * x + (i * x) * P
    BY <1>3
<1>6. n * y = s * y + (j * y) * P
    BY <1>3
<1> DEFINE mx == m * x
             ny == n * y
             rx == r * x
             sy == s * y
             ix == i * x
             jy == j * y
<1>7. mx \in Int /\ ny \in Int /\ rx \in Int /\ sy \in Int /\ ix \in Int /\ jy \in Int
        /\ mx = rx + ix * P /\ ny = sy + jy * P
    BY <1>4, <1>5, <1>6
<1> HIDE DEF mx, ny, rx, sy, ix, jy
<1>8. /\ mx - ny = (rx - sy) + (ix - jy) * P /\ ix - jy \in Int
        /\ mx - ny \in Int /\ rx - sy \in Int
    BY <1>3, <1>7
<1>9. /\ mx + ny = (rx + sy) + (ix + jy) * P /\ ix + jy \in Int
        /\ mx + ny \in Int /\ rx + sy \in Int
    BY <1>3, <1>7
<1>10. (mx - ny) % P = (rx - sy) % P
    BY <1>8, ModSame
<1>11. (mx + ny) % P = (rx + sy) % P
    BY <1>9, ModSame
<1> QED BY <1>10, <1>11 DEF mx, ny, rx, sy, m, n

LEMMA MultiplyAssociates ==
  ASSUME NEW a \in CkFftComplex, NEW b \in CkFftComplex, NEW c \in CkFftComplex
  PROVE  multiply(multiply(a, b), c) = multiply(a, multiply(b, c))
<1>2. /\ a.real \in Int /\ b.real \in Int /\ c.real \in Int
      /\ a.imag \in Int /\ b.imag \in Int /\ c.imag \in Int
  BY ComplexFields
<1> DEFINE ar == a.real
           ai == a.imag
           br == b.real
           bi == b.imag
           cr == c.real
           ci == c.imag
           r == ar * br - ai * bi
           s == ai * br + ar * bi
           u == br * cr - bi * ci
           v == bi * cr + br * ci
<1>3. r \in Int /\ s \in Int /\ u \in Int /\ v \in Int
      /\ ar \in Int /\ ai \in Int /\ cr \in Int /\ ci \in Int /\ br \in Int /\ bi \in Int
  BY <1>2
<1>4. /\ multiply(a, b) = [real |-> r % P, imag |-> s % P]
      /\ multiply(b, c) = [real |-> u % P, imag |-> v % P]
  BY DEF multiply
<1>5. multiply(multiply(a, b), c) =
        [real |-> ((r % P) * cr - (s % P) * ci) % P,
         imag |-> ((s % P) * cr + (r % P) * ci) % P]
  <2> HIDE DEF r, s, u, v
  <2> QED BY <1>4 DEF multiply
<1>6. multiply(a, multiply(b, c)) =
        [real |-> (ar * (u % P) - ai * (v % P)) % P,
         imag |-> (ai * (u % P) + ar * (v % P)) % P]
  <2> HIDE DEF r, s, u, v
  <2> QED BY <1>4 DEF multiply
<1> HIDE DEF ar, ai, br, bi, cr, ci
<1>7. r * cr - s * ci = u * ar - v * ai /\ s * cr + r * ci = u * ai + v * ar
  BY <1>3
<1> HIDE DEF r, s, u, v
<1>8. /\ ((r % P) * cr - (s % P) * ci) % P = (r * cr - s * ci) % P
      /\ ((s % P) * cr + (r % P) * ci) % P = (s * cr + r * ci) % P
  BY <1>3, ModCombine
<1>9. /\ ((u % P) * ar - (v % P) * ai) % P = (u * ar - v * ai) % P
      /\ ((u % P) * ai + (v % P) * ar) % P = (u * ai + v * ar) % P
  BY <1>3, ModCombine
<1>10. u % P \in Int /\ v % P \in Int
  BY <1>3, ModOf, ModulusAssumption DEF Float
<1>11. /\ ar * (u % P) = (u % P) * ar /\ ai * (v % P) = (v % P) * ai
       /\ ai * (u % P) = (u % P) * ai /\ ar * (v % P) = (v % P) * ar
  BY <1>3, <1>10
<1> QED BY <1>5, <1>6, <1>7, <1>8, <1>9, <1>11

LEMMA MultiplyDistributes ==
  ASSUME NEW a \in CkFftComplex, NEW b \in CkFftComplex, NEW c \in CkFftComplex
  PROVE  multiply(a, add(b, c)) = add(multiply(a, b), multiply(a, c))
<1>1. /\ a.real \in Int /\ b.real \in Int /\ c.real \in Int
      /\ a.imag \in Int /\ b.imag \in Int /\ c.imag \in Int
  BY ComplexFields
<1> DEFINE ar == a.real
           ai == a.imag
           br == b.real
           bi == b.imag
           cr == c.real
           ci == c.imag
           r == br + cr
           s == bi + ci
           u == ar * br - ai * bi
           v == ai * br + ar * bi
           w == ar * cr - ai * ci
           z == ai * cr + ar * ci
<1>2. /\ add(b, c) = [real |-> r % P, imag |-> s % P]
      /\ multiply(a, b) = [real |-> u % P, imag |-> v % P]
      /\ multiply(a, c) = [real |-> w % P, imag |-> z % P]
  BY DEF add, multiply
<1>3. /\ ar \in Int /\ ai \in Int /\ cr \in Int /\ ci \in Int /\ br \in Int /\ bi \in Int
      /\ r \in Int /\ s \in Int /\ u \in Int /\ v \in Int /\ w \in Int /\ z \in Int
  BY <1>1
<1>4. multiply(a, add(b, c)) = [real |-> (ar * (r % P) - ai * (s % P)) % P,
                                imag |-> (ai * (r % P) + ar * (s % P)) % P]
  <2> HIDE DEF r, s
  <2> QED BY <1>2 DEF multiply
<1>5. add(multiply(a, b), multiply(a, c)) = [real |-> ((u % P) + (w % P)) % P,
                                             imag |-> ((v % P) + (z % P)) % P]
  <2> HIDE DEF u, v, w, z
  <2> QED BY <1>2 DEF add
<1> HIDE DEF ar, ai, br, bi, cr, ci
<1>6. r * ar - s * ai = u + w /\ r * ai + s * ar = v + z
  BY <1>3
<1> HIDE DEF r, s, u, v, w, z
<1>7. r % P \in Int /\ s % P \in Int /\ w % P \in Int /\ z % P \in Int
  BY <1>3, ModOf, ModulusAssumption DEF Float
<1>8. /\ ar * (r % P) = (r % P) * ar /\ ai * (s % P) = (s % P) * ai
      /\ ai * (r % P) = (r % P) * ai /\ ar * (s % P) = (s % P) * ar
  BY <1>3, <1>7
<1>9. /\ ((r % P) * ar - (s % P) * ai) % P = (r * ar - s * ai) % P
      /\ ((r % P) * ai + (s % P) * ar) % P = (r * ai + s * ar) % P
  BY <1>3, ModCombine
<1>10. ((u % P) + (w % P)) % P = (u + w) % P
  <2>1. ((u % P) + (w % P)) % P = (u + (w % P)) % P
    BY <1>3, <1>7, ModSum
  <2>2. (u + (w % P)) % P = (u + w) % P
    BY <1>3, ModSum
  <2> QED BY <2>1, <2>2
<1>11. ((v % P) + (z % P)) % P = (v + z) % P
  <2>1. ((v % P) + (z % P)) % P = (v + (z % P)) % P
    BY <1>3, <1>7, ModSum
  <2>2. (v + (z % P)) % P = (v + z) % P
    BY <1>3, ModSum
  <2> QED BY <2>1, <2>2
<1> QED BY <1>4, <1>5, <1>6, <1>8, <1>9, <1>10, <1>11

LEMMA ConjugateMultiply ==
  ASSUME NEW a \in CkFftComplex, NEW b \in CkFftComplex
  PROVE  conjugate(multiply(a, b)) = multiply(conjugate(a), conjugate(b))
<1>1. a.real \in Int /\ b.real \in Int /\ a.imag \in Int /\ b.imag \in Int
  BY ComplexFields
<1> DEFINE ar == a.real
           ai == a.imag
           br == b.real
           bi == b.imag
           r == ar * br - ai * bi
           s == ai * br + ar * bi
           u == -ai
           v == -bi
<1>2. /\ multiply(a, b) = [real |-> r % P, imag |-> s % P]
      /\ conjugate(a) = [real |-> ar, imag |-> u % P]
      /\ conjugate(b) = [real |-> br, imag |-> v % P]
  BY DEF multiply, conjugate
<1>3. /\ ar \in Int /\ ai \in Int /\ br \in Int /\ bi \in Int
      /\ r \in Int /\ s \in Int /\ u \in Int /\ v \in Int
  BY <1>1
<1> HIDE DEF ar, ai, br, bi
<1>4. conjugate(multiply(a, b)) = [real |-> r % P, imag |-> (-(s % P)) % P]
  <2> HIDE DEF r, s
  <2> QED BY <1>2 DEF conjugate
<1>5. multiply(conjugate(a), conjugate(b)) =
        [real |-> (ar * br - (u % P) * (v % P)) % P,
         imag |-> ((u % P) * br + ar * (v % P)) % P]
  <2> HIDE DEF u, v
  <2> QED BY <1>2 DEF multiply
<1>6. u % P \in Int /\ v % P \in Int /\ s % P \in Int /\ ar * br \in Int
  BY <1>3, ModOf, ModulusAssumption DEF Float
<1>7. (-(s % P)) % P = (-s) % P
  <2>1. 0 \in Int /\ 0 - (s % P) = -(s % P) /\ 0 - s = -s
    BY <1>3, <1>6
  <2>2. (0 - (s % P)) % P = (0 - s) % P
    BY <1>3, <2>1, ModSum
  <2> QED BY <2>1, <2>2
<1>8. (ar * br - (u % P) * (v % P)) % P = r % P
  <2> DEFINE x == v % P
  <2>1. x \in Int /\ (ar * br) * 1 = ar * br /\ 1 \in Int
    BY <1>6
  <2>2. u * x \in Int /\ u * v \in Int /\ (u % P) * x \in Int
    BY <1>3, <1>6
  <2> DEFINE y == (u % P) * x
             z == u * x
             d == u * v
             e == ar * br
  <2>3. y % P = z % P
    BY <1>3, <2>1, ModSum
  <2>4. z % P = d % P
    BY <1>3, ModSum
  <2>5. e \in Int /\ y \in Int /\ d \in Int /\ e - d = r
    BY <1>3, <2>2, <1>6
  <2> HIDE DEF x, y, z, d, e
  <2>6. (e - y) % P = (e - (y % P)) % P
    BY <2>5, ModSum
  <2>7. (e - (d % P)) % P = (e - d) % P
    BY <2>5, ModSum
  <2> QED BY <2>3, <2>4, <2>5, <2>6, <2>7 DEF e, y, x
<1>9. ((u % P) * br + ar * (v % P)) % P = (-s) % P
  <2>1. ar * (v % P) = (v % P) * ar
    BY <1>3, <1>6
  <2>2. ((u % P) * br + (v % P) * ar) % P = (u * br + v * ar) % P
    BY <1>3, ModCombine
  <2>3. u * br + v * ar = -s
    BY <1>3
  <2> QED BY <2>1, <2>2, <2>3
<1> QED BY <1>4, <1>5, <1>7, <1>8, <1>9

LEMMA ConjugateTwice ==
  ASSUME NEW a \in CkFftComplex
  PROVE  conjugate(conjugate(a)) = a
<1>1. a.real \in Int /\ a.imag \in Int /\ a.imag % P = a.imag
      /\ a = [real |-> a.real, imag |-> a.imag]
  BY ComplexFields
<1> DEFINE s == -a.imag
<1>2. s \in Int /\ -s = a.imag /\ s % P \in Int
  BY <1>1, ModOf, ModulusAssumption DEF Float
<1>3. conjugate(conjugate(a)) = [real |-> a.real, imag |-> (-(s % P)) % P]
  BY DEF conjugate
<1> HIDE DEF s
<1>7. (-(s % P)) % P = (-s) % P
  <2>1. 0 \in Int /\ 0 - (s % P) = -(s % P) /\ 0 - s = -s
    BY <1>2
  <2>2. (0 - (s % P)) % P = (0 - s) % P
    BY <1>2, <2>1, ModSum
  <2> QED BY <2>1, <2>2
<1> QED BY <1>1, <1>2, <1>3, <1>7

-----------------------------------------------------------------------------
(* The angle of i steps of 2*pi/(P + 1), in the direction of a transform.   *)
Turn(i, inverse) ==
  IF inverse THEN Expi[i % (P + 1)] ELSE conjugate(Expi[i % (P + 1)])

(* The angles that the C library is asked for.                              *)
LEMMA ExpiType ==
  ASSUME NEW i \in 0..P
  PROVE  Expi[i] \in CkFftComplex
<1>1. Expi \in [0..P -> CkFftComplex]
  BY ExpiAssumption
<1> QED BY <1>1

LEMMA ExpiSum ==
  ASSUME NEW i \in 0..P, NEW j \in 0..P
  PROVE  Expi[(i + j) % (P + 1)] = multiply(Expi[i], Expi[j])
  BY ExpiAssumption, Zenon

(* Angles add up, and a whole turn is none.                                 *)
LEMMA TurnSum ==
  ASSUME NEW i \in Nat, NEW j \in Nat, NEW inverse \in BOOLEAN
  PROVE  Turn(i + j, inverse) = multiply(Turn(i, inverse), Turn(j, inverse))
<1> DEFINE N == P + 1
           x == i % N
           y == j % N
<1>1. N \in Nat \ {0} /\ i + j \in Nat
  BY ModulusAssumption
<1>2. x \in 0..(N - 1) /\ y \in 0..(N - 1) /\ i \in Int /\ j \in Int
  BY <1>1
<1>3. (x + y) % N = (i + j) % N
  <2> HIDE DEF N
  <2>1. ASSUME NEW u \in Int, NEW v \in Int
        PROVE  ((u % N) + v) % N = (u + v) % N /\ (u + (v % N)) % N = (u + v) % N
    BY <1>1, RestSum
  <2>2. y \in Int
    BY <1>1, <1>2
  <2>3. ((i % N) + y) % N = (i + y) % N
    BY <1>2, <2>1, <2>2
  <2>4. (i + (j % N)) % N = (i + j) % N
    BY <1>2, <2>1
  <2> QED BY <2>3, <2>4
<1>4. x \in 0..P /\ y \in 0..P
  BY <1>1, <1>2, ModulusAssumption
<1>5. Expi[(i + j) % N] = multiply(Expi[x], Expi[y])
  <2> HIDE DEF x, y
  <2>1. Expi[(x + y) % (P + 1)] = multiply(Expi[x], Expi[y])
    BY <1>4, ExpiSum
  <2> QED BY <1>3, <2>1
<1>6. Expi[x] \in CkFftComplex /\ Expi[y] \in CkFftComplex
  <2> HIDE DEF x, y
  <2> QED BY <1>4, ExpiType
<1>7. conjugate(multiply(Expi[x], Expi[y])) = multiply(conjugate(Expi[x]), conjugate(Expi[y]))
  <2> HIDE DEF x, y
  <2> QED BY <1>6, ConjugateMultiply
<1> QED BY <1>5, <1>7 DEF Turn

LEMMA TurnZero ==
  ASSUME NEW inverse \in BOOLEAN
  PROVE  Turn(0, inverse) = One
<1>1. 0 % (P + 1) = 0
  BY ModulusAssumption
<1>2. Expi[0] = One
  BY ExpiAssumption
<1>3. conjugate(One) = One
  <2>1. 0 % P = 0
    <3> 0 \in Float
      BY ZeroOne DEF Zero, CkFftComplex
    <3> QED BY FloatMod, Zenon
  <2>2. -0 = 0
    <3>1. \A x \in Int : -x = 0 - x
      OBVIOUS
    <3>2. 0 \in Int /\ 0 - 0 = 0
      OBVIOUS
    <3> QED BY <3>1, <3>2, Zenon
  <2> QED BY <2>1, <2>2 DEF conjugate, One
<1> QED BY <1>1, <1>2, <1>3 DEF Turn

LEMMA TurnWhole ==
  ASSUME NEW i \in Nat, NEW q \in Nat, NEW inverse \in BOOLEAN
  PROVE  Turn(i + q * (P + 1), inverse) = Turn(i, inverse)
<1>1. P + 1 \in Nat \ {0} /\ q * (P + 1) \in Nat
  BY ModulusAssumption
<1>2. (i + q * (P + 1)) % (P + 1) = i % (P + 1)
  <2> DEFINE m == P + 1
         u == i + q * m
  <2>1. m \in Nat \ {0} /\ u \in Int /\ i \in Int /\ q \in Int /\ u = i + q * m
    BY <1>1
  <2> HIDE DEF m, u
  <2>2. u % m = i % m
    BY <2>1, RestSame
  <2> QED BY <2>2 DEF m, u
<1> QED BY <1>2 DEF Turn

(* Root(j, n) is an angle of j steps of a n-th of a turn.                   *)
LEMMA RootTurn ==
  ASSUME NEW n \in Nat \ {0}, NEW s \in Nat \ {0}, n * s = P + 1,
         NEW j \in Nat, NEW inverse \in BOOLEAN
  PROVE  Root(j, n, inverse) = Turn(j * s, inverse)
<1>1. (P + 1) \div n = s
  <2>1. P + 1 = s * n + 0 /\ 0 \in 0..(n - 1) /\ s \in Nat
    BY ModulusAssumption
  <2>2. (s * n + 0) \div n = s
    BY <2>1, QuotientAndRest
  <2> QED BY <2>1, <2>2
<1>2. PICK q \in Int : j % n = j + q * n
  <2> j \in Int
    OBVIOUS
  <2> QED BY RestOf, Zenon
<1>3. j % n \in Nat
  OBVIOUS
<1> DEFINE r == j % n
           N == P + 1
<1>4. r \in Nat /\ r = j + q * n /\ N = n * s /\ N \in Nat \ {0}
  BY <1>2, <1>3, ModulusAssumption
<1> HIDE DEF r, N
<1>5. r * s = j * s + q * N /\ r * s \in Int /\ j * s \in Int
  BY <1>4
<1>6. (r * s) % N = (j * s) % N
  <2> DEFINE u == r * s
             v == j * s
  <2>1. u \in Int /\ v \in Int /\ q \in Int /\ u = v + q * N /\ N \in Nat \ {0}
    BY <1>4, <1>5
  <2> HIDE DEF u, v
  <2>2. u % N = v % N
    BY <2>1, RestSame
  <2> QED BY <2>2 DEF u, v
<1>7. Twiddle(r, n) = conjugate(Expi[(j * s) % N])
  BY <1>1, <1>6 DEF Twiddle, N
<1>8. (j * s) % N \in 0..P
  <2> DEFINE v == j * s
  <2>1. v \in Int /\ N \in Nat \ {0} /\ N - 1 = P
    BY <1>4, <1>5, ModulusAssumption DEF N
  <2> HIDE DEF v
  <2>2. v % N \in 0..(N - 1)
    BY <2>1
  <2> QED BY <2>1, <2>2 DEF v
<1>9. Expi[(j * s) % N] \in CkFftComplex
  BY <1>8, ExpiType
<1>10. conjugate(conjugate(Expi[(j * s) % N])) = Expi[(j * s) % N]
  BY <1>9, ConjugateTwice
<1> QED BY <1>7, <1>10 DEF Root, Turn, r, N

Divisor(n) == n \in Nat \ {0} /\ \E s \in Nat \ {0} : n * s = P + 1

(* The roots of unity that a transform of n elements uses, when n divides P *)
(* + 1.                                                                     *)
LEMMA RootSum ==
  ASSUME NEW n, Divisor(n), NEW i \in Nat, NEW j \in Nat, NEW inverse \in BOOLEAN
  PROVE  Root(i + j, n, inverse) = multiply(Root(i, n, inverse), Root(j, n, inverse))
<1>1. PICK s \in Nat \ {0} : n \in Nat \ {0} /\ n * s = P + 1
  BY DEF Divisor
<1>2. i + j \in Nat /\ (i + j) * s = i * s + j * s /\ i * s \in Nat /\ j * s \in Nat
  BY <1>1
<1>3. Root(i + j, n, inverse) = Turn((i + j) * s, inverse)
  BY <1>1, <1>2, RootTurn
<1>4. Root(i, n, inverse) = Turn(i * s, inverse) /\ Root(j, n, inverse) = Turn(j * s, inverse)
  BY <1>1, RootTurn
<1> QED BY <1>2, <1>3, <1>4, TurnSum

LEMMA RootZero ==
  ASSUME NEW n, Divisor(n), NEW inverse \in BOOLEAN
  PROVE  Root(0, n, inverse) = One
<1>1. PICK s \in Nat \ {0} : n \in Nat \ {0} /\ n * s = P + 1
  BY DEF Divisor
<1>2. Root(0, n, inverse) = Turn(0 * s, inverse)
  BY <1>1, RootTurn
<1> QED BY <1>2, TurnZero

LEMMA RootPeriod ==
  ASSUME NEW n, Divisor(n), NEW i \in Nat, NEW q \in Nat, NEW inverse \in BOOLEAN
  PROVE  Root(i + q * n, n, inverse) = Root(i, n, inverse)
<1>1. PICK s \in Nat \ {0} : n \in Nat \ {0} /\ n * s = P + 1
  BY DEF Divisor
<1>2. q * n \in Nat /\ i + q * n \in Nat /\ i * s \in Nat
  BY <1>1
<1>3. (i + q * n) * s = i * s + q * (P + 1)
  <2> (i + q * n) * s = i * s + q * (n * s)
    BY <1>1
  <2> QED BY <1>1
<1>4. Root(i + q * n, n, inverse) = Turn((i + q * n) * s, inverse)
  BY <1>1, <1>2, RootTurn
<1>5. Root(i, n, inverse) = Turn(i * s, inverse)
  BY <1>1, RootTurn
<1> QED BY <1>2, <1>3, <1>4, <1>5, TurnWhole

(* j steps of an n-th of a turn are j * r steps of an (n * r)-th.           *)
LEMMA RootScale ==
  ASSUME NEW n \in Nat \ {0}, NEW r \in Nat \ {0}, Divisor(n * r),
         NEW j \in Nat, NEW inverse \in BOOLEAN
  PROVE  Root(j * r, n * r, inverse) = Root(j, n, inverse) /\ Divisor(n)
<1>1. PICK s \in Nat \ {0} : (n * r) \in Nat \ {0} /\ (n * r) * s = P + 1
  BY DEF Divisor
<1>2. r * s \in Nat \ {0} /\ n * (r * s) = P + 1 /\ j * r \in Nat /\ (j * r) * s = j * (r * s)
  BY <1>1
<1>3. ASSUME NEW m \in Nat \ {0}, NEW u \in Nat \ {0}, m * u = P + 1, NEW i \in Nat
      PROVE  Root(i, m, inverse) = Turn(i * u, inverse)
  BY <1>3, RootTurn
<1>4. /\ Root(j * r, n * r, inverse) = Turn((j * r) * s, inverse)
      /\ Root(j, n, inverse) = Turn(j * (r * s), inverse)
  <2>1. Root(j * r, n * r, inverse) = Turn((j * r) * s, inverse)
    BY <1>1, <1>2, <1>3, Zenon
  <2>2. Root(j, n, inverse) = Turn(j * (r * s), inverse)
    BY <1>2, <1>3, Zenon
  <2> QED BY <2>1, <2>2
<1>5. Divisor(n)
  BY <1>2 DEF Divisor
<1> QED BY <1>2, <1>4, <1>5

LEMMA RootType ==
  ASSUME NEW i \in Nat, NEW n \in Nat \ {0}, NEW inverse \in BOOLEAN
  PROVE  Root(i, n, inverse) \in CkFftComplex
<1>1. i % n \in Nat
  OBVIOUS
<1>2. Twiddle(i % n, n) \in CkFftComplex
  BY <1>1, TwiddleType
<1> QED BY <1>2, ComplexOps DEF Root

(* The quarter turn. *)
LEMMA RootQuarter ==
  ASSUME NEW inverse \in BOOLEAN
  PROVE  /\ Divisor(4)
         /\ Root(1, 4, inverse) = IF inverse THEN [real |-> 0, imag |-> 1 % P]
                                             ELSE [real |-> 0, imag |-> (-(1 % P)) % P]
<1>1. PICK q \in 0..P : 4 * q = P + 1 /\ Expi[q] = [real |-> 0, imag |-> 1 % P]
  BY ExpiAssumption
<1>2. q \in Nat \ {0} /\ q < P + 1 /\ 1 * q = q /\ 4 \in Nat \ {0} /\ 1 \in Nat
  BY <1>1, ModulusAssumption
<1>3. Root(1, 4, inverse) = Turn(1 * q, inverse)
  BY <1>1, <1>2, RootTurn
<1>4. q % (P + 1) = q
  BY <1>2, ModulusAssumption
<1>5. Turn(q, inverse) = IF inverse THEN Expi[q] ELSE conjugate(Expi[q])
  BY <1>4 DEF Turn
<1> QED BY <1>1, <1>2, <1>3, <1>5 DEF conjugate, Divisor

-----------------------------------------------------------------------------
IsPartial(f, y, n) ==
  f = [j \in 0..n |-> IF j = 0 THEN Zero ELSE add(f[j - 1], y[j - 1])]

(* The partial sums of SumOf exist for every length, so SumOf is their      *)
(* last.                                                                    *)
LEMMA PartialExists ==
  ASSUME NEW y, NEW n \in Nat
  PROVE  \E f : IsPartial(f, y, n)
<1> DEFINE S == {m \in Nat : \E f : IsPartial(f, y, m)}
<1>1. 0 \in S
  <2> DEFINE f == [j \in 0..0 |-> Zero]
  <2>1. IsPartial(f, y, 0)
    BY DEF IsPartial
  <2> QED BY <2>1
<1>2. ASSUME NEW m \in S PROVE m + 1 \in S
  <2>1. PICK f : IsPartial(f, y, m)
    BY <1>2
  <2> DEFINE g == [j \in 0..(m + 1) |-> IF j = m + 1 THEN add(f[m], y[m]) ELSE f[j]]
  <2>0. m \in Nat
    OBVIOUS
  <2>4. \A j \in 0..m : f[j] = IF j = 0 THEN Zero ELSE add(f[j - 1], y[j - 1])
    BY <2>1 DEF IsPartial
  <2>2. ASSUME NEW j \in 0..(m + 1)
        PROVE  g[j] = IF j = 0 THEN Zero ELSE add(g[j - 1], y[j - 1])
    <3>1. CASE j = m + 1
      BY <2>0, <3>1
    <3>2. CASE j = 0
      BY <2>0, <3>2, <2>4
    <3>3. CASE j # m + 1 /\ j # 0
      <4>1. j \in 0..m /\ j - 1 \in 0..m /\ j - 1 # m + 1
        BY <2>0, <3>3
      <4>2. g[j] = f[j] /\ g[j - 1] = f[j - 1]
        BY <2>0, <3>3, <4>1
      <4> HIDE DEF g
      <4> QED BY <3>3, <2>4, <4>1, <4>2
    <3> QED BY <3>1, <3>2, <3>3
  <2>3. IsPartial(g, y, m + 1)
    <3> DEFINE e(j) == IF j = 0 THEN Zero ELSE add(g[j - 1], y[j - 1])
    <3>1. \A j \in 0..(m + 1) : g[j] = e(j)
      BY <2>2
    <3>2. g = [j \in 0..(m + 1) |-> g[j]]
      OBVIOUS
    <3>3. g = [j \in 0..(m + 1) |-> e(j)]
      <4> HIDE DEF g, e
      <4> QED BY <3>1, <3>2
    <3> QED BY <3>3 DEF IsPartial
  <2> QED BY <2>0, <2>3
<1>3. S = Nat
  <2>1. S \in SUBSET Nat
    OBVIOUS
  <2> HIDE DEF S
  <2> QED BY <1>1, <1>2, <2>1, Induction
<1> QED BY <1>3

LEMMA SumOfPartial ==
  ASSUME NEW y, NEW n \in Nat
  PROVE  \E f : IsPartial(f, y, n) /\ SumOf(y, n) = f[n]
<1> DEFINE f == CHOOSE g : IsPartial(g, y, n)
<1>1. IsPartial(f, y, n)
  BY PartialExists
<1>2. SumOf(y, n) = f[n]
  BY DEF SumOf, IsPartial
<1> QED BY <1>1, <1>2

(* Partial sums of the same terms are the same.                             *)
LEMMA PartialsAgree ==
  ASSUME NEW y, NEW z, NEW f, NEW g, NEW m \in Nat, NEW n \in Nat,
         IsPartial(f, y, m), IsPartial(g, z, n),
         NEW l \in Nat, l <= m, l <= n, \A j \in 0..(l - 1) : y[j] = z[j]
  PROVE  f[l] = g[l]
<1> DEFINE S == {j \in Nat : j <= l => f[j] = g[j]}
<1>1. \A j \in 0..m : f[j] = IF j = 0 THEN Zero ELSE add(f[j - 1], y[j - 1])
  BY DEF IsPartial
<1>2. \A j \in 0..n : g[j] = IF j = 0 THEN Zero ELSE add(g[j - 1], z[j - 1])
  BY DEF IsPartial
<1>3. 0 \in S
  BY <1>1, <1>2
<1>4. ASSUME NEW j \in S PROVE j + 1 \in S
  <2>1. j \in Nat /\ j + 1 \in Nat
    OBVIOUS
  <2>2. ASSUME j + 1 <= l PROVE f[j + 1] = g[j + 1]
    <3>1. j + 1 \in 0..m /\ j + 1 \in 0..n /\ j + 1 # 0 /\ (j + 1) - 1 = j /\ j <= l
          /\ j \in 0..(l - 1)
      BY <2>1, <2>2
    <3>2. f[j] = g[j] /\ y[j] = z[j]
      BY <3>1
    <3>3. f[j + 1] = add(f[j], y[j]) /\ g[j + 1] = add(g[j], z[j])
      BY <1>1, <1>2, <3>1
    <3> QED BY <3>2, <3>3
  <2> QED BY <2>1, <2>2
<1>5. S = Nat
  <2>1. S \in SUBSET Nat
    OBVIOUS
  <2> HIDE DEF S
  <2> QED BY <1>3, <1>4, <2>1, Induction
<1> QED BY <1>5

(* What SumOf computes: the sum, term by term.                              *)
LEMMA SumOfZero ==
  ASSUME NEW y
  PROVE  SumOf(y, 0) = Zero
<1>1. PICK f : IsPartial(f, y, 0) /\ SumOf(y, 0) = f[0]
  BY SumOfPartial
<1>2. f[0] = Zero
  BY <1>1 DEF IsPartial
<1> QED BY <1>1, <1>2

LEMMA SumOfNext ==
  ASSUME NEW y, NEW n \in Nat
  PROVE  SumOf(y, n + 1) = add(SumOf(y, n), y[n])
<1>1. PICK f : IsPartial(f, y, n) /\ SumOf(y, n) = f[n]
  BY SumOfPartial
<1>2. n + 1 \in Nat
  OBVIOUS
<1>3. PICK g : IsPartial(g, y, n + 1) /\ SumOf(y, n + 1) = g[n + 1]
  BY <1>2, SumOfPartial
<1>4. g[n + 1] = add(g[n], y[n])
  <2>1. \A j \in 0..(n + 1) : g[j] = IF j = 0 THEN Zero ELSE add(g[j - 1], y[j - 1])
    BY <1>3 DEF IsPartial
  <2>2. n + 1 \in 0..(n + 1) /\ n + 1 # 0 /\ (n + 1) - 1 = n
    OBVIOUS
  <2> QED BY <2>1, <2>2
<1>5. f[n] = g[n]
  <2> n <= n + 1 /\ n <= n
    OBVIOUS
  <2> QED BY <1>1, <1>2, <1>3, PartialsAgree
<1> QED BY <1>1, <1>3, <1>4, <1>5

(* A sum depends on its terms only.                                         *)
LEMMA SumOfSame ==
  ASSUME NEW y, NEW z, NEW n \in Nat, \A j \in 0..(n - 1) : y[j] = z[j]
  PROVE  SumOf(y, n) = SumOf(z, n)
<1> DEFINE S == {i \in Nat : i <= n => SumOf(y, i) = SumOf(z, i)}
<1>1. 0 \in S
  BY SumOfZero
<1>2. ASSUME NEW i \in S PROVE i + 1 \in S
  <2>1. ASSUME i + 1 <= n PROVE SumOf(y, i + 1) = SumOf(z, i + 1)
    <3>1. i \in Nat /\ i <= n /\ i \in 0..(n - 1)
      BY <2>1
    <3>2. SumOf(y, i) = SumOf(z, i) /\ y[i] = z[i]
      BY <3>1
    <3>3. SumOf(y, i + 1) = add(SumOf(y, i), y[i]) /\ SumOf(z, i + 1) = add(SumOf(z, i), z[i])
      BY <3>1, SumOfNext
    <3> QED BY <3>2, <3>3
  <2> QED BY <2>1
<1>3. S = Nat
  <2>1. S \in SUBSET Nat
    OBVIOUS
  <2> HIDE DEF S
  <2> QED BY <1>1, <1>2, <2>1, Induction
<1> QED BY <1>3

LEMMA SumOfType ==
  ASSUME NEW y, NEW n \in Nat, \A j \in 0..(n - 1) : y[j] \in CkFftComplex
  PROVE  \A i \in 0..n : SumOf(y, i) \in CkFftComplex
<1> DEFINE S == {i \in Nat : i <= n => SumOf(y, i) \in CkFftComplex}
<1>1. 0 \in S
  BY SumOfZero, ZeroOne
<1>2. ASSUME NEW i \in S PROVE i + 1 \in S
  <2>1. ASSUME i + 1 <= n PROVE SumOf(y, i + 1) \in CkFftComplex
    <3>1. i \in Nat /\ i <= n /\ i \in 0..(n - 1)
      BY <2>1
    <3>2. SumOf(y, i) \in CkFftComplex /\ y[i] \in CkFftComplex
      BY <3>1
    <3>3. SumOf(y, i + 1) = add(SumOf(y, i), y[i])
      BY <3>1, SumOfNext
    <3> QED BY <3>2, <3>3, ComplexOps
  <2> QED BY <2>1
<1>3. S = Nat
  <2>1. S \in SUBSET Nat
    OBVIOUS
  <2> HIDE DEF S
  <2> QED BY <1>1, <1>2, <2>1, Induction
<1> QED BY <1>3

LEMMA MultiplyZero ==
  ASSUME NEW c \in CkFftComplex
  PROVE  multiply(c, Zero) = Zero
<1>1. c.real \in Int /\ c.imag \in Int
  BY ComplexFields
<1>2. c.real * 0 - c.imag * 0 = 0 /\ c.imag * 0 + c.real * 0 = 0
  BY <1>1
<1>3. 0 % P = 0
  <2> 0 \in Float
    BY ZeroOne DEF Zero, CkFftComplex
  <2> QED BY FloatMod, Zenon
<1> QED BY <1>2, <1>3 DEF multiply, Zero

(* A common factor of all terms.                                            *)
LEMMA SumOfMultiply ==
  ASSUME NEW c \in CkFftComplex, NEW y, NEW z, NEW n \in Nat,
         \A j \in 0..(n - 1) : y[j] \in CkFftComplex /\ z[j] = multiply(c, y[j])
  PROVE  SumOf(z, n) = multiply(c, SumOf(y, n))
<1> DEFINE S == {i \in Nat : i <= n => SumOf(z, i) = multiply(c, SumOf(y, i))}
<1>1. 0 \in S
  BY SumOfZero, MultiplyZero
<1>2. ASSUME NEW i \in S PROVE i + 1 \in S
  <2>1. ASSUME i + 1 <= n PROVE SumOf(z, i + 1) = multiply(c, SumOf(y, i + 1))
    <3>1. i \in Nat /\ i <= n /\ i \in 0..(n - 1) /\ i \in 0..n
      BY <2>1
    <3>2. SumOf(z, i) = multiply(c, SumOf(y, i)) /\ y[i] \in CkFftComplex
          /\ z[i] = multiply(c, y[i])
      BY <3>1
    <3>3. SumOf(y, i + 1) = add(SumOf(y, i), y[i]) /\ SumOf(z, i + 1) = add(SumOf(z, i), z[i])
      BY <3>1, SumOfNext
    <3>4. SumOf(y, i) \in CkFftComplex
      BY <3>1, SumOfType
    <3>5. multiply(c, add(SumOf(y, i), y[i])) = add(multiply(c, SumOf(y, i)), multiply(c, y[i]))
      BY <3>2, <3>4, MultiplyDistributes
    <3> QED BY <3>2, <3>3, <3>5
  <2> QED BY <2>1
<1>3. S = Nat
  <2>1. S \in SUBSET Nat
    OBVIOUS
  <2> HIDE DEF S
  <2> QED BY <1>1, <1>2, <2>1, Induction
<1> QED BY <1>3

(* The arithmetic of a sum of four.                                         *)
LEMMA AddFour ==
  ASSUME NEW a \in CkFftComplex, NEW b \in CkFftComplex,
         NEW c \in CkFftComplex, NEW d \in CkFftComplex
  PROVE  add(add(a, b), add(c, d)) = add(add(a, c), add(b, d))
<1>1. add(a, b) \in CkFftComplex /\ add(c, d) \in CkFftComplex /\ add(b, d) \in CkFftComplex
  BY ComplexOps
<1>2. add(add(a, b), add(c, d)) = add(a, add(b, add(c, d)))
  <2> DEFINE e == add(c, d)
  <2>1. e \in CkFftComplex
    BY <1>1
  <2> HIDE DEF e
  <2>2. add(add(a, b), e) = add(a, add(b, e))
    BY <2>1, AddAssociates
  <2> QED BY <2>2 DEF e
<1>3. add(b, add(c, d)) = add(add(b, c), d)
  BY AddAssociates
<1>4. add(b, c) = add(c, b)
  BY AddCommutes
<1>5. add(add(c, b), d) = add(c, add(b, d))
  BY AddAssociates
<1>6. add(a, add(c, add(b, d))) = add(add(a, c), add(b, d))
  <2> DEFINE e == add(b, d)
  <2>1. e \in CkFftComplex
    BY <1>1
  <2> HIDE DEF e
  <2>2. add(add(a, c), e) = add(a, add(c, e))
    BY <2>1, AddAssociates
  <2> QED BY <2>2 DEF e
<1> QED BY <1>2, <1>3, <1>4, <1>5, <1>6

(* The four sums, in the order of a butterfly.                              *)
Quad(a, b, c, d) == add(add(a, c), add(b, d))

(* A sum over every fourth element, four times.                             *)
LEMMA SumOfQuarters ==
  ASSUME NEW n \in Nat, NEW y, \A j \in 0..(4 * n - 1) : y[j] \in CkFftComplex,
         NEW z, \A q \in 0..3, j \in 0..(n - 1) : z[q][j] = y[4 * j + q]
  PROVE  SumOf(y, 4 * n) = Quad(SumOf(z[0], n), SumOf(z[1], n), SumOf(z[2], n), SumOf(z[3], n))
<1> DEFINE S == {i \in Nat : i <= n =>
                   SumOf(y, 4 * i) = Quad(SumOf(z[0], i), SumOf(z[1], i),
                                          SumOf(z[2], i), SumOf(z[3], i))}
<1>1. 0 \in S
  <2>1. 4 * 0 = 0 /\ 0 \in Nat
    OBVIOUS
  <2>2. \A x : SumOf(x, 0) = Zero
    BY SumOfZero
  <2>3. Quad(Zero, Zero, Zero, Zero) = Zero
    BY AddZero, ZeroOne DEF Quad
  <2> QED BY <2>1, <2>2, <2>3
<1>2. ASSUME NEW q \in 0..3, NEW i \in 0..n PROVE SumOf(z[q], i) \in CkFftComplex
  <2> DEFINE x == z[q]
  <2>1. \A j \in 0..(n - 1) : x[j] \in CkFftComplex
    <3> TAKE j \in 0..(n - 1)
    <3> x[j] = y[4 * j + q] /\ 4 * j + q \in 0..(4 * n - 1)
      OBVIOUS
    <3> QED OBVIOUS
  <2> HIDE DEF x
  <2>2. SumOf(x, i) \in CkFftComplex
    BY <2>1, SumOfType
  <2> QED BY <2>2 DEF x
<1>3. ASSUME NEW i \in S PROVE i + 1 \in S
  <2>1. ASSUME i + 1 <= n
        PROVE  SumOf(y, 4 * (i + 1)) = Quad(SumOf(z[0], i + 1), SumOf(z[1], i + 1),
                                            SumOf(z[2], i + 1), SumOf(z[3], i + 1))
    <3>1. i \in Nat /\ i <= n /\ i \in 0..(n - 1) /\ i \in 0..n /\ 4 * i \in Nat
      BY <2>1
    <3>2. SumOf(y, 4 * i) = Quad(SumOf(z[0], i), SumOf(z[1], i), SumOf(z[2], i), SumOf(z[3], i))
      BY <3>1
    <3> DEFINE Y(q) == y[4 * i + q]
               m == 4 * i
    <3>3. \A q \in 0..3 : SumOf(z[q], i + 1) = add(SumOf(z[q], i), Y(q)) /\ Y(q) \in CkFftComplex
      <4> TAKE q \in 0..3
      <4>1. z[q][i] = y[4 * i + q] /\ 4 * i + q \in 0..(4 * n - 1)
        BY <3>1
      <4> QED BY <3>1, <4>1, SumOfNext
    <3>4. /\ Y(0) = y[m] /\ Y(1) = y[m + 1] /\ Y(2) = y[m + 2] /\ Y(3) = y[m + 3]
      BY <3>1
    <3>5. /\ m \in Nat /\ m + 1 \in Nat /\ m + 2 \in Nat /\ m + 3 \in Nat
          /\ (m + 1) + 1 = m + 2 /\ (m + 2) + 1 = m + 3 /\ (m + 3) + 1 = 4 * (i + 1)
      BY <3>1
    <3>6. 0 \in 0..3 /\ 1 \in 0..3 /\ 2 \in 0..3 /\ 3 \in 0..3
      OBVIOUS
    <3> HIDE DEF Y, m
    <3>7. /\ SumOf(y, m + 1) = add(SumOf(y, m), y[m])
          /\ SumOf(y, m + 2) = add(SumOf(y, m + 1), y[m + 1])
          /\ SumOf(y, m + 3) = add(SumOf(y, m + 2), y[m + 2])
          /\ SumOf(y, 4 * (i + 1)) = add(SumOf(y, m + 3), y[m + 3])
      <4>1. \A l \in Nat : SumOf(y, l + 1) = add(SumOf(y, l), y[l])
        BY SumOfNext
      <4> QED BY <3>5, <4>1
    <3>8. SumOf(y, 4 * (i + 1)) = add(add(add(add(SumOf(y, m), Y(0)), Y(1)), Y(2)), Y(3))
      BY <3>4, <3>7
    <3>9. /\ SumOf(z[0], i) \in CkFftComplex /\ SumOf(z[1], i) \in CkFftComplex
          /\ SumOf(z[2], i) \in CkFftComplex /\ SumOf(z[3], i) \in CkFftComplex
      BY <1>2, <3>1, <3>6
    <3>10. Y(0) \in CkFftComplex /\ Y(1) \in CkFftComplex /\ Y(2) \in CkFftComplex /\ Y(3) \in CkFftComplex
      BY <3>3, <3>6
    <3>11. /\ SumOf(z[0], i + 1) = add(SumOf(z[0], i), Y(0))
           /\ SumOf(z[1], i + 1) = add(SumOf(z[1], i), Y(1))
           /\ SumOf(z[2], i + 1) = add(SumOf(z[2], i), Y(2))
           /\ SumOf(z[3], i + 1) = add(SumOf(z[3], i), Y(3))
      BY <3>3, <3>6
    <3>12. Quad(add(SumOf(z[0], i), Y(0)), add(SumOf(z[1], i), Y(1)),
                add(SumOf(z[2], i), Y(2)), add(SumOf(z[3], i), Y(3))) =
             add(add(add(add(Quad(SumOf(z[0], i), SumOf(z[1], i), SumOf(z[2], i), SumOf(z[3], i)),
                             Y(0)), Y(1)), Y(2)), Y(3))
      <4> DEFINE s0 == SumOf(z[0], i)
                 s1 == SumOf(z[1], i)
                 s2 == SumOf(z[2], i)
                 s3 == SumOf(z[3], i)
                 y0 == Y(0)
                 y1 == Y(1)
                 y2 == Y(2)
                 y3 == Y(3)
      <4>1. /\ s0 \in CkFftComplex /\ s1 \in CkFftComplex /\ s2 \in CkFftComplex
            /\ s3 \in CkFftComplex /\ y0 \in CkFftComplex /\ y1 \in CkFftComplex
            /\ y2 \in CkFftComplex /\ y3 \in CkFftComplex
        BY <3>9, <3>10
      <4> HIDE DEF s0, s1, s2, s3, y0, y1, y2, y3
      <4>2. Quad(add(s0, y0), add(s1, y1), add(s2, y2), add(s3, y3)) =
              add(add(add(add(Quad(s0, s1, s2, s3), y0), y1), y2), y3)
        <5> DEFINE w == add(s0, s2)
                   k == add(s1, s3)
                   v == add(y0, y2)
                   o == add(y1, y3)
        <5>1. w \in CkFftComplex /\ k \in CkFftComplex /\ v \in CkFftComplex /\ o \in CkFftComplex
              /\ add(y0, y1) \in CkFftComplex /\ add(y2, y3) \in CkFftComplex
              /\ add(w, k) \in CkFftComplex
          BY <4>1, ComplexOps
        <5>2. add(add(s0, y0), add(s2, y2)) = add(w, v) /\ add(add(s1, y1), add(s3, y3)) = add(k, o)
          BY <4>1, AddFour
        <5>3. add(v, o) = add(add(y0, y1), add(y2, y3))
          BY <4>1, AddFour
        <5> HIDE DEF w, k, v, o
        <5>4. add(add(w, v), add(k, o)) = add(add(w, k), add(v, o))
          BY <5>1, AddFour
        <5> DEFINE u == add(w, k)
        <5>5. u \in CkFftComplex
          BY <5>1
        <5> HIDE DEF u
        <5>6. add(u, add(add(y0, y1), add(y2, y3))) = add(add(u, add(y0, y1)), add(y2, y3))
          BY <4>1, <5>1, <5>5, AddAssociates
        <5>7. add(u, add(y0, y1)) = add(add(u, y0), y1) /\ add(add(u, y0), y1) \in CkFftComplex
          <6>1. add(u, y0) \in CkFftComplex
            BY <4>1, <5>5, ComplexOps
          <6>2. add(u, add(y0, y1)) = add(add(u, y0), y1)
            BY <4>1, <5>5, AddAssociates
          <6>3. add(add(u, y0), y1) \in CkFftComplex
            BY <4>1, <6>1, ComplexOps
          <6> QED BY <6>2, <6>3
        <5>8. add(add(add(u, y0), y1), add(y2, y3)) = add(add(add(add(u, y0), y1), y2), y3)
          BY <4>1, <5>7, AddAssociates
        <5> QED BY <5>2, <5>3, <5>4, <5>6, <5>7, <5>8 DEF Quad, w, k, u
      <4> QED BY <4>2 DEF s0, s1, s2, s3, y0, y1, y2, y3
    <3> QED BY <3>2, <3>8, <3>11, <3>12 DEF m
  <2> QED BY <2>1
<1>4. S = Nat
  <2>1. S \in SUBSET Nat
    OBVIOUS
  <2> HIDE DEF S
  <2> QED BY <1>1, <1>3, <2>1, Induction
<1> QED BY <1>4

(* A function that starts at zero and grows by the terms is the sum.        *)
PartialSums(f, y, n) ==
  f[0] = Zero /\ \A i \in 0..(n - 1) : f[i + 1] = add(f[i], y[i])

LEMMA SumOfIs ==
  ASSUME NEW y, NEW f, NEW n \in Nat, PartialSums(f, y, n)
  PROVE  SumOf(y, n) = f[n]
<1>0. f[0] = Zero /\ \A i \in 0..(n - 1) : f[i + 1] = add(f[i], y[i])
  BY DEF PartialSums
<1> DEFINE S == {i \in Nat : i <= n => SumOf(y, i) = f[i]}
<1>1. 0 \in S
  BY <1>0, SumOfZero
<1>2. ASSUME NEW i \in S PROVE i + 1 \in S
  <2>1. ASSUME i + 1 <= n PROVE SumOf(y, i + 1) = f[i + 1]
    <3>1. i \in Nat /\ i <= n /\ i \in 0..(n - 1)
      BY <2>1
    <3> QED BY <1>0, <3>1, SumOfNext
  <2> QED BY <2>1
<1>3. S = Nat
  <2>1. S \in SUBSET Nat
    OBVIOUS
  <2> HIDE DEF S
  <2> QED BY <1>1, <1>2, <2>1, Induction
<1> QED BY <1>3

(* The sum of sums.                                                         *)
LEMMA SumOfAdd ==
  ASSUME NEW x, NEW y, NEW z, NEW n \in Nat,
         \A j \in 0..(n - 1) :
           x[j] \in CkFftComplex /\ y[j] \in CkFftComplex /\ z[j] = add(x[j], y[j])
  PROVE  SumOf(z, n) = add(SumOf(x, n), SumOf(y, n))
<1> DEFINE f == [i \in 0..n |-> add(SumOf(x, i), SumOf(y, i))]
<1>1. f[0] = Zero
  <2>1. 0 \in 0..n /\ SumOf(x, 0) = Zero /\ SumOf(y, 0) = Zero
    BY SumOfZero
  <2> QED BY <2>1, AddZero, ZeroOne
<1>2. ASSUME NEW i \in 0..(n - 1) PROVE f[i + 1] = add(f[i], z[i])
  <2>1. i \in Nat /\ i \in 0..n /\ i + 1 \in 0..n
    OBVIOUS
  <2>2. SumOf(x, i + 1) = add(SumOf(x, i), x[i]) /\ SumOf(y, i + 1) = add(SumOf(y, i), y[i])
    BY <2>1, SumOfNext
  <2>3. SumOf(x, i) \in CkFftComplex /\ SumOf(y, i) \in CkFftComplex
    BY <2>1, SumOfType
  <2> DEFINE s == SumOf(x, i)
             u == SumOf(y, i)
  <2>4. f[i + 1] = add(add(s, x[i]), add(u, y[i])) /\ f[i] = add(s, u)
    BY <2>1, <2>2
  <2>5. s \in CkFftComplex /\ u \in CkFftComplex
    BY <2>3
  <2> HIDE DEF f, s, u
  <2> QED BY <2>4, <2>5, AddFour
<1>3. n \in 0..n
  OBVIOUS
<1>4. f[n] = add(SumOf(x, n), SumOf(y, n))
  BY <1>3
<1> HIDE DEF f
<1>5. PartialSums(f, z, n)
  BY <1>1, <1>2 DEF PartialSums
<1>6. SumOf(z, n) = f[n]
  BY <1>5, SumOfIs
<1> QED BY <1>4, <1>6

LEMMA ConjugateAdd ==
  ASSUME NEW a \in CkFftComplex, NEW b \in CkFftComplex
  PROVE  conjugate(add(a, b)) = add(conjugate(a), conjugate(b))
<1>1. a.real \in Int /\ a.imag \in Int /\ b.real \in Int /\ b.imag \in Int
  BY ComplexFields
<1>2. ASSUME NEW x \in Int, NEW y \in Int
      PROVE  (-((x + y) % P)) % P = (((-x) % P) + ((-y) % P)) % P
  <2> DEFINE u == -x
             v == -y
             s == x + y
  <2>1. u \in Int /\ v \in Int /\ s \in Int /\ 0 - s = u + v /\ 0 \in Int
    OBVIOUS
  <2> HIDE DEF u, v, s
  <2>2. s % P \in Int /\ u % P \in Int /\ v % P \in Int
    BY <2>1, ModOf, ModulusAssumption DEF Float
  <2>3. -(s % P) = 0 - (s % P)
    BY <2>2
  <2>4. (0 - (s % P)) % P = (0 - s) % P
    BY <2>1, ModSum
  <2>5. ((u % P) + (v % P)) % P = (u + (v % P)) % P /\ (u + (v % P)) % P = (u + v) % P
    BY <2>1, <2>2, ModSum
  <2> QED BY <2>1, <2>3, <2>4, <2>5 DEF u, v, s
<1> QED BY <1>1, <1>2 DEF add, conjugate

(* The conjugate of a sum.                                                  *)
LEMMA SumOfConjugate ==
  ASSUME NEW y, NEW z, NEW n \in Nat,
         \A j \in 0..(n - 1) : y[j] \in CkFftComplex /\ z[j] = conjugate(y[j])
  PROVE  SumOf(z, n) = conjugate(SumOf(y, n))
<1> DEFINE f == [i \in 0..n |-> conjugate(SumOf(y, i))]
<1>1. f[0] = Zero
  <2>1. 0 \in 0..n /\ SumOf(y, 0) = Zero
    BY SumOfZero
  <2>3. Zero.real = 0 /\ Zero.imag = 0
    BY DEF Zero
  <2>4. conjugate(Zero) = [real |-> Zero.real, imag |-> (-Zero.imag) % P]
    BY DEF conjugate
  <2>5. \A x \in Int : -x = 0 - x
    OBVIOUS
  <2>6. -Zero.imag = 0
    <3>1. 0 \in Int /\ 0 - 0 = 0
      OBVIOUS
    <3>2. -0 = 0 - 0
      BY <2>5, <3>1
    <3> QED BY <2>3, <3>1, <3>2
  <2>7. 0 % P = 0
    <3>1. 0 \in Float
      BY ZeroOne DEF Zero, CkFftComplex
    <3> QED BY <3>1, FloatMod
  <2>8. conjugate(Zero) = Zero
    BY <2>3, <2>4, <2>6, <2>7 DEF Zero
  <2> QED BY <2>1, <2>8
<1>2. ASSUME NEW i \in 0..(n - 1) PROVE f[i + 1] = add(f[i], z[i])
  <2>1. i \in Nat /\ i \in 0..n /\ i + 1 \in 0..n
    OBVIOUS
  <2>2. SumOf(y, i + 1) = add(SumOf(y, i), y[i]) /\ SumOf(y, i) \in CkFftComplex
    BY <2>1, SumOfNext, SumOfType
  <2>3. f[i + 1] = conjugate(add(SumOf(y, i), y[i])) /\ f[i] = conjugate(SumOf(y, i))
    BY <2>1, <2>2
  <2> HIDE DEF f
  <2> QED BY <2>2, <2>3, ConjugateAdd
<1>3. f[n] = conjugate(SumOf(y, n))
  OBVIOUS
<1> HIDE DEF f
<1>4. PartialSums(f, z, n)
  BY <1>1, <1>2 DEF PartialSums
<1>5. SumOf(z, n) = f[n]
  BY <1>4, SumOfIs
<1> QED BY <1>3, <1>5

(* A sum over the even and one over the odd elements.                       *)
LEMMA SumOfHalves ==
  ASSUME NEW n \in Nat, NEW y, \A j \in 0..(2 * n - 1) : y[j] \in CkFftComplex,
         NEW e, NEW o, \A j \in 0..(n - 1) : e[j] = y[2 * j] /\ o[j] = y[2 * j + 1]
  PROVE  SumOf(y, 2 * n) = add(SumOf(e, n), SumOf(o, n))
<1> DEFINE z == [j \in 0..(n - 1) |-> add(e[j], o[j])]
           f == [i \in 0..n |-> SumOf(y, 2 * i)]
<1>1. ASSUME NEW i \in 0..(n - 1)
      PROVE  /\ 2 * i \in 0..(2 * n - 1) /\ 2 * i + 1 \in 0..(2 * n - 1)
             /\ e[i] \in CkFftComplex /\ o[i] \in CkFftComplex
  <2>1. 2 * i \in 0..(2 * n - 1) /\ 2 * i + 1 \in 0..(2 * n - 1)
    OBVIOUS
  <2> QED BY <2>1
<1>2. f[0] = Zero
  <2>1. 0 \in 0..n /\ 2 * 0 = 0
    OBVIOUS
  <2> QED BY <2>1, SumOfZero
<1>3. ASSUME NEW i \in 0..(n - 1) PROVE f[i + 1] = add(f[i], z[i])
  <2>1. i \in 0..n /\ i + 1 \in 0..n /\ 2 * i \in Nat /\ 2 * i + 1 \in Nat
        /\ 2 * (i + 1) = (2 * i + 1) + 1
    OBVIOUS
  <2>2. f[i + 1] = SumOf(y, (2 * i + 1) + 1) /\ f[i] = SumOf(y, 2 * i) /\ z[i] = add(e[i], o[i])
    BY <2>1
  <2> DEFINE m == 2 * i
             s == SumOf(y, m)
  <2>3. m \in Nat /\ m + 1 \in Nat /\ m \in 0..(2 * n)
    BY <2>1
  <2>4. SumOf(y, (m + 1) + 1) = add(SumOf(y, m + 1), y[m + 1]) /\ SumOf(y, m + 1) = add(SumOf(y, m), y[m])
    <3> HIDE DEF m
    <3> QED BY <2>3, SumOfNext
  <2>5. y[m] = e[i] /\ y[m + 1] = o[i]
    OBVIOUS
  <2>6. s \in CkFftComplex
    <3>1. 2 * n \in Nat
      OBVIOUS
    <3> HIDE DEF m
    <3> QED BY <2>3, <3>1, SumOfType
  <2>7. f[i + 1] = add(add(s, e[i]), o[i]) /\ f[i] = s /\ z[i] = add(e[i], o[i])
    BY <2>2, <2>4, <2>5
  <2> HIDE DEF f, z, s
  <2> QED BY <1>1, <2>6, <2>7, AddAssociates
<1>4. f[n] = SumOf(y, 2 * n)
  OBVIOUS
<1>5. \A j \in 0..(n - 1) : z[j] = add(e[j], o[j])
  OBVIOUS
<1> HIDE DEF f, z
<1>6. SumOf(z, n) = f[n]
  <2>1. PartialSums(f, z, n)
    BY <1>2, <1>3 DEF PartialSums
  <2> QED BY <2>1, SumOfIs
<1>7. SumOf(z, n) = add(SumOf(e, n), SumOf(o, n))
  BY <1>1, <1>5, SumOfAdd
<1> QED BY <1>4, <1>6, <1>7

(* A sum with one term.                                                     *)
LEMMA SumOfSingle ==
  ASSUME NEW n \in Nat, NEW m \in 0..(n - 1), NEW y, y[m] \in CkFftComplex,
         \A j \in 0..(n - 1) : j # m => y[j] = Zero
  PROVE  SumOf(y, n) = y[m]
<1> DEFINE f == [i \in 0..n |-> IF i <= m THEN Zero ELSE y[m]]
<1>1. f[0] = Zero /\ f[n] = y[m]
  OBVIOUS
<1>2. ASSUME NEW i \in 0..(n - 1) PROVE f[i + 1] = add(f[i], y[i])
  <2>1. CASE i < m
    <3>1. f[i + 1] = Zero /\ f[i] = Zero /\ y[i] = Zero
      BY <2>1
    <3> QED BY <3>1, AddZero, ZeroOne
  <2>2. CASE i = m
    <3>1. f[i + 1] = y[m] /\ f[i] = Zero
      BY <2>2
    <3> QED BY <2>2, <3>1, AddZero
  <2>3. CASE i > m
    <3>1. f[i + 1] = y[m] /\ f[i] = y[m] /\ y[i] = Zero
      BY <2>3
    <3> QED BY <3>1, AddZero
  <2> QED BY <2>1, <2>2, <2>3
<1> HIDE DEF f
<1>3. PartialSums(f, y, n)
  BY <1>1, <1>2 DEF PartialSums
<1> QED BY <1>1, <1>3, SumOfIs

(* n times a number.                                                        *)
Times(n, c) == [real |-> (n * c.real) % P, imag |-> (n * c.imag) % P]

LEMMA TimesNext ==
  ASSUME NEW c \in CkFftComplex, NEW n \in Nat
  PROVE  Times(0, c) = Zero /\ Times(n + 1, c) = add(Times(n, c), c) /\ Times(n, c) \in CkFftComplex
<1>1. c.real \in Int /\ c.imag \in Int
  BY ComplexFields
<1>2. Times(0, c) = Zero
  <2>1. 0 * c.real = 0 /\ 0 * c.imag = 0
    BY <1>1
  <2>2. 0 % P = 0
    <3> 0 \in Float
      BY ZeroOne DEF Zero, CkFftComplex
    <3> QED BY FloatMod, Zenon
  <2> QED BY <2>1, <2>2 DEF Times, Zero
<1>3. ASSUME NEW x \in Int
      PROVE  ((n + 1) * x) % P = (((n * x) % P) + x) % P /\ (n * x) % P \in Float
  <2> DEFINE nx == n * x
  <2>1. (n + 1) * x = nx + x /\ nx \in Int
    OBVIOUS
  <2> HIDE DEF nx
  <2>2. ((nx % P) + x) % P = (nx + x) % P /\ nx % P \in Float
    BY <2>1, ModSum, ModOf
  <2> QED BY <2>1, <2>2 DEF nx
<1> QED BY <1>1, <1>2, <1>3 DEF Times, add, CkFftComplex

LEMMA SumOfConstant ==
  ASSUME NEW n \in Nat, NEW c \in CkFftComplex, NEW y, \A j \in 0..(n - 1) : y[j] = c
  PROVE  SumOf(y, n) = Times(n, c)
<1> DEFINE f == [i \in 0..n |-> Times(i, c)]
<1>1. f[0] = Zero /\ f[n] = Times(n, c)
  BY TimesNext
<1>2. ASSUME NEW i \in 0..(n - 1) PROVE f[i + 1] = add(f[i], y[i])
  <2>1. i \in Nat /\ i \in 0..n /\ i + 1 \in 0..n
    OBVIOUS
  <2> QED BY <2>1, TimesNext
<1> HIDE DEF f
<1>3. PartialSums(f, y, n)
  BY <1>1, <1>2 DEF PartialSums
<1> QED BY <1>1, <1>3, SumOfIs

(* The sums of the rows of a square of numbers, or of its columns.          *)
RowSums(rows, F, n, m) == \A i \in 0..(n - 1) : rows[i] = SumOf(F[i], m)
Transposed(F, G, n, m) ==
  \A i \in 0..(n - 1) : \A j \in 0..(m - 1) : F[i][j] \in CkFftComplex /\ G[j][i] = F[i][j]

LEMMA SumOfExchange ==
  ASSUME NEW n \in Nat, NEW m \in Nat, NEW F, NEW G, Transposed(F, G, n, m),
         NEW rows, RowSums(rows, F, n, m), NEW columns, RowSums(columns, G, m, n)
  PROVE  SumOf(rows, n) = SumOf(columns, m)
<1>0. /\ \A i \in 0..(n - 1), j \in 0..(m - 1) : F[i][j] \in CkFftComplex /\ G[j][i] = F[i][j]
      /\ \A i \in 0..(n - 1) : rows[i] = SumOf(F[i], m)
      /\ \A j \in 0..(m - 1) : columns[j] = SumOf(G[j], n)
  BY DEF Transposed, RowSums
<1> DEFINE part(l) == [i \in 0..(n - 1) |-> SumOf(F[i], l)]
           f == [l \in 0..m |-> SumOf(part(l), n)]
<1>1. f[0] = Zero
  <2>1. \A i \in 0..(n - 1) : part(0)[i] = Zero
    BY SumOfZero
  <2>2. 0 \in 0..m /\ f[0] = SumOf(part(0), n)
    OBVIOUS
  <2> HIDE DEF part
  <2>3. SumOf(part(0), n) = Times(n, Zero)
    BY <2>1, ZeroOne, SumOfConstant
  <2>4. Times(n, Zero) = Zero
    <3>1. n * 0 = 0
      OBVIOUS
    <3>2. 0 % P = 0
      <4> 0 \in Float
        BY ZeroOne DEF Zero, CkFftComplex
      <4> QED BY FloatMod, Zenon
    <3> QED BY <3>1, <3>2 DEF Times, Zero
  <2> QED BY <2>2, <2>3, <2>4
<1>2. ASSUME NEW l \in 0..(m - 1) PROVE f[l + 1] = add(f[l], columns[l])
  <2>1. l \in Nat /\ l \in 0..m /\ l + 1 \in 0..m
    OBVIOUS
  <2>2. ASSUME NEW i \in 0..(n - 1)
        PROVE  /\ part(l)[i] \in CkFftComplex /\ G[l][i] \in CkFftComplex
               /\ part(l + 1)[i] = add(part(l)[i], G[l][i])
    <3> DEFINE y == F[i]
    <3>1. \A j \in 0..(m - 1) : y[j] \in CkFftComplex
      BY <1>0
    <3>2. part(l)[i] = SumOf(y, l) /\ part(l + 1)[i] = SumOf(y, l + 1) /\ G[l][i] = y[l]
      BY <1>0
    <3> HIDE DEF y, part
    <3>3. SumOf(y, l) \in CkFftComplex
      BY <2>1, <3>1, SumOfType
    <3>4. SumOf(y, l + 1) = add(SumOf(y, l), y[l])
      BY <2>1, SumOfNext
    <3> QED BY <3>1, <3>2, <3>3, <3>4
  <2>3. f[l + 1] = SumOf(part(l + 1), n) /\ f[l] = SumOf(part(l), n)
    BY <2>1
  <2> HIDE DEF part, f
  <2>4. SumOf(part(l + 1), n) = add(SumOf(part(l), n), SumOf(G[l], n))
    BY <2>2, SumOfAdd
  <2> QED BY <1>0, <2>3, <2>4
<1>3. f[m] = SumOf(part(m), n) /\ \A i \in 0..(n - 1) : part(m)[i] = rows[i]
  BY <1>0
<1> HIDE DEF f, part
<1>4. SumOf(part(m), n) = SumOf(rows, n)
  BY <1>3, SumOfSame
<1>5. PartialSums(f, columns, m)
  BY <1>1, <1>2 DEF PartialSums
<1>6. SumOf(columns, m) = f[m]
  BY <1>5, SumOfIs
<1> QED BY <1>3, <1>4, <1>6

-----------------------------------------------------------------------------
(* Opposite angles are conjugate.                                           *)
LEMMA TurnOpposite ==
  ASSUME NEW a \in Nat, NEW b \in Nat, NEW c \in Nat, a + b = c * (P + 1)
  PROVE  Turn(a, TRUE) = Turn(b, FALSE)
<1> DEFINE N == P + 1
           x == a % N
           y == b % N
<1>1. N \in Nat \ {0} /\ N - 1 = P /\ a + b = c * N /\ a \in Int /\ b \in Int
  BY ModulusAssumption
<1> HIDE DEF N
<1>2. PICK k \in Int : x = a + k * N
  BY <1>1, RestOf
<1>3. PICK l \in Int : y = b + l * N
  BY <1>1, RestOf
<1>4. x \in 0..(N - 1) /\ y \in 0..(N - 1)
  BY <1>1, RestOf
<1> HIDE DEF x, y
<1> DEFINE m == c + k + l
<1>5. m \in Int /\ x + y = m * N
  BY <1>1, <1>2, <1>3, <1>4
<1> HIDE DEF m
<1>6. m = 0 \/ m = 1
  <2>1. ~(m < 0)
    <3>1. ASSUME m < 0 PROVE FALSE
      <4>1. m * N <= (-1) * N
        BY <1>1, <1>5, <3>1
      <4> QED BY <1>1, <1>4, <1>5, <4>1
    <3> QED BY <3>1
  <2>2. ~(m > 1)
    <3>1. ASSUME m > 1 PROVE FALSE
      <4>1. m * N >= 2 * N
        BY <1>1, <1>5, <3>1
      <4> QED BY <1>1, <1>4, <1>5, <4>1
    <3> QED BY <3>1
  <2> QED BY <1>5, <2>1, <2>2
<1>7. CASE x + y = N
  <2>1. x \in 0..P /\ y \in 0..P /\ x + y = P + 1
    BY <1>1, <1>4, <1>7 DEF N
  <2>2. Expi[x] = conjugate(Expi[y])
    BY <2>1, ExpiAssumption
  <2> QED BY <2>2 DEF Turn, x, y, N
<1>8. CASE x + y = 0
  <2>1. x = 0 /\ y = 0
    BY <1>1, <1>4, <1>8
  <2>2. Turn(a, TRUE) = Expi[0] /\ Turn(b, FALSE) = conjugate(Expi[0])
    BY <2>1 DEF Turn, x, y, N
  <2>3. 0 % (P + 1) = 0
    BY ModulusAssumption
  <2>4. Turn(0, TRUE) = Expi[0] /\ Turn(0, FALSE) = conjugate(Expi[0])
    BY <2>3 DEF Turn
  <2>5. Turn(0, TRUE) = One /\ Turn(0, FALSE) = One
    BY TurnZero
  <2> QED BY <2>2, <2>4, <2>5
<1>9. x + y = 0 \/ x + y = N
  BY <1>1, <1>5, <1>6
<1> QED BY <1>7, <1>8, <1>9

(* So are the roots of opposite directions, which undo each other.          *)
LEMMA RootOpposite ==
  ASSUME NEW n, Divisor(n), NEW i \in Nat, NEW l \in Nat, NEW q \in Nat, i + l = q * n
  PROVE  Root(i, n, TRUE) = Root(l, n, FALSE)
<1>1. PICK s \in Nat \ {0} : n \in Nat \ {0} /\ n * s = P + 1
  BY DEF Divisor
<1>2. i * s \in Nat /\ l * s \in Nat /\ i * s + l * s = q * (P + 1)
  <2>1. i * s \in Nat /\ l * s \in Nat /\ i * s + l * s = (q * n) * s
    BY <1>1
  <2>2. (q * n) * s = q * (n * s)
    BY <1>1
  <2> QED BY <1>1, <2>1, <2>2
<1>3. Root(i, n, TRUE) = Turn(i * s, TRUE) /\ Root(l, n, FALSE) = Turn(l * s, FALSE)
  BY <1>1, RootTurn
<1> DEFINE a == i * s
           b == l * s
<1>4. a \in Nat /\ b \in Nat /\ a + b = q * (P + 1)
  BY <1>2
<1> HIDE DEF a, b
<1>5. Turn(a, TRUE) = Turn(b, FALSE)
  BY <1>4, TurnOpposite
<1> QED BY <1>3, <1>5 DEF a, b

LEMMA RootConjugate ==
  ASSUME NEW n \in Nat \ {0}, NEW i \in Nat
  PROVE  /\ conjugate(Root(i, n, FALSE)) = Root(i, n, TRUE)
         /\ conjugate(Root(i, n, TRUE)) = Root(i, n, FALSE)
<1>1. i % n \in Nat
  BY RestOf
<1>2. Twiddle(i % n, n) \in CkFftComplex
  BY <1>1, TwiddleType
<1> QED BY <1>2, ConjugateTwice DEF Root

LEMMA RootUnit ==
  ASSUME NEW n, Divisor(n), NEW i \in Nat
  PROVE  /\ multiply(Root(i, n, FALSE), Root(i, n, TRUE)) = One
         /\ multiply(Root(i, n, TRUE), Root(i, n, FALSE)) = One
<1> DEFINE l == i * (n - 1)
<1>1. n \in Nat \ {0}
  BY DEF Divisor
<1>2. l \in Nat /\ i + l = i * n
  BY <1>1
<1> HIDE DEF l
<1>3. Root(i, n, TRUE) = Root(l, n, FALSE)
  BY <1>2, RootOpposite
<1>4. Root(i + l, n, FALSE) = multiply(Root(i, n, FALSE), Root(l, n, FALSE))
  BY <1>2, RootSum
<1>5. Root(0 + i * n, n, FALSE) = Root(0, n, FALSE) /\ Root(0, n, FALSE) = One
  BY RootPeriod, RootZero
<1>6. 0 + i * n = i + l
  BY <1>1, <1>2
<1>7. Root(i, n, FALSE) \in CkFftComplex /\ Root(i, n, TRUE) \in CkFftComplex
  BY <1>1, RootType
<1>8. multiply(Root(i, n, FALSE), Root(i, n, TRUE)) = One
  BY <1>3, <1>4, <1>5, <1>6
<1> QED BY <1>7, <1>8, MultiplyCommutes

(* Half a turn.                                                             *)
LEMMA RootHalf ==
  ASSUME NEW m \in Nat \ {0}, Divisor(2 * m), NEW inverse \in BOOLEAN
  PROVE  Root(m, 2 * m, inverse) = Root(2, 4, inverse)
<1>1. Root(1 * m, 2 * m, inverse) = Root(1, 2, inverse)
  <2>1. 2 \in Nat \ {0} /\ 1 \in Nat
    OBVIOUS
  <2> QED BY <2>1, RootScale
<1>2. Root(1 * 2, 2 * 2, inverse) = Root(1, 2, inverse)
  <2>1. 2 \in Nat \ {0} /\ Divisor(2 * 2) /\ 1 \in Nat
    BY RootQuarter
  <2> QED BY <2>1, RootScale
<1>3. 1 * m = m /\ 1 * 2 = 2 /\ 2 * 2 = 4
  OBVIOUS
<1> QED BY <1>1, <1>2, <1>3

(* A quarter turn exchanges the parts of a number; half a turn negates it.  *)
LEMMA TimesQuarterTurn ==
  ASSUME NEW a \in CkFftComplex, NEW inverse \in BOOLEAN
  PROVE  multiply(Root(1, 4, inverse), a) =
           IF inverse THEN [real |-> (-a.imag) % P, imag |-> a.real]
                      ELSE [real |-> a.imag, imag |-> (-a.real) % P]
<1>1. a.real \in Int /\ a.imag \in Int /\ a.real % P = a.real /\ a.imag % P = a.imag
  BY ComplexFields
<1> DEFINE x == a.real
           y == a.imag
           e == 1 % P
           u == -e
           g == u % P
<1>2. e \in Int /\ u \in Int /\ g \in Int /\ x \in Int /\ y \in Int
  <2>1. 1 \in Int
    OBVIOUS
  <2>2. e \in Int
    BY <2>1, ModOf, ModulusAssumption DEF Float
  <2> HIDE DEF e
  <2>3. u \in Int
    BY <2>2
  <2> HIDE DEF u
  <2>4. g \in Int
    BY <2>3, ModOf, ModulusAssumption DEF Float
  <2> QED BY <1>1, <2>2, <2>3, <2>4
<1>3. Root(1, 4, inverse) = IF inverse THEN [real |-> 0, imag |-> e] ELSE [real |-> 0, imag |-> g]
  BY RootQuarter
<1>4. ASSUME NEW z \in Int PROVE (e * z) % P = z % P /\ (g * z) % P = (-z) % P
  <2>1. 1 \in Int /\ 1 * z = z /\ -z \in Int
    OBVIOUS
  <2>2. ((1 % P) * z) % P = (1 * z) % P
    BY <2>1, ModSum
  <2>3. (e * z) % P = z % P
    BY <2>1, <2>2
  <2> HIDE DEF e
  <2>4. u * z = 0 - e * z /\ e * z \in Int /\ 0 - z = -z /\ 0 \in Int
    BY <1>2
  <2>5. ((u % P) * z) % P = (u * z) % P
    <3> HIDE DEF u
    <3> QED BY <1>2, ModSum
  <2> DEFINE ez == e * z
  <2>6. (0 - (ez % P)) % P = (0 - ez) % P /\ (0 - (z % P)) % P = (0 - z) % P
    <3>1. ez \in Int
      BY <2>4
    <3> HIDE DEF ez
    <3> QED BY <2>4, <3>1, ModSum
  <2> QED BY <2>3, <2>4, <2>5, <2>6
<1> HIDE DEF e, u, g
<1>5. CASE inverse
  <2>0. Root(1, 4, inverse) = [real |-> 0, imag |-> e]
    BY <1>3, <1>5
  <2>1. multiply(Root(1, 4, inverse), a) = [real |-> (0 * x - e * y) % P, imag |-> (e * x + 0 * y) % P]
    BY <2>0 DEF multiply
  <2>2. 0 * x - e * y = 0 - e * y /\ e * x + 0 * y = e * x /\ e * y \in Int /\ 0 \in Int /\ 0 - y = -y
    BY <1>2
  <2> DEFINE ey == e * y
  <2>3. (0 - (ey % P)) % P = (0 - ey) % P /\ (0 - (y % P)) % P = (0 - y) % P
    <3>1. ey \in Int
      BY <2>2
    <3> HIDE DEF ey
    <3> QED BY <1>2, <2>2, <3>1, ModSum
  <2>4. (e * x) % P = x % P /\ (e * y) % P = y % P
    BY <1>2, <1>4
  <2> QED BY <1>1, <1>5, <2>1, <2>2, <2>3, <2>4
<1>6. CASE ~inverse
  <2>1. multiply(Root(1, 4, inverse), a) = [real |-> (0 * x - g * y) % P, imag |-> (g * x + 0 * y) % P]
    BY <1>3, <1>6 DEF multiply
  <2>2. 0 * x - g * y = 0 - g * y /\ g * x + 0 * y = g * x /\ g * y \in Int /\ 0 \in Int
    BY <1>2
  <2> DEFINE gy == g * y
             ny == -y
  <2>3. (0 - (gy % P)) % P = (0 - gy) % P /\ (0 - (ny % P)) % P = (0 - ny) % P /\ 0 - ny = y
    <3>1. gy \in Int /\ ny \in Int /\ 0 - ny = y
      BY <1>2, <2>2
    <3> HIDE DEF gy, ny
    <3> QED BY <1>2, <2>2, <3>1, ModSum
  <2>4. (g * x) % P = (-x) % P /\ (g * y) % P = (-y) % P
    BY <1>2, <1>4
  <2> QED BY <1>1, <1>6, <2>1, <2>2, <2>3, <2>4
<1> QED BY <1>5, <1>6

(* Negating twice changes nothing.                                          *)
LEMMA NegTwice ==
  ASSUME NEW z \in Int
  PROVE  (-((-z) % P)) % P = z % P
<1> DEFINE u == -z
<1>1. u \in Int /\ 0 - u = z /\ 0 \in Int
  OBVIOUS
<1>2. \A x \in Int : -x = 0 - x
  OBVIOUS
<1> HIDE DEF u
<1>3. (0 - (u % P)) % P = (0 - u) % P /\ u % P \in Int
  <2>1. (0 - (u % P)) % P = (0 - u) % P
    BY <1>1, ModSum
  <2>2. u % P \in Int
    BY <1>1, ModOf, ModulusAssumption DEF Float
  <2> QED BY <2>1, <2>2
<1>4. -(u % P) = 0 - (u % P)
  BY <1>2, <1>3
<1> QED BY <1>1, <1>3, <1>4 DEF u

(* Half a turn is a change of sign.                                         *)
LEMMA TimesHalfTurn ==
  ASSUME NEW a \in CkFftComplex, NEW inverse \in BOOLEAN
  PROVE  multiply(Root(2, 4, inverse), a) = [real |-> (-a.real) % P, imag |-> (-a.imag) % P]
<1> DEFINE r == Root(1, 4, inverse)
           b == multiply(r, a)
<1>1. r \in CkFftComplex /\ 1 \in Nat /\ Divisor(4)
  <2>1. 1 \in Nat /\ 4 \in Nat \ {0}
    OBVIOUS
  <2> QED BY <2>1, RootType, RootQuarter
<1>2. Root(1 + 1, 4, inverse) = multiply(r, r)
  BY <1>1, RootSum
<1>3. 1 + 1 = 2
  OBVIOUS
<1>4. multiply(Root(2, 4, inverse), a) = multiply(r, b)
  <2> HIDE DEF r
  <2> QED BY <1>1, <1>2, <1>3, MultiplyAssociates
<1>5. b \in CkFftComplex
  <2> HIDE DEF r
  <2> QED BY <1>1, ComplexOps
<1>6. a.real \in Int /\ a.imag \in Int /\ a.real % P = a.real /\ a.imag % P = a.imag
  BY ComplexFields
<1>7. b = IF inverse THEN [real |-> (-a.imag) % P, imag |-> a.real]
                     ELSE [real |-> a.imag, imag |-> (-a.real) % P]
  BY TimesQuarterTurn
<1>8. multiply(r, b) = IF inverse THEN [real |-> (-b.imag) % P, imag |-> b.real]
                                  ELSE [real |-> b.imag, imag |-> (-b.real) % P]
  <2> HIDE DEF b
  <2> QED BY <1>5, TimesQuarterTurn
<1> HIDE DEF b
<1> QED BY <1>4, <1>7, <1>8

(* A difference is the sum with the number turned by half a turn.           *)
LEMMA SubtractIsAdd ==
  ASSUME NEW a \in CkFftComplex, NEW b \in CkFftComplex, NEW inverse \in BOOLEAN
  PROVE  subtract(a, b) = add(a, multiply(Root(2, 4, inverse), b))
<1>1. a.real \in Int /\ a.imag \in Int /\ b.real \in Int /\ b.imag \in Int
  BY ComplexFields
<1>2. multiply(Root(2, 4, inverse), b) = [real |-> (-b.real) % P, imag |-> (-b.imag) % P]
  BY TimesHalfTurn
<1>3. ASSUME NEW x \in Int, NEW y \in Int PROVE (x + ((-y) % P)) % P = (x - y) % P
  <2> DEFINE u == -y
  <2>1. u \in Int /\ x + u = x - y
    OBVIOUS
  <2> HIDE DEF u
  <2>2. (x + (u % P)) % P = (x + u) % P
    BY <2>1, ModSum
  <2> QED BY <2>1, <2>2 DEF u
<1> QED BY <1>1, <1>2, <1>3 DEF add, subtract

-----------------------------------------------------------------------------
(* An element of the transform is a sum over the roots of unity.            *)
LEMMA DftElement ==
  ASSUME NEW x, NEW n \in Nat \ {0}, NEW inverse \in BOOLEAN, NEW k \in 0..(n - 1)
  PROVE  DFT(x, n, inverse)[k] =
           SumOf([j \in 0..(n - 1) |-> multiply(x[j], Root(j * k, n, inverse))], n)
  BY DEF DFT

(* A transform of complex numbers is made of complex numbers.               *)
LEMMA DftType ==
  ASSUME NEW x, NEW n \in Nat \ {0}, NEW inverse \in BOOLEAN, NEW k \in 0..(n - 1),
         \A j \in 0..(n - 1) : x[j] \in CkFftComplex
  PROVE  DFT(x, n, inverse)[k] \in CkFftComplex
<1> DEFINE y == [j \in 0..(n - 1) |-> multiply(x[j], Root(j * k, n, inverse))]
<1>1. ASSUME NEW j \in 0..(n - 1) PROVE y[j] \in CkFftComplex
  <2>1. j * k \in Nat
    OBVIOUS
  <2>2. Root(j * k, n, inverse) \in CkFftComplex
    BY <2>1, RootType
  <2> QED BY <2>2, ComplexOps
<1>2. DFT(x, n, inverse)[k] = SumOf(y, n)
  BY DftElement
<1>3. n \in 0..n /\ n \in Nat
  OBVIOUS
<1> HIDE DEF y
<1>4. \A i \in 0..n : SumOf(y, i) \in CkFftComplex
  BY <1>1, <1>3, SumOfType
<1> QED BY <1>2, <1>3, <1>4

(* The transform depends on the elements only.                              *)
LEMMA DftSame ==
  ASSUME NEW n \in Nat \ {0}, NEW x, NEW y, \A j \in 0..(n - 1) : x[j] = y[j],
         NEW inverse \in BOOLEAN
  PROVE  DFT(x, n, inverse) = DFT(y, n, inverse)
<1>1. \A k \in 0..(n - 1) :
        [j \in 0..(n - 1) |-> multiply(x[j], Root(j * k, n, inverse))] =
        [j \in 0..(n - 1) |-> multiply(y[j], Root(j * k, n, inverse))]
  OBVIOUS
<1> QED BY <1>1 DEF DFT

(* The transforms of one and of two elements.                               *)
LEMMA DftOne ==
  ASSUME NEW x, x[0] \in CkFftComplex, NEW inverse \in BOOLEAN
  PROVE  DFT(x, 1, inverse)[0] = x[0]
<1> DEFINE y == [j \in 0..(1 - 1) |-> multiply(x[j], Root(j * 0, 1, inverse))]
<1>1. Divisor(1)
  <2>1. 1 * (P + 1) = P + 1 /\ P + 1 \in Nat \ {0}
    BY ModulusAssumption
  <2> QED BY <2>1 DEF Divisor
<1>2. DFT(x, 1, inverse)[0] = SumOf(y, 1)
  <2>1. 0 \in 0..(1 - 1) /\ 1 \in Nat \ {0}
    OBVIOUS
  <2>2. \A n \in Nat \ {0} : \A k \in 0..(n - 1) :
          DFT(x, n, inverse)[k] =
            SumOf([j \in 0..(n - 1) |-> multiply(x[j], Root(j * k, n, inverse))], n)
    BY DftElement
  <2> QED BY <2>1, <2>2, Zenon
<1>3. Root(0, 1, inverse) = One
  BY <1>1, RootZero
<1>4. y[0] = x[0]
  <2>1. 0 * 0 = 0 /\ 0 \in 0..(1 - 1)
    OBVIOUS
  <2>2. y[0] = multiply(x[0], Root(0 * 0, 1, inverse))
    BY <2>1
  <2> QED BY <1>3, <2>1, <2>2, MultiplyOne
<1> HIDE DEF y
<1>5. SumOf(y, 0 + 1) = add(SumOf(y, 0), y[0])
  <2>1. 0 \in Nat
    OBVIOUS
  <2> QED BY <2>1, SumOfNext
<1>6. SumOf(y, 1) = add(Zero, x[0])
  BY <1>4, <1>5, SumOfZero
<1>7. add(Zero, x[0]) = x[0]
  BY ZeroOne, AddZero, AddCommutes
<1> QED BY <1>2, <1>6, <1>7

(* The transform of two elements is their sum and their difference.         *)
LEMMA DftTwo ==
  ASSUME NEW x, x[0] \in CkFftComplex, x[1] \in CkFftComplex, NEW inverse \in BOOLEAN
  PROVE  /\ DFT(x, 2, inverse)[0] = add(x[0], x[1])
         /\ DFT(x, 2, inverse)[1] = subtract(x[0], x[1])
<1> DEFINE y(k) == [j \in 0..(2 - 1) |-> multiply(x[j], Root(j * k, 2, inverse))]
<1>1. /\ Divisor(2) /\ Root(1, 2, inverse) = Root(2, 4, inverse)
  <2>1. 2 \in Nat \ {0} /\ Divisor(2 * 2) /\ 1 \in Nat
    BY RootQuarter
  <2>2. Root(1 * 2, 2 * 2, inverse) = Root(1, 2, inverse) /\ Divisor(2)
    BY <2>1, RootScale
  <2> QED BY <2>2
<1>2. Root(0, 2, inverse) = One
  BY <1>1, RootZero
<1>3. ASSUME NEW k \in 0..1
      PROVE  /\ DFT(x, 2, inverse)[k] = SumOf(y(k), 2)
             /\ y(k)[0] = x[0] /\ y(k)[1] = multiply(x[1], Root(k, 2, inverse))
  <2>1. k \in 0..(2 - 1) /\ 2 \in Nat \ {0}
    OBVIOUS
  <2>2. DFT(x, 2, inverse)[k] = SumOf(y(k), 2)
    <3>1. \A n \in Nat \ {0} : \A i \in 0..(n - 1) :
            DFT(x, n, inverse)[i] =
              SumOf([j \in 0..(n - 1) |-> multiply(x[j], Root(j * i, n, inverse))], n)
      BY DftElement
    <3> QED BY <2>1, <3>1, Zenon
  <2>3. 0 * k = 0 /\ 1 * k = k /\ 0 \in 0..(2 - 1) /\ 1 \in 0..(2 - 1)
    OBVIOUS
  <2>4. y(k)[0] = multiply(x[0], Root(0 * k, 2, inverse))
        /\ y(k)[1] = multiply(x[1], Root(1 * k, 2, inverse))
    BY <2>3
  <2> HIDE DEF y
  <2>5. y(k)[0] = x[0]
    BY <1>2, <2>3, <2>4, MultiplyOne
  <2> QED BY <2>2, <2>3, <2>4, <2>5
<1> HIDE DEF y
<1>4. ASSUME NEW z PROVE SumOf(z, 2) = add(add(Zero, z[0]), z[1])
  <2>1. SumOf(z, 0 + 1) = add(SumOf(z, 0), z[0]) /\ SumOf(z, 1 + 1) = add(SumOf(z, 1), z[1])
    <3>1. 0 \in Nat /\ 1 \in Nat
      OBVIOUS
    <3> QED BY <3>1, SumOfNext
  <2> QED BY <2>1, SumOfZero
<1>5. add(Zero, x[0]) = x[0]
  BY ZeroOne, AddZero, AddCommutes
<1>6. /\ DFT(x, 2, inverse)[0] = add(x[0], multiply(x[1], Root(0, 2, inverse)))
      /\ DFT(x, 2, inverse)[1] = add(x[0], multiply(x[1], Root(1, 2, inverse)))
  <2>1. 0 \in 0..1 /\ 1 \in 0..1
    OBVIOUS
  <2> QED BY <1>3, <1>4, <1>5, <2>1
<1>7. multiply(x[1], Root(0, 2, inverse)) = x[1]
  BY <1>2, MultiplyOne
<1>8. add(x[0], multiply(x[1], Root(1, 2, inverse))) = subtract(x[0], x[1])
  <2>1. Root(2, 4, inverse) \in CkFftComplex
    BY RootType
  <2> QED BY <1>1, <2>1, MultiplyCommutes, SubtractIsAdd
<1> QED BY <1>6, <1>7, <1>8

-----------------------------------------------------------------------------
(***************************************************************************)
(* Beyond one transform: the roots of unity cancel, so that the inverse     *)
(* transform undoes the transform (DftInverse); the transform of a sum, of  *)
(* a multiple, and of the even and odd elements; and the transform of pairs *)
(* of real numbers taken for complex ones, on which the real transforms     *)
(* rest (DftPairs).                                                         *)
(***************************************************************************)

(* A number and its double turn cancel.                                     *)
LEMMA AddHalfTurn ==
  ASSUME NEW a \in CkFftComplex, NEW inverse \in BOOLEAN
  PROVE  add(a, multiply(Root(2, 4, inverse), a)) = Zero
<1>1. subtract(a, a) = add(a, multiply(Root(2, 4, inverse), a))
  BY SubtractIsAdd
<1>2. a.real \in Int /\ a.imag \in Int
  BY ComplexFields
<1>3. a.real - a.real = 0 /\ a.imag - a.imag = 0
  BY <1>2
<1>4. 0 % P = 0
  <2> 0 \in Float
    BY ZeroOne DEF Zero, CkFftComplex
  <2> QED BY FloatMod, Zenon
<1>5. subtract(a, a) = Zero
  BY <1>3, <1>4 DEF subtract, Zero
<1> QED BY <1>1, <1>5

(***************************************************************************)
(* The roots of unity cancel: the powers of one that is not 1 add up to     *)
(* zero.  The even powers are those of the root of half as many elements.   *)
(***************************************************************************)
Roots(d, n, inverse) == [k \in 0..(n - 1) |-> Root(k * d, n, inverse)]

RootsCancelAt(n) ==
  \A d \in Nat : \A inverse \in BOOLEAN :
    isPowerOfTwo(n) /\ Divisor(n) /\ d % n # 0 => SumOf(Roots(d, n, inverse), n) = Zero

(* The n roots split into the even and the odd ones.                        *)
LEMMA RootsHalve ==
  ASSUME NEW m \in Nat \ {0}, Divisor(2 * m), NEW d \in Nat, NEW inverse \in BOOLEAN
  PROVE  SumOf(Roots(d, 2 * m, inverse), 2 * m) =
           add(SumOf(Roots(d, m, inverse), m),
               multiply(Root(d, 2 * m, inverse), SumOf(Roots(d, m, inverse), m)))
<1> DEFINE y == Roots(d, 2 * m, inverse)
           e == Roots(d, m, inverse)
           w == Root(d, 2 * m, inverse)
           o == [k \in 0..(m - 1) |-> multiply(w, e[k])]
<1>1. Divisor(m * 2) /\ m * 2 = 2 * m /\ 2 \in Nat \ {0} /\ 2 * m \in Nat \ {0}
  OBVIOUS
<1>2. Divisor(m) /\ \A j \in Nat : Root(j * 2, 2 * m, inverse) = Root(j, m, inverse)
  <2>1. 0 \in Nat
    OBVIOUS
  <2>2. \A j \in Nat : Root(j * 2, m * 2, inverse) = Root(j, m, inverse) /\ Divisor(m)
    BY <1>1, RootScale
  <2> QED BY <1>1, <2>1, <2>2
<1>3. w \in CkFftComplex
  BY <1>1, RootType
<1>4. \A j \in 0..(2 * m - 1) : y[j] \in CkFftComplex
  <2> TAKE j \in 0..(2 * m - 1)
  <2>1. j * d \in Nat
    OBVIOUS
  <2> QED BY <1>1, <2>1, RootType DEF Roots
<1>5. ASSUME NEW k \in 0..(m - 1)
      PROVE  e[k] = y[2 * k] /\ o[k] = y[2 * k + 1] /\ e[k] \in CkFftComplex /\ o[k] = multiply(w, e[k])
  <2>1. /\ 2 * k \in 0..(2 * m - 1) /\ 2 * k + 1 \in 0..(2 * m - 1) /\ k * d \in Nat
        /\ (2 * k) * d = (k * d) * 2 /\ (2 * k + 1) * d = (k * d) * 2 + d /\ (k * d) * 2 \in Nat
    OBVIOUS
  <2>2. y[2 * k] = Root((k * d) * 2, 2 * m, inverse)
        /\ y[2 * k + 1] = Root((k * d) * 2 + d, 2 * m, inverse)
        /\ e[k] = Root(k * d, m, inverse)
    BY <2>1 DEF Roots
  <2> DEFINE kd == k * d
             kd2 == kd * 2
  <2>3. kd \in Nat /\ kd2 \in Nat
    BY <2>1
  <2>4. Root(kd2, 2 * m, inverse) = Root(kd, m, inverse)
    <3> HIDE DEF kd
    <3> QED BY <1>2, <2>3
  <2>5. Root(kd2 + d, 2 * m, inverse) = multiply(Root(kd2, 2 * m, inverse), w)
    <3> HIDE DEF kd2
    <3> QED BY <2>3, RootSum
  <2>6. Root(kd, m, inverse) \in CkFftComplex
    <3> HIDE DEF kd
    <3> QED BY <2>3, RootType
  <2>7. e[k] \in CkFftComplex
    BY <2>2, <2>6
  <2>8. o[k] = multiply(w, e[k])
    OBVIOUS
  <2>9. y[2 * k + 1] = multiply(e[k], w)
    BY <2>2, <2>4, <2>5
  <2> HIDE DEF e, o, y, w
  <2> QED BY <1>3, <2>2, <2>4, <2>7, <2>8, <2>9, MultiplyCommutes DEF kd, kd2
<1> HIDE DEF y, e, o, w
<1>6. SumOf(y, 2 * m) = add(SumOf(e, m), SumOf(o, m))
  BY <1>4, <1>5, SumOfHalves
<1>7. SumOf(o, m) = multiply(w, SumOf(e, m))
  BY <1>3, <1>5, SumOfMultiply
<1> QED BY <1>6, <1>7 DEF y, e, w

(* From m roots to 2*m.                                                     *)
LEMMA RootsCancelStep ==
  ASSUME NEW m \in Nat \ {0}, RootsCancelAt(m), isPowerOfTwo(m)
  PROVE  RootsCancelAt(2 * m)
<1> SUFFICES ASSUME Divisor(2 * m), NEW d \in Nat, NEW inverse \in BOOLEAN, d % (2 * m) # 0
             PROVE  SumOf(Roots(d, 2 * m, inverse), 2 * m) = Zero
  BY DEF RootsCancelAt
<1> DEFINE s == SumOf(Roots(d, m, inverse), m)
           w == Root(d, 2 * m, inverse)
<1>1. SumOf(Roots(d, 2 * m, inverse), 2 * m) = add(s, multiply(w, s))
  BY RootsHalve
<1>2. Divisor(m * 2) /\ 2 \in Nat \ {0} /\ 2 * m \in Nat \ {0}
  OBVIOUS
<1>3. Divisor(m)
  <2>1. 0 \in Nat
    OBVIOUS
  <2> QED BY <1>2, <2>1, RootScale
<1>4. w \in CkFftComplex
  BY <1>2, RootType
<1>5. s \in CkFftComplex
  <2>1. \A k \in 0..(m - 1) : Roots(d, m, inverse)[k] \in CkFftComplex
    <3> TAKE k \in 0..(m - 1)
    <3>1. k * d \in Nat
      OBVIOUS
    <3> QED BY <3>1, RootType DEF Roots
  <2>2. m \in 0..m
    OBVIOUS
  <2> QED BY <2>1, <2>2, SumOfType
<1>6. CASE d % m # 0
  <2>1. s = Zero
    BY <1>3, <1>6 DEF RootsCancelAt
  <2>2. multiply(w, Zero) = Zero /\ add(Zero, Zero) = Zero
    BY <1>4, MultiplyZero, AddZero, ZeroOne
  <2> QED BY <1>1, <2>1, <2>2
<1>7. CASE d % m = 0
  <2>1. PICK q \in Nat : d = m + q * (2 * m)
    <3>0. d \in Int /\ m \in Nat \ {0}
      OBVIOUS
    <3>1. PICK k \in Int : 0 = d + k * m
      <4>1. \E k \in Int : d % m = d + k * m
        BY <3>0, RestOf, Zenon
      <4> QED BY <1>7, <4>1
    <3>2. d % (2 * m) \in 0..(2 * m - 1) /\ \E l \in Int : d % (2 * m) = d + l * (2 * m)
      <4> DEFINE M == 2 * m
      <4>1. M \in Nat \ {0}
        BY <1>2
      <4> HIDE DEF M
      <4>2. d % M \in 0..(M - 1) /\ \E l \in Int : d % M = d + l * M
        BY <3>0, <4>1, RestOf, Zenon
      <4> QED BY <4>2, Zenon DEF M
    <3>3. PICK l \in Int : d % (2 * m) = d + l * (2 * m)
      BY <3>2, Zenon
    <3> DEFINE r == d % (2 * m)
               j == 2 * l - k
               q == -l
    <3>4. r \in Int /\ r > 0 /\ r < 2 * m /\ r = d + l * (2 * m)
      <4>1. r \in 0..(2 * m - 1) /\ r # 0 /\ r = d + l * (2 * m)
        BY <3>2, <3>3
      <4> HIDE DEF r
      <4> QED BY <1>2, <4>1
    <3> HIDE DEF r
    <3>5. r = j * m /\ j \in Int
      BY <3>1, <3>4
    <3> HIDE DEF j
    <3>6. j = 1
      <4>1. ~(j < 1)
        <5>1. ASSUME j < 1 PROVE j * m <= 0
          BY <3>5, <5>1
        <5> QED BY <3>4, <3>5, <5>1
      <4>2. ~(j > 1)
        <5>1. ASSUME j > 1 PROVE j * m >= 2 * m
          BY <3>5, <5>1
        <5> QED BY <3>4, <3>5, <5>1
      <4> QED BY <3>5, <4>1, <4>2
    <3>7. r = m /\ q \in Int /\ d = m + q * (2 * m)
      BY <3>4, <3>5, <3>6
    <3>8. q \in Nat
      <4> HIDE DEF q
      <4>1. ASSUME q < 0 PROVE FALSE
        <5>1. q * (2 * m) <= (-1) * (2 * m)
          BY <1>2, <3>7, <4>1
        <5> QED BY <1>2, <3>7, <5>1
      <4> QED BY <3>7, <4>1
    <3> QED BY <3>7, <3>8
  <2>2. w = Root(m, 2 * m, inverse)
    BY <1>2, <2>1, RootPeriod
  <2>3. w = Root(2, 4, inverse)
    BY <2>2, RootHalf
  <2> HIDE DEF w, s
  <2> QED BY <1>1, <1>5, <2>3, AddHalfTurn
<1> QED BY <1>6, <1>7

(* The n-th roots of unity, and their powers but the n-th, add up to        *)
(* nothing.                                                                 *)
LEMMA RootsCancel ==
  ASSUME NEW n \in Nat \ {0}, isPowerOfTwo(n), Divisor(n), NEW d \in Nat, d % n # 0,
         NEW inverse \in BOOLEAN
  PROVE  SumOf(Roots(d, n, inverse), n) = Zero
<1> DEFINE S == {i \in Nat : \A m \in 1..i : isPowerOfTwo(m) => RootsCancelAt(m)}
<1>1. 0 \in S
  OBVIOUS
<1>2. ASSUME NEW i \in S PROVE i + 1 \in S
  <2>1. i \in Nat /\ \A m \in 1..i : isPowerOfTwo(m) => RootsCancelAt(m)
    OBVIOUS
  <2> HIDE DEF S
  <2>2. ASSUME NEW m \in 1..(i + 1), isPowerOfTwo(m) PROVE RootsCancelAt(m)
    <3>1. CASE m = 1
      <4>1. \A x \in Nat : x % 1 = 0
        OBVIOUS
      <4> QED BY <3>1, <4>1 DEF RootsCancelAt
    <3>2. CASE m # 1
      <4> DEFINE h == m \div 2
      <4>1. m = 2 * h /\ h \in Nat \ {0} /\ isPowerOfTwo(h)
        BY <2>1, <2>2, <3>2, PowerOfTwoEven
      <4> HIDE DEF h
      <4>2. h \in 1..i
        BY <2>1, <4>1
      <4>3. RootsCancelAt(h)
        BY <2>1, <4>1, <4>2
      <4> QED BY <4>1, <4>3, RootsCancelStep
    <3> QED BY <3>1, <3>2
  <2> QED BY <2>1, <2>2 DEF S
<1>3. S = Nat
  <2>1. S \in SUBSET Nat
    OBVIOUS
  <2> HIDE DEF S
  <2> QED BY <1>1, <1>2, <2>1, Induction
<1>4. RootsCancelAt(n)
  BY <1>3
<1> QED BY <1>4 DEF RootsCancelAt

(* The rest of a number that is small enough.                               *)
LEMMA RestSmall ==
  ASSUME NEW m \in Nat \ {0}, NEW a \in 0..(m - 1)
  PROVE  a % m = a
<1> DEFINE r == a % m
<1>0. a \in Int
  OBVIOUS
<1>1. PICK k \in Int : r = a + k * m
  <2>1. \E k \in Int : a % m = a + k * m
    BY <1>0, RestOf, Zenon
  <2> QED BY <2>1
<1>2. r \in 0..(m - 1)
  BY RestOf
<1> HIDE DEF r
<1>3. ASSUME k > 0 PROVE FALSE
  <2>1. k * m >= m
    BY <1>3
  <2> QED BY <1>1, <1>2, <2>1
<1>4. ASSUME k < 0 PROVE FALSE
  <2>1. k * m <= -m
    <3>1. (-k) * m >= m
      BY <1>4
    <3> QED BY <3>1
  <2> QED BY <1>1, <1>2, <2>1
<1>5. k = 0
  BY <1>3, <1>4
<1>6. r = a
  BY <1>1, <1>5
<1> QED BY <1>6 DEF r

(* The inverse transform of a transform is the data again, n times.         *)
LEMMA DftInverse ==
  ASSUME NEW n \in Nat \ {0}, isPowerOfTwo(n), Divisor(n),
         NEW x, \A j \in 0..(n - 1) : x[j] \in CkFftComplex, NEW j \in 0..(n - 1)
  PROVE  DFT(DFT(x, n, FALSE), n, TRUE)[j] = Times(n, x[j])
<1> DEFINE X == DFT(x, n, FALSE)
           w(k) == Root(k * j, n, TRUE)
           d(l) == l + (n - j)
           term(k) == [l \in 0..(n - 1) |-> multiply(x[l], Root(l * k, n, FALSE))]
           rows == [k \in 0..(n - 1) |-> multiply(X[k], w(k))]
           F == [k \in 0..(n - 1) |-> [l \in 0..(n - 1) |-> multiply(w(k), term(k)[l])]]
           G == [l \in 0..(n - 1) |-> [k \in 0..(n - 1) |-> F[k][l]]]
           columns == [l \in 0..(n - 1) |-> SumOf(G[l], n)]
<1>1. DFT(X, n, TRUE)[j] = SumOf(rows, n)
  <2> HIDE DEF X
  <2> QED BY DftElement
<1>2. ASSUME NEW k \in 0..(n - 1)
      PROVE  /\ w(k) \in CkFftComplex /\ X[k] = SumOf(term(k), n) /\ X[k] \in CkFftComplex
             /\ \A l \in 0..(n - 1) : term(k)[l] \in CkFftComplex
  <2>1. k * j \in Nat
    OBVIOUS
  <2>2. w(k) \in CkFftComplex
    BY <2>1, RootType
  <2>3. X[k] = SumOf(term(k), n)
    BY DftElement
  <2>4. X[k] \in CkFftComplex
    BY DftType
  <2>5. ASSUME NEW l \in 0..(n - 1) PROVE term(k)[l] \in CkFftComplex
    <3>1. l * k \in Nat
      OBVIOUS
    <3>2. Root(l * k, n, FALSE) \in CkFftComplex
      BY <3>1, RootType
    <3> QED BY <3>2, ComplexOps
  <2> QED BY <2>2, <2>3, <2>4, <2>5
<1>3. ASSUME NEW k \in 0..(n - 1)
      PROVE  /\ rows[k] = SumOf(F[k], n)
             /\ \A l \in 0..(n - 1) : F[k][l] \in CkFftComplex
  <2>1. \A l \in 0..(n - 1) : F[k][l] = multiply(w(k), term(k)[l])
    OBVIOUS
  <2>2. rows[k] = multiply(X[k], w(k))
    OBVIOUS
  <2> HIDE DEF F, rows, term, w, X
  <2>3. SumOf(F[k], n) = multiply(w(k), SumOf(term(k), n))
    BY <1>2, <2>1, SumOfMultiply
  <2>4. multiply(X[k], w(k)) = multiply(w(k), X[k])
    BY <1>2, MultiplyCommutes
  <2>5. ASSUME NEW l \in 0..(n - 1) PROVE F[k][l] \in CkFftComplex
    BY <1>2, <2>1, ComplexOps
  <2>6. rows[k] = SumOf(F[k], n)
    BY <1>2, <2>2, <2>3, <2>4
  <2> QED BY <2>5, <2>6
<1>4. SumOf(rows, n) = SumOf(columns, n)
  <2>1. \A k \in 0..(n - 1), l \in 0..(n - 1) : G[l][k] = F[k][l]
    OBVIOUS
  <2>2. \A l \in 0..(n - 1) : columns[l] = SumOf(G[l], n)
    OBVIOUS
  <2>3. n \in Nat
    OBVIOUS
  <2> HIDE DEF F, G, rows, columns, term, w, d
  <2>4. Transposed(F, G, n, n)
    BY <1>3, <2>1 DEF Transposed
  <2>5. RowSums(rows, F, n, n) /\ RowSums(columns, G, n, n)
    BY <1>3, <2>2 DEF RowSums
  <2> QED BY <2>3, <2>4, <2>5, SumOfExchange
<1>5. ASSUME NEW l \in 0..(n - 1), NEW k \in 0..(n - 1)
      PROVE  G[l][k] = multiply(x[l], Root(k * d(l), n, FALSE))
  <2> DEFINE a == k * j
             b == k * (n - j)
             c == l * k
  <2>1. a \in Nat /\ b \in Nat /\ c \in Nat /\ a + b = k * n /\ c + b = k * d(l)
    OBVIOUS
  <2>2. G[l][k] = multiply(Root(a, n, TRUE), multiply(x[l], Root(c, n, FALSE)))
    OBVIOUS
  <2> HIDE DEF a, b, c, d
  <2>3. Root(a, n, TRUE) = Root(b, n, FALSE)
    <3>1. k \in Nat
      OBVIOUS
    <3> QED BY <2>1, <3>1, RootOpposite
  <2>4. Root(c + b, n, FALSE) = multiply(Root(c, n, FALSE), Root(b, n, FALSE))
    BY <2>1, RootSum
  <2>5. Root(b, n, FALSE) \in CkFftComplex /\ Root(c, n, FALSE) \in CkFftComplex
    BY <2>1, RootType
  <2> DEFINE u == Root(b, n, FALSE)
             v == Root(c, n, FALSE)
             y == x[l]
  <2>6. G[l][k] = multiply(u, multiply(y, v)) /\ Root(k * d(l), n, FALSE) = multiply(v, u)
        /\ y \in CkFftComplex /\ u \in CkFftComplex /\ v \in CkFftComplex
    BY <2>1, <2>2, <2>3, <2>4, <2>5
  <2> HIDE DEF G, u, v, y
  <2>7. multiply(u, multiply(y, v)) = multiply(multiply(y, v), u) /\ multiply(y, v) \in CkFftComplex
    BY <2>6, MultiplyCommutes, ComplexOps
  <2>8. multiply(multiply(y, v), u) = multiply(y, multiply(v, u))
    BY <2>6, MultiplyAssociates
  <2> QED BY <2>6, <2>7, <2>8 DEF y
<1>6. ASSUME NEW l \in 0..(n - 1), l # j PROVE columns[l] = Zero
  <2>1. d(l) \in Nat /\ d(l) % n # 0
    <3> DEFINE e == d(l)
    <3>1. e \in 1..(2 * n - 1) /\ e # n
      BY <1>6
    <3> HIDE DEF e
    <3>2. CASE e < n
      <4>1. e \in 0..(n - 1)
        BY <3>1, <3>2
      <4>2. e % n = e
        BY <4>1, RestSmall
      <4> QED BY <3>1, <4>2 DEF e
    <3>3. CASE e > n
      <4> DEFINE g == e - n
      <4>1. g \in 0..(n - 1) /\ g # 0 /\ e = g + 1 * n /\ g \in Int /\ e \in Int /\ 1 \in Int
        BY <3>1, <3>3
      <4> HIDE DEF g
      <4>2. g % n = g
        BY <4>1, RestSmall
      <4>3. e % n = g % n
        BY <4>1, RestSame
      <4> QED BY <3>1, <4>1, <4>2, <4>3 DEF e
    <3> QED BY <3>1, <3>2, <3>3
  <2> DEFINE R == Roots(d(l), n, FALSE)
  <2>2. SumOf(R, n) = Zero
    <3> HIDE DEF d
    <3> QED BY <2>1, RootsCancel
  <2>3. ASSUME NEW k \in 0..(n - 1)
        PROVE  R[k] \in CkFftComplex /\ G[l][k] = multiply(x[l], R[k])
    <3>1. R[k] = Root(k * d(l), n, FALSE)
      BY DEF Roots
    <3>2. k * d(l) \in Nat
      BY <2>1
    <3>3. R[k] \in CkFftComplex
      <4> HIDE DEF d
      <4> QED BY <3>1, <3>2, RootType
    <3> QED BY <1>5, <3>1, <3>3
  <2>4. columns[l] = SumOf(G[l], n)
    OBVIOUS
  <2> HIDE DEF G, R, columns
  <2>5. SumOf(G[l], n) = multiply(x[l], SumOf(R, n))
    BY <2>3, SumOfMultiply
  <2> QED BY <2>2, <2>4, <2>5, MultiplyZero
<1>7. columns[j] = Times(n, x[j])
  <2>1. ASSUME NEW k \in 0..(n - 1) PROVE G[j][k] = x[j]
    <3>1. k * d(j) = 0 + k * n /\ 0 \in Nat /\ k \in Nat
      OBVIOUS
    <3>2. Root(0 + k * n, n, FALSE) = One
      <4>1. \A i, q \in Nat : Root(i + q * n, n, FALSE) = Root(i, n, FALSE)
        BY RootPeriod
      <4> QED BY <3>1, <4>1, RootZero
    <3>3. G[j][k] = multiply(x[j], One)
      BY <1>5, <3>1, <3>2
    <3> HIDE DEF G
    <3> QED BY <3>3, MultiplyOne
  <2>2. columns[j] = SumOf(G[j], n)
    OBVIOUS
  <2> HIDE DEF G, columns
  <2>3. n \in Nat
    OBVIOUS
  <2> QED BY <2>1, <2>2, <2>3, SumOfConstant
<1>8. SumOf(columns, n) = columns[j]
  <2>1. columns[j] \in CkFftComplex
    <3>1. n \in Nat
      OBVIOUS
    <3> QED BY <1>7, <3>1, TimesNext
  <2>2. n \in Nat
    OBVIOUS
  <2> HIDE DEF columns
  <2> QED BY <1>6, <2>1, <2>2, SumOfSingle
<1> QED BY <1>1, <1>4, <1>7, <1>8

(* Sums and multiples of n numbers, n real numbers, and the even and the    *)
(* odd ones of 2*n.                                                         *)
Added(x, y, z, n) ==
  \A j \in 0..(n - 1) :
    x[j] \in CkFftComplex /\ y[j] \in CkFftComplex /\ z[j] = add(x[j], y[j])

Multiplied(c, x, z, n) ==
  \A j \in 0..(n - 1) : x[j] \in CkFftComplex /\ z[j] = multiply(c, x[j])

RealNumbers(x, n) ==
  \A j \in 0..(n - 1) : x[j] \in CkFftComplex /\ conjugate(x[j]) = x[j]

EvenOdd(x, e, o, n) ==
  /\ \A j \in 0..(2 * n - 1) : x[j] \in CkFftComplex
  /\ \A j \in 0..(n - 1) : e[j] = x[2 * j] /\ o[j] = x[2 * j + 1]

(* The transform of a sum and of a multiple.                                *)
LEMMA DftAdd ==
  ASSUME NEW n \in Nat \ {0}, NEW inverse \in BOOLEAN, NEW k \in 0..(n - 1),
         NEW x, NEW y, NEW z, Added(x, y, z, n)
  PROVE  DFT(z, n, inverse)[k] = add(DFT(x, n, inverse)[k], DFT(y, n, inverse)[k])
<1>0. \A j \in 0..(n - 1) :
        x[j] \in CkFftComplex /\ y[j] \in CkFftComplex /\ z[j] = add(x[j], y[j])
  BY DEF Added
<1> USE <1>0
<1> DEFINE w(j) == Root(j * k, n, inverse)
           term(u) == [j \in 0..(n - 1) |-> multiply(u[j], w(j))]
<1>1. \A u : DFT(u, n, inverse)[k] = SumOf(term(u), n)
  BY DftElement
<1>2. ASSUME NEW j \in 0..(n - 1)
      PROVE  /\ term(x)[j] \in CkFftComplex /\ term(y)[j] \in CkFftComplex
             /\ term(z)[j] = add(term(x)[j], term(y)[j])
  <2>1. j * k \in Nat
    OBVIOUS
  <2>2. w(j) \in CkFftComplex
    BY <2>1, RootType
  <2>3. /\ term(x)[j] = multiply(x[j], w(j)) /\ term(y)[j] = multiply(y[j], w(j))
        /\ term(z)[j] = multiply(z[j], w(j))
    OBVIOUS
  <2> HIDE DEF term, w
  <2>4. add(x[j], y[j]) \in CkFftComplex
    BY ComplexOps
  <2>5. multiply(add(x[j], y[j]), w(j)) = multiply(w(j), add(x[j], y[j]))
        /\ multiply(x[j], w(j)) = multiply(w(j), x[j]) /\ multiply(y[j], w(j)) = multiply(w(j), y[j])
    BY <2>2, <2>4, MultiplyCommutes
  <2>6. multiply(w(j), add(x[j], y[j])) = add(multiply(w(j), x[j]), multiply(w(j), y[j]))
    BY <2>2, MultiplyDistributes
  <2>7. multiply(x[j], w(j)) \in CkFftComplex /\ multiply(y[j], w(j)) \in CkFftComplex
    BY <2>2, ComplexOps
  <2> QED BY <2>3, <2>5, <2>6, <2>7
<1>3. n \in Nat
  OBVIOUS
<1> HIDE DEF term
<1>4. SumOf(term(z), n) = add(SumOf(term(x), n), SumOf(term(y), n))
  BY <1>2, <1>3, SumOfAdd
<1> QED BY <1>1, <1>4

(* The transform is homogeneous.                                            *)
LEMMA DftMultiply ==
  ASSUME NEW n \in Nat \ {0}, NEW inverse \in BOOLEAN, NEW k \in 0..(n - 1),
         NEW c \in CkFftComplex, NEW x, NEW z, Multiplied(c, x, z, n)
  PROVE  DFT(z, n, inverse)[k] = multiply(c, DFT(x, n, inverse)[k])
<1>0. \A j \in 0..(n - 1) : x[j] \in CkFftComplex /\ z[j] = multiply(c, x[j])
  BY DEF Multiplied
<1> USE <1>0
<1> DEFINE w(j) == Root(j * k, n, inverse)
           term(u) == [j \in 0..(n - 1) |-> multiply(u[j], w(j))]
<1>1. \A u : DFT(u, n, inverse)[k] = SumOf(term(u), n)
  BY DftElement
<1>2. ASSUME NEW j \in 0..(n - 1)
      PROVE  term(x)[j] \in CkFftComplex /\ term(z)[j] = multiply(c, term(x)[j])
  <2>1. j * k \in Nat
    OBVIOUS
  <2>2. w(j) \in CkFftComplex
    BY <2>1, RootType
  <2>3. term(x)[j] = multiply(x[j], w(j)) /\ term(z)[j] = multiply(z[j], w(j))
    OBVIOUS
  <2> HIDE DEF term, w
  <2>4. x[j] \in CkFftComplex /\ z[j] = multiply(c, x[j])
    OBVIOUS
  <2>5. term(x)[j] \in CkFftComplex
    BY <2>2, <2>3, <2>4, ComplexOps
  <2>6. multiply(multiply(c, x[j]), w(j)) = multiply(c, multiply(x[j], w(j)))
    BY <2>2, <2>4, MultiplyAssociates
  <2> QED BY <2>3, <2>4, <2>5, <2>6
<1>3. n \in Nat
  OBVIOUS
<1> HIDE DEF term
<1>4. SumOf(term(z), n) = multiply(c, SumOf(term(x), n))
  BY <1>2, <1>3, SumOfMultiply
<1> QED BY <1>1, <1>4

(***************************************************************************)
(* Decimation in time: the transform is made of those of the even and of    *)
(* the odd elements.                                                        *)
(***************************************************************************)
LEMMA DftHalves ==
  ASSUME NEW h \in Nat \ {0}, Divisor(2 * h), NEW inverse \in BOOLEAN,
         NEW x, NEW e, NEW o, EvenOdd(x, e, o, h),
         NEW k \in 0..(2 * h - 1), NEW l \in 0..(h - 1), k = l \/ k = l + h
  PROVE  DFT(x, 2 * h, inverse)[k] =
           add(DFT(e, h, inverse)[l],
               multiply(Root(k, 2 * h, inverse), DFT(o, h, inverse)[l]))
<1>0. /\ \A j \in 0..(2 * h - 1) : x[j] \in CkFftComplex
      /\ \A j \in 0..(h - 1) : e[j] = x[2 * j] /\ o[j] = x[2 * j + 1]
  BY DEF EvenOdd
<1> USE <1>0
<1> DEFINE n == 2 * h
           w == Root(k, n, inverse)
           y == [j \in 0..(n - 1) |-> multiply(x[j], Root(j * k, n, inverse))]
           ye == [j \in 0..(h - 1) |-> multiply(e[j], Root(j * l, h, inverse))]
           yo == [j \in 0..(h - 1) |-> multiply(o[j], Root(j * l, h, inverse))]
           oo == [j \in 0..(h - 1) |-> y[2 * j + 1]]
<1>1. n \in Nat \ {0} /\ h * 2 = n /\ Divisor(n) /\ k \in Nat /\ l \in Nat /\ 2 \in Nat \ {0}
  OBVIOUS
<1>2. Divisor(h) /\ \A i \in Nat : Root(i * 2, n, inverse) = Root(i, h, inverse)
  <2>1. 0 \in Nat
    OBVIOUS
  <2>2. \A i \in Nat : Root(i * 2, h * 2, inverse) = Root(i, h, inverse) /\ Divisor(h)
    BY <1>1, RootScale
  <2> QED BY <1>1, <2>1, <2>2
<1>3. /\ DFT(x, n, inverse)[k] = SumOf(y, n)
      /\ DFT(e, h, inverse)[l] = SumOf(ye, h) /\ DFT(o, h, inverse)[l] = SumOf(yo, h)
  <2>1. DFT(x, n, inverse)[k] = SumOf(y, n)
    <3>1. k \in 0..(n - 1)
      OBVIOUS
    <3> HIDE <1>0 DEF n
    <3> QED BY <1>1, <3>1, DftElement
  <2>2. DFT(e, h, inverse)[l] = SumOf(ye, h)
    <3> HIDE DEF n, y, yo, oo, w
    <3> QED BY DftElement
  <2>3. DFT(o, h, inverse)[l] = SumOf(yo, h)
    <3> HIDE DEF n, y, ye, oo, w
    <3> QED BY DftElement
  <2> QED BY <2>1, <2>2, <2>3
<1>4. w \in CkFftComplex
  BY <1>1, RootType
<1>5. \A j \in 0..(n - 1) : y[j] \in CkFftComplex
  <2> TAKE j \in 0..(n - 1)
  <2>1. j * k \in Nat /\ x[j] \in CkFftComplex
    OBVIOUS
  <2> DEFINE jk == j * k
  <2>2. Root(jk, n, inverse) \in CkFftComplex
    <3> HIDE DEF n, jk
    <3> QED BY <1>1, <2>1, RootType DEF jk
  <2> QED BY <2>1, <2>2, ComplexOps
<1>6. ASSUME NEW j \in 0..(h - 1)
      PROVE  /\ ye[j] = y[2 * j] /\ yo[j] \in CkFftComplex
             /\ oo[j] = multiply(w, yo[j])
  <2> DEFINE a == j * l
             b == (2 * j) * k
             c == (2 * j + 1) * k
  <2>1. /\ 2 * j \in 0..(n - 1) /\ 2 * j + 1 \in 0..(n - 1)
        /\ a \in Nat /\ b \in Nat /\ c \in Nat /\ c = b + k
    OBVIOUS
  <2>2. Root(b, n, inverse) = Root(a, h, inverse)
    <3>1. CASE k = l
      <4>1. b = a * 2
        BY <3>1
      <4> HIDE DEF a, b, n
      <4> QED BY <1>2, <2>1, <4>1
    <3>2. CASE k = l + h
      <4>1. b = a * 2 + j * n /\ a * 2 \in Nat /\ j \in Nat
        BY <3>2
      <4> HIDE DEF a, b, n
      <4>2. \A i, q \in Nat : Root(i + q * n, n, inverse) = Root(i, n, inverse)
        BY <1>1, RootPeriod
      <4>3. Root(b, n, inverse) = Root(a * 2, n, inverse)
        BY <4>1, <4>2
      <4> QED BY <1>2, <2>1, <4>3
    <3> QED BY <3>1, <3>2
  <2>3. Root(c, n, inverse) = multiply(Root(b, n, inverse), w)
    <3> HIDE DEF b, c, n
    <3> QED BY <1>1, <2>1, RootSum DEF w
  <2>4. Root(a, h, inverse) \in CkFftComplex
    <3> HIDE DEF a
    <3> QED BY <2>1, RootType
  <2>5. /\ y[2 * j] = multiply(x[2 * j], Root(b, n, inverse))
        /\ y[2 * j + 1] = multiply(x[2 * j + 1], Root(c, n, inverse))
        /\ ye[j] = multiply(e[j], Root(a, h, inverse)) /\ yo[j] = multiply(o[j], Root(a, h, inverse))
        /\ e[j] = x[2 * j] /\ o[j] = x[2 * j + 1] /\ o[j] \in CkFftComplex
        /\ oo[j] = y[2 * j + 1]
    BY <2>1
  <2> HIDE DEF y, ye, yo, oo, n, a, b, c, w
  <2>6. ye[j] = y[2 * j]
    BY <2>2, <2>5
  <2>7. yo[j] \in CkFftComplex
    BY <2>4, <2>5, ComplexOps
  <2>8. oo[j] = multiply(o[j], multiply(Root(a, h, inverse), w))
    BY <2>2, <2>3, <2>5
  <2>9. multiply(o[j], multiply(Root(a, h, inverse), w)) = multiply(yo[j], w)
    BY <1>4, <2>4, <2>5, MultiplyAssociates
  <2> QED BY <1>4, <2>6, <2>7, <2>8, <2>9, MultiplyCommutes
<1>7. \A j \in 0..(h - 1) : oo[j] = y[2 * j + 1]
  OBVIOUS
<1>8. \A j \in 0..(2 * h - 1) : y[j] \in CkFftComplex
  BY <1>5
<1> HIDE DEF y, ye, yo, oo, w
<1>9. SumOf(y, 2 * h) = add(SumOf(ye, h), SumOf(oo, h))
  BY <1>6, <1>7, <1>8, SumOfHalves
<1>10. SumOf(oo, h) = multiply(w, SumOf(yo, h))
  BY <1>4, <1>6, SumOfMultiply
<1> QED BY <1>3, <1>9, <1>10 DEF w

(* Opposite directions are conjugate.                                       *)
LEMMA DftOpposite ==
  ASSUME NEW n \in Nat \ {0}, NEW inverse \in BOOLEAN, NEW other \in BOOLEAN, other # inverse,
         NEW x, NEW z, \A j \in 0..(n - 1) : x[j] \in CkFftComplex /\ z[j] = conjugate(x[j]),
         NEW k \in 0..(n - 1)
  PROVE  DFT(z, n, other)[k] = conjugate(DFT(x, n, inverse)[k])
<1> DEFINE u == [j \in 0..(n - 1) |-> multiply(x[j], Root(j * k, n, inverse))]
           v == [j \in 0..(n - 1) |-> multiply(z[j], Root(j * k, n, other))]
<1>1. DFT(x, n, inverse)[k] = SumOf(u, n) /\ DFT(z, n, other)[k] = SumOf(v, n)
  BY DftElement
<1>2. ASSUME NEW j \in 0..(n - 1)
      PROVE  u[j] \in CkFftComplex /\ v[j] = conjugate(u[j])
  <2> DEFINE a == j * k
  <2>1. a \in Nat
    OBVIOUS
  <2>2. u[j] = multiply(x[j], Root(a, n, inverse)) /\ v[j] = multiply(z[j], Root(a, n, other))
    OBVIOUS
  <2> HIDE DEF a, u, v
  <2>3. /\ conjugate(Root(a, n, FALSE)) = Root(a, n, TRUE)
        /\ conjugate(Root(a, n, TRUE)) = Root(a, n, FALSE)
    BY <2>1, RootConjugate
  <2>4. conjugate(Root(a, n, inverse)) = Root(a, n, other)
    <3>1. ASSUME inverse = TRUE, other = FALSE
          PROVE  conjugate(Root(a, n, inverse)) = Root(a, n, other)
      BY ONLY <2>3, <3>1, Zenon
    <3>2. ASSUME inverse = FALSE, other = TRUE
          PROVE  conjugate(Root(a, n, inverse)) = Root(a, n, other)
      BY ONLY <2>3, <3>2, Zenon
    <3>3. (inverse = TRUE /\ other = FALSE) \/ (inverse = FALSE /\ other = TRUE)
      BY Zenon
    <3> QED BY ONLY <3>1, <3>2, <3>3, Zenon
  <2>5. Root(a, n, inverse) \in CkFftComplex
    BY <2>1, RootType
  <2>6. conjugate(multiply(x[j], Root(a, n, inverse))) =
          multiply(conjugate(x[j]), conjugate(Root(a, n, inverse)))
    BY <2>5, ConjugateMultiply
  <2>7. u[j] \in CkFftComplex
    BY <2>2, <2>5, ComplexOps
  <2> QED BY <2>2, <2>4, <2>6, <2>7
<1>3. n \in Nat
  OBVIOUS
<1> HIDE DEF u, v
<1>4. SumOf(v, n) = conjugate(SumOf(u, n))
  BY <1>2, <1>3, SumOfConjugate
<1> QED BY <1>1, <1>4

(* The conjugate data have the conjugate transform, read backwards.         *)
LEMMA DftConjugate ==
  ASSUME NEW n \in Nat \ {0}, Divisor(n), NEW inverse \in BOOLEAN,
         NEW x, NEW v, \A j \in 0..(n - 1) : x[j] \in CkFftComplex /\ v[j] = conjugate(x[j]),
         NEW k \in 0..(n - 1), NEW l \in 0..(n - 1), k + l = 0 \/ k + l = n
  PROVE  conjugate(DFT(x, n, inverse)[k]) = DFT(v, n, inverse)[l]
<1> DEFINE y == [j \in 0..(n - 1) |-> multiply(x[j], Root(j * k, n, inverse))]
           z == [j \in 0..(n - 1) |-> multiply(v[j], Root(j * l, n, inverse))]
<1>1. DFT(x, n, inverse)[k] = SumOf(y, n) /\ DFT(v, n, inverse)[l] = SumOf(z, n)
  BY DftElement
<1>2. ASSUME NEW j \in 0..(n - 1)
      PROVE  y[j] \in CkFftComplex /\ z[j] = conjugate(y[j])
  <2> DEFINE a == j * k
             b == j * l
  <2>1. a \in Nat /\ b \in Nat /\ \E q \in Nat : a + b = q * n /\ b + a = q * n
    <3>1. a + b = j * (k + l) /\ a \in Nat /\ b \in Nat /\ j \in Nat /\ 0 \in Nat
      OBVIOUS
    <3>2. CASE k + l = 0
      <4>1. a + b = 0 * n /\ b + a = 0 * n
        BY <3>1, <3>2
      <4> QED BY <3>1, <4>1
    <3>3. CASE k + l = n
      <4>1. a + b = j * n /\ b + a = j * n
        BY <3>1, <3>3
      <4> QED BY <3>1, <4>1
    <3> QED BY <3>1, <3>2, <3>3
  <2>2. y[j] = multiply(x[j], Root(a, n, inverse)) /\ z[j] = multiply(v[j], Root(b, n, inverse))
    OBVIOUS
  <2> HIDE DEF a, b, y, z
  <2>3. PICK q \in Nat : a + b = q * n /\ b + a = q * n
    BY <2>1
  <2>4. Root(a, n, TRUE) = Root(b, n, FALSE) /\ Root(b, n, TRUE) = Root(a, n, FALSE)
    <3>1. \A i, m, r \in Nat : i + m = r * n => Root(i, n, TRUE) = Root(m, n, FALSE)
      BY RootOpposite
    <3> QED BY <2>1, <2>3, <3>1
  <2>5. /\ conjugate(Root(a, n, FALSE)) = Root(a, n, TRUE)
        /\ conjugate(Root(a, n, TRUE)) = Root(a, n, FALSE)
    BY <2>1, RootConjugate
  <2>6. conjugate(Root(a, n, inverse)) = Root(b, n, inverse)
    <3>1. CASE inverse = TRUE
      BY <2>4, <2>5, <3>1
    <3>2. CASE inverse = FALSE
      BY <2>4, <2>5, <3>2
    <3> QED BY <3>1, <3>2
  <2>7. Root(a, n, inverse) \in CkFftComplex
    BY <2>1, RootType
  <2>8. conjugate(multiply(x[j], Root(a, n, inverse))) =
          multiply(conjugate(x[j]), conjugate(Root(a, n, inverse)))
    BY <2>7, ConjugateMultiply
  <2>9. y[j] \in CkFftComplex
    BY <2>2, <2>7, ComplexOps
  <2> QED BY <2>2, <2>6, <2>8, <2>9
<1>3. n \in Nat
  OBVIOUS
<1> HIDE DEF y, z
<1>4. SumOf(z, n) = conjugate(SumOf(y, n))
  BY <1>2, <1>3, SumOfConjugate
<1> QED BY <1>1, <1>4

(* The transform of real numbers is symmetric.                              *)
LEMMA DftReal ==
  ASSUME NEW n \in Nat \ {0}, Divisor(n), NEW inverse \in BOOLEAN,
         NEW x, RealNumbers(x, n),
         NEW k \in 0..(n - 1), NEW l \in 0..(n - 1), k + l = 0 \/ k + l = n
  PROVE  conjugate(DFT(x, n, inverse)[k]) = DFT(x, n, inverse)[l]
<1>1. \A j \in 0..(n - 1) : x[j] \in CkFftComplex /\ x[j] = conjugate(x[j])
  BY DEF RealNumbers
<1> QED BY <1>1, DftConjugate

(* The fourth roots of unity are numbers, in pairs.                         *)
LEMMA FourthRoots ==
  /\ \A i \in Nat : /\ Root(i, 4, FALSE) \in CkFftComplex /\ Root(i, 4, TRUE) \in CkFftComplex
                    /\ conjugate(Root(i, 4, FALSE)) = Root(i, 4, TRUE)
                    /\ conjugate(Root(i, 4, TRUE)) = Root(i, 4, FALSE)
  /\ 1 \in Nat /\ 2 \in Nat
<1>1. 4 \in Nat \ {0}
  OBVIOUS
<1>2. ASSUME NEW n \in Nat \ {0}, NEW i \in Nat
      PROVE  /\ Root(i, n, FALSE) \in CkFftComplex /\ Root(i, n, TRUE) \in CkFftComplex
             /\ conjugate(Root(i, n, FALSE)) = Root(i, n, TRUE)
             /\ conjugate(Root(i, n, TRUE)) = Root(i, n, FALSE)
  BY RootType, RootConjugate
<1> QED BY <1>1, <1>2

(* Half a turn is the minus sign.                                           *)
Minus(a) == multiply(Root(2, 4, TRUE), a)

(* What the minus sign does.                                                *)
LEMMA MinusFacts ==
  ASSUME NEW a \in CkFftComplex, NEW b \in CkFftComplex
  PROVE  /\ Minus(a) \in CkFftComplex
         /\ add(a, Minus(a)) = Zero
         /\ Minus(Minus(a)) = a
         /\ Minus(add(a, b)) = add(Minus(a), Minus(b))
         /\ subtract(a, b) = add(a, Minus(b))
         /\ multiply(a, Minus(b)) = Minus(multiply(a, b))
         /\ multiply(Minus(a), b) = Minus(multiply(a, b))
<1> DEFINE w == Root(2, 4, TRUE)
<1>1. w \in CkFftComplex
  BY FourthRoots
<1>2. Minus(a) \in CkFftComplex /\ Minus(b) \in CkFftComplex
  BY <1>1, ComplexOps DEF Minus
<1>3. add(a, Minus(a)) = Zero
  BY AddHalfTurn DEF Minus
<1>4. Minus(Minus(a)) = a
  <2>1. add(Minus(a), Minus(Minus(a))) = Zero /\ Minus(Minus(a)) \in CkFftComplex
    BY <1>1, <1>2, AddHalfTurn, ComplexOps DEF Minus
  <2>2. add(add(a, Minus(a)), Minus(Minus(a))) = add(a, add(Minus(a), Minus(Minus(a))))
    BY <1>2, <2>1, AddAssociates
  <2> QED BY <1>3, <2>1, <2>2, AddZero
<1>5. Minus(add(a, b)) = add(Minus(a), Minus(b))
  BY <1>1, MultiplyDistributes DEF Minus
<1>6. subtract(a, b) = add(a, Minus(b))
  BY SubtractIsAdd DEF Minus
<1>7. multiply(a, Minus(b)) = Minus(multiply(a, b))
  <2>1. multiply(a, multiply(w, b)) = multiply(multiply(a, w), b)
    BY <1>1, MultiplyAssociates
  <2>2. multiply(a, w) = multiply(w, a)
    BY <1>1, MultiplyCommutes
  <2>3. multiply(multiply(w, a), b) = multiply(w, multiply(a, b))
    BY <1>1, MultiplyAssociates
  <2> HIDE DEF w
  <2> QED BY <2>1, <2>2, <2>3 DEF Minus, w
<1>8. multiply(Minus(a), b) = Minus(multiply(a, b))
  BY <1>1, MultiplyAssociates DEF Minus
<1> QED BY <1>2, <1>3, <1>4, <1>5, <1>6, <1>7, <1>8

(* The quarter turn that the real transforms multiply by.                   *)
I == Root(1, 4, TRUE)

(* What the quarter turn does.                                              *)
LEMMA QuarterTurnFacts ==
  /\ I \in CkFftComplex /\ Root(1, 4, FALSE) = conjugate(I)
  /\ \A a \in CkFftComplex : /\ multiply(I, multiply(I, a)) = Minus(a)
                             /\ multiply(Root(1, 4, FALSE), a) = Minus(multiply(I, a))
<1>1. Divisor(4)
  BY RootQuarter
<1>2. I \in CkFftComplex
  BY FourthRoots DEF I
<1>3. multiply(I, I) = Root(2, 4, TRUE)
  <2>1. Root(1 + 1, 4, TRUE) = multiply(Root(1, 4, TRUE), Root(1, 4, TRUE))
    BY <1>1, RootSum
  <2>2. 1 + 1 = 2
    OBVIOUS
  <2> QED BY <2>1, <2>2 DEF I
<1>4. conjugate(I) = Root(1, 4, FALSE)
  BY FourthRoots DEF I
<1>5. Root(1, 4, FALSE) = multiply(Root(2, 4, TRUE), I)
  <2>1. Root(2 + 1, 4, TRUE) = multiply(Root(2, 4, TRUE), I)
    BY <1>1, RootSum DEF I
  <2>2. \A i, m, r \in Nat : i + m = r * 4 => Root(i, 4, TRUE) = Root(m, 4, FALSE)
    BY <1>1, RootOpposite
  <2>3. Root(3, 4, TRUE) = Root(1, 4, FALSE)
    <3>1. 3 + 1 = 1 * 4
      OBVIOUS
    <3> QED BY <2>2, <3>1
  <2>4. 2 + 1 = 3
    OBVIOUS
  <2> QED BY <2>1, <2>3, <2>4
<1>6. ASSUME NEW a \in CkFftComplex
      PROVE  /\ multiply(I, multiply(I, a)) = Minus(a)
             /\ multiply(Root(1, 4, FALSE), a) = Minus(multiply(I, a))
  <2>1. multiply(I, multiply(I, a)) = multiply(multiply(I, I), a)
    BY <1>2, MultiplyAssociates
  <2>2. Root(2, 4, TRUE) \in CkFftComplex
    BY FourthRoots
  <2>3. multiply(multiply(Root(2, 4, TRUE), I), a) = multiply(Root(2, 4, TRUE), multiply(I, a))
    BY <1>2, <2>2, MultiplyAssociates
  <2> QED BY <1>3, <1>5, <2>1, <2>3 DEF Minus
<1> QED BY <1>2, <1>4, <1>6

(* Sums and differences of a sum and a difference.                          *)
LEMMA SumDifference ==
  ASSUME NEW a \in CkFftComplex, NEW d \in CkFftComplex
  PROVE  /\ add(add(a, d), subtract(a, d)) = add(a, a)
         /\ subtract(add(a, d), subtract(a, d)) = add(d, d)
<1>1. /\ subtract(a, d) = add(a, Minus(d)) /\ Minus(a) \in CkFftComplex
      /\ Minus(d) \in CkFftComplex /\ add(a, Minus(a)) = Zero /\ add(d, Minus(d)) = Zero
      /\ add(a, Minus(d)) \in CkFftComplex /\ add(a, d) \in CkFftComplex
      /\ add(a, a) \in CkFftComplex /\ add(d, d) \in CkFftComplex
  BY MinusFacts, ComplexOps
<1>2. add(add(a, d), add(a, Minus(d))) = add(add(a, a), add(d, Minus(d)))
  BY <1>1, AddFour
<1>3. subtract(add(a, d), add(a, Minus(d))) = add(add(a, d), Minus(add(a, Minus(d))))
  BY <1>1, MinusFacts
<1>4. Minus(add(a, Minus(d))) = add(Minus(a), d)
  BY <1>1, MinusFacts
<1>5. add(add(a, d), add(Minus(a), d)) = add(add(a, Minus(a)), add(d, d))
  BY <1>1, AddFour
<1> QED BY <1>1, <1>2, <1>3, <1>4, <1>5, AddZero

(***************************************************************************)
(* The numbers of element k: z0 = Z[k] and z1 = Z[h - k] of the transform Z *)
(* of the h pairs, X0 = X[k] and X1 = X[h - k] of the transform X of the    *)
(* 2*h real numbers, from A = E[k] and B = O[k], those of the even and of   *)
(* the odd ones.                                                            *)
(***************************************************************************)
Halves(A, B, w, z0, z1, X0, X1) ==
  /\ A \in CkFftComplex /\ B \in CkFftComplex /\ w \in CkFftComplex
  /\ z0 \in CkFftComplex /\ z1 \in CkFftComplex
  /\ X0 \in CkFftComplex /\ X1 \in CkFftComplex
  /\ z0 = add(A, multiply(I, B)) /\ conjugate(z1) = subtract(A, multiply(I, B))
  /\ X0 = add(A, multiply(w, B)) /\ conjugate(X1) = subtract(A, multiply(w, B))

(* Real and imaginary parts of h pairs, as 2*h real numbers.                *)
PairsOf(z, x, h) ==
  \A j \in 0..(h - 1) :
    /\ z[j] \in CkFftComplex
    /\ x[2 * j] = [real |-> z[j].real, imag |-> 0]
    /\ x[2 * j + 1] = [real |-> z[j].imag, imag |-> 0]

(* A number is its real part and the quarter turn of its imaginary part.    *)
LEMMA PairSum ==
  ASSUME NEW z \in CkFftComplex, NEW a, NEW b,
         a = [real |-> z.real, imag |-> 0], b = [real |-> z.imag, imag |-> 0]
  PROVE  /\ a \in CkFftComplex /\ b \in CkFftComplex
         /\ conjugate(a) = a /\ conjugate(b) = b
         /\ z = add(a, multiply(I, b))
<1>1. P \in Nat \ {0} /\ 0 \in Float
  BY ModulusAssumption DEF Float
<1>2. z.real \in Float /\ z.imag \in Float /\ z = [real |-> z.real, imag |-> z.imag]
  BY DEF CkFftComplex
<1>3. a \in CkFftComplex /\ b \in CkFftComplex
  BY <1>1, <1>2 DEF CkFftComplex
<1>4. (-0) % P = 0
  <2>1. -0 = 0
    <3>1. \A x \in Int : -x = 0 - x
      OBVIOUS
    <3>2. 0 \in Int /\ 0 - 0 = 0
      OBVIOUS
    <3> QED BY <3>1, <3>2
  <2>2. 0 % P = 0
    BY <1>1, FloatMod
  <2> QED BY <2>1, <2>2
<1>5. conjugate(a) = a /\ conjugate(b) = b
  BY <1>4 DEF conjugate
<1>6. multiply(I, b) = [real |-> (-0) % P, imag |-> z.imag]
  BY <1>3, TimesQuarterTurn DEF I
<1>7. add(a, multiply(I, b)) = [real |-> (z.real + 0) % P, imag |-> (0 + z.imag) % P]
  BY <1>4, <1>6 DEF add
<1>8. z.real + 0 = z.real /\ 0 + z.imag = z.imag
  BY <1>1, <1>2 DEF Float
<1>9. z.real % P = z.real /\ z.imag % P = z.imag
  BY <1>2, FloatMod
<1> QED BY <1>2, <1>3, <1>5, <1>7, <1>8, <1>9

IndexPair(k, h, l, m) ==
  /\ l \in 0..(h - 1) /\ m \in 0..(h - 1) /\ (l + m = 0 \/ l + m = h)
  /\ k = l \/ k = l + h
  /\ h - k = m \/ h - k = m + h

(* Elements k and h - k are taken modulo h.                                 *)
LEMMA HalfIndex ==
  ASSUME NEW h \in Nat \ {0}, NEW k \in 0..h
  PROVE  IndexPair(k, h, k % h, (h - k) % h)
<1> DEFINE l == k % h
           m == (h - k) % h
<1> SUFFICES /\ l \in 0..(h - 1) /\ m \in 0..(h - 1) /\ (l + m = 0 \/ l + m = h)
             /\ k = l \/ k = l + h
             /\ h - k = m \/ h - k = m + h
  BY DEF IndexPair
<1>1. 0 % h = 0
  BY RestSmall
<1>2. h % h = 0
  <2>1. h \in Int /\ 0 \in Int /\ 1 \in Int /\ h = 0 + 1 * h
    OBVIOUS
  <2> QED BY <1>1, <2>1, RestSame
<1>3. CASE k = 0
  BY <1>1, <1>2, <1>3
<1>4. CASE k = h
  BY <1>1, <1>2, <1>4
<1>5. CASE k # 0 /\ k # h
  <2>1. k \in 0..(h - 1) /\ h - k \in 0..(h - 1)
    BY <1>5
  <2>2. l = k /\ m = h - k
    BY <2>1, RestSmall
  <2> QED BY <2>1, <2>2
<1> QED BY <1>3, <1>4, <1>5

(* The factor of the opposite element is the conjugate with a minus sign.   *)
LEMMA OppositeFactor ==
  ASSUME NEW h \in Nat \ {0}, Divisor(2 * h), NEW k \in 0..h, NEW b \in CkFftComplex
  PROVE  multiply(conjugate(Root(h - k, 2 * h, FALSE)), b) =
           Minus(multiply(Root(k, 2 * h, FALSE), b))
<1> DEFINE n == 2 * h
<1>1. n \in Nat \ {0} /\ h - k \in Nat /\ h + k \in Nat /\ h \in Nat /\ k \in Nat
      /\ (h - k) + (h + k) = 1 * n
  OBVIOUS
<1>2. Root(h, n, FALSE) = Root(2, 4, FALSE)
  BY RootHalf
<1>3. Divisor(4) /\ Divisor(n)
  BY RootQuarter
<1>4. Root(2, 4, FALSE) = Root(2, 4, TRUE)
  <2>1. \A i, m, r \in Nat : i + m = r * 4 => Root(i, 4, TRUE) = Root(m, 4, FALSE)
    BY <1>3, RootOpposite
  <2>2. 2 + 2 = 1 * 4
    OBVIOUS
  <2> QED BY <2>1, <2>2
<1> HIDE DEF n
<1>5. conjugate(Root(h - k, n, FALSE)) = Root(h - k, n, TRUE)
  BY <1>1, RootConjugate
<1>6. Root(h - k, n, TRUE) = Root(h + k, n, FALSE)
  <2>1. \A i, m, r \in Nat : i + m = r * n => Root(i, n, TRUE) = Root(m, n, FALSE)
    BY <1>3, RootOpposite
  <2> QED BY <1>1, <2>1
<1>7. Root(h + k, n, FALSE) = multiply(Root(h, n, FALSE), Root(k, n, FALSE))
  BY <1>1, <1>3, RootSum
<1>8. Root(k, n, FALSE) \in CkFftComplex
  BY <1>1, RootType
<1>9. conjugate(Root(h - k, n, FALSE)) = Minus(Root(k, n, FALSE))
  BY <1>2, <1>4, <1>5, <1>6, <1>7 DEF Minus
<1>10. multiply(Minus(Root(k, n, FALSE)), b) = Minus(multiply(Root(k, n, FALSE), b))
  BY <1>8, MinusFacts
<1> QED BY <1>9, <1>10 DEF n

(* e and o are the even and the odd ones of the 2*h real numbers x of the h *)
(* pairs z, E and O their transforms.                                       *)
PartsOf(z, x, e, o, h) ==
  \A j \in 0..(h - 1) :
    /\ e[j] \in CkFftComplex /\ o[j] \in CkFftComplex /\ multiply(I, o[j]) \in CkFftComplex
    /\ conjugate(e[j]) = e[j] /\ conjugate(o[j]) = o[j]
    /\ z[j] = add(e[j], multiply(I, o[j]))
    /\ e[j] = x[2 * j] /\ o[j] = x[2 * j + 1]

TransformsOf(z, x, E, O, h, inverse) ==
  /\ \A q \in 0..(h - 1) :
       /\ E[q] \in CkFftComplex /\ O[q] \in CkFftComplex
       /\ DFT(z, h, inverse)[q] = add(E[q], multiply(I, O[q]))
  /\ \A l, m \in 0..(h - 1) : m + l = 0 \/ m + l = h =>
       conjugate(E[m]) = E[l] /\ conjugate(O[m]) = O[l]
  /\ \A k \in 0..(2 * h - 1) : \A l \in 0..(h - 1) : k = l \/ k = l + h =>
       DFT(x, 2 * h, inverse)[k] = add(E[l], multiply(Root(k, 2 * h, inverse), O[l]))

(* The even and the odd numbers are the real and imaginary parts of the     *)
(* pairs.                                                                   *)
LEMMA PairParts ==
  ASSUME NEW h \in Nat \ {0}, NEW z, NEW x, PairsOf(z, x, h),
         NEW e, e = [j \in 0..(h - 1) |-> x[2 * j]],
         NEW o, o = [j \in 0..(h - 1) |-> x[2 * j + 1]]
  PROVE  PartsOf(z, x, e, o, h)
<1> DEFINE Parts(j) ==
             /\ e[j] \in CkFftComplex /\ o[j] \in CkFftComplex
             /\ multiply(I, o[j]) \in CkFftComplex
             /\ conjugate(e[j]) = e[j] /\ conjugate(o[j]) = o[j]
             /\ z[j] = add(e[j], multiply(I, o[j]))
             /\ e[j] = x[2 * j] /\ o[j] = x[2 * j + 1]
<1>1. ASSUME NEW j \in 0..(h - 1)
      PROVE  Parts(j)
  <2>1. e[j] = x[2 * j] /\ o[j] = x[2 * j + 1]
    OBVIOUS
  <2>2. /\ z[j] \in CkFftComplex /\ x[2 * j] = [real |-> z[j].real, imag |-> 0]
        /\ x[2 * j + 1] = [real |-> z[j].imag, imag |-> 0]
    BY DEF PairsOf
  <2>3. /\ e[j] \in CkFftComplex /\ o[j] \in CkFftComplex
        /\ conjugate(e[j]) = e[j] /\ conjugate(o[j]) = o[j]
        /\ z[j] = add(e[j], multiply(I, o[j]))
    BY <2>1, <2>2, PairSum
  <2>4. multiply(I, o[j]) \in CkFftComplex
    BY <2>3, QuarterTurnFacts, ComplexOps
  <2> QED BY <2>1, <2>3, <2>4
<1> QED BY ONLY <1>1 DEF PartsOf

(* All the numbers are real.                                                *)
LEMMA PairsReal ==
  ASSUME NEW h \in Nat \ {0}, NEW z, NEW x, PairsOf(z, x, h)
  PROVE  \A j \in 0..(2 * h - 1) : x[j] \in CkFftComplex /\ conjugate(x[j]) = x[j]
<1> SUFFICES ASSUME NEW j \in 0..(2 * h - 1)
             PROVE  x[j] \in CkFftComplex /\ conjugate(x[j]) = x[j]
  OBVIOUS
<1>1. PICK i \in 0..(h - 1) : j = 2 * i \/ j = 2 * i + 1
  <2>1. j \div 2 \in 0..(h - 1) /\ (j = 2 * (j \div 2) \/ j = 2 * (j \div 2) + 1)
    OBVIOUS
  <2> QED BY <2>1
<1>2. /\ z[i] \in CkFftComplex /\ x[2 * i] = [real |-> z[i].real, imag |-> 0]
      /\ x[2 * i + 1] = [real |-> z[i].imag, imag |-> 0]
  BY DEF PairsOf
<1>3. /\ x[2 * i] \in CkFftComplex /\ conjugate(x[2 * i]) = x[2 * i]
      /\ x[2 * i + 1] \in CkFftComplex /\ conjugate(x[2 * i + 1]) = x[2 * i + 1]
  BY <1>2, PairSum
<1> QED BY <1>1, <1>3

(* Their transforms E and O, and those of the pairs and of all numbers.     *)
LEMMA PairTransforms ==
  ASSUME NEW h \in Nat \ {0}, Divisor(2 * h), NEW z, NEW x, PairsOf(z, x, h),
         NEW e, e = [j \in 0..(h - 1) |-> x[2 * j]],
         NEW o, o = [j \in 0..(h - 1) |-> x[2 * j + 1]],
         NEW inverse \in BOOLEAN,
         NEW E, E = DFT(e, h, inverse), NEW O, O = DFT(o, h, inverse)
  PROVE  TransformsOf(z, x, E, O, h, inverse)
<1> DEFINE io == [j \in 0..(h - 1) |-> multiply(I, o[j])]
<1>1. Divisor(h)
  <2>1. h * 2 = 2 * h /\ 0 \in Nat /\ 2 \in Nat \ {0}
    OBVIOUS
  <2>2. Divisor(h * 2)
    BY <2>1
  <2> QED BY <2>1, <2>2, RootScale
<1>2. \A j \in 0..(h - 1) :
        /\ e[j] \in CkFftComplex /\ o[j] \in CkFftComplex /\ multiply(I, o[j]) \in CkFftComplex
        /\ conjugate(e[j]) = e[j] /\ conjugate(o[j]) = o[j]
        /\ z[j] = add(e[j], multiply(I, o[j]))
        /\ e[j] = x[2 * j] /\ o[j] = x[2 * j + 1]
  <2>1. PartsOf(z, x, e, o, h)
    BY PairParts
  <2> QED BY ONLY <2>1 DEF PartsOf
<1>3. \A j \in 0..(h - 1) : io[j] = multiply(I, o[j])
  OBVIOUS
<1>4. I \in CkFftComplex
  BY QuarterTurnFacts
<1> HIDE DEF io
<1>5. /\ Added(e, io, z, h) /\ Multiplied(I, o, io, h) /\ RealNumbers(e, h)
      /\ RealNumbers(o, h) /\ EvenOdd(x, e, o, h)
  <2>1. Added(e, io, z, h)
    BY <1>2, <1>3 DEF Added
  <2>2. Multiplied(I, o, io, h)
    BY <1>2, <1>3 DEF Multiplied
  <2>3. RealNumbers(e, h) /\ RealNumbers(o, h)
    BY <1>2 DEF RealNumbers
  <2>4. \A j \in 0..(2 * h - 1) : x[j] \in CkFftComplex
    BY PairsReal
  <2>5. EvenOdd(x, e, o, h)
    BY <1>2, <2>4 DEF EvenOdd
  <2> QED BY <2>1, <2>2, <2>3, <2>5
<1>6. ASSUME NEW q \in 0..(h - 1)
      PROVE  /\ DFT(e, h, inverse)[q] \in CkFftComplex /\ DFT(o, h, inverse)[q] \in CkFftComplex
             /\ DFT(z, h, inverse)[q] =
                  add(DFT(e, h, inverse)[q], multiply(I, DFT(o, h, inverse)[q]))
  <2>1. \A j \in 0..(h - 1) : e[j] \in CkFftComplex
    BY <1>2
  <2>2. \A j \in 0..(h - 1) : o[j] \in CkFftComplex
    BY <1>2
  <2> HIDE <1>2, <1>3
  <2>3. DFT(e, h, inverse)[q] \in CkFftComplex
    BY <2>1, DftType
  <2>4. DFT(o, h, inverse)[q] \in CkFftComplex
    BY <2>2, DftType
  <2>5. DFT(io, h, inverse)[q] = multiply(I, DFT(o, h, inverse)[q])
    BY <1>4, <1>5, DftMultiply
  <2>6. DFT(z, h, inverse)[q] = add(DFT(e, h, inverse)[q], DFT(io, h, inverse)[q])
    BY <1>5, DftAdd
  <2> QED BY <2>3, <2>4, <2>5, <2>6
<1>7. ASSUME NEW l \in 0..(h - 1), NEW m \in 0..(h - 1), m + l = 0 \/ m + l = h
      PROVE  /\ conjugate(DFT(e, h, inverse)[m]) = DFT(e, h, inverse)[l]
             /\ conjugate(DFT(o, h, inverse)[m]) = DFT(o, h, inverse)[l]
  BY <1>1, <1>5, <1>7, DftReal
<1>8. ASSUME NEW k \in 0..(2 * h - 1), NEW l \in 0..(h - 1), k = l \/ k = l + h
      PROVE  DFT(x, 2 * h, inverse)[k] =
               add(DFT(e, h, inverse)[l],
                   multiply(Root(k, 2 * h, inverse), DFT(o, h, inverse)[l]))
  BY <1>5, <1>8, DftHalves
<1> QED BY <1>6, <1>7, <1>8 DEF TransformsOf

(***************************************************************************)
(* Element k of the transform of h pairs and of their 2*h real numbers.     *)
(***************************************************************************)
LEMMA DftPairs ==
  ASSUME NEW h \in Nat \ {0}, Divisor(2 * h), NEW z, NEW x, PairsOf(z, x, h), NEW k \in 0..h,
         NEW Z, Z = DFT(z, h, FALSE), NEW X, X = DFT(x, 2 * h, FALSE)
  PROVE  \E A, B : Halves(A, B, Root(k, 2 * h, FALSE), Z[k % h], Z[(h - k) % h],
                          X[k], X[h - k])
<1> DEFINE n == 2 * h
           l == k % h
           m == (h - k) % h
           e == [j \in 0..(h - 1) |-> x[2 * j]]
           o == [j \in 0..(h - 1) |-> x[2 * j + 1]]
           E == DFT(e, h, FALSE)
           O == DFT(o, h, FALSE)
           w == Root(k, n, FALSE)
           v == Root(h - k, n, FALSE)
           A == E[l]
           B == O[l]
<1>1. /\ l \in 0..(h - 1) /\ m \in 0..(h - 1) /\ (l + m = 0 \/ l + m = h)
      /\ k = l \/ k = l + h
      /\ h - k = m \/ h - k = m + h
  <2>1. IndexPair(k, h, l, m)
    BY HalfIndex
  <2> HIDE DEF l, m
  <2> QED BY <2>1 DEF IndexPair
<1>2. k \in 0..(2 * h - 1) /\ h - k \in 0..(2 * h - 1) /\ k \in Nat /\ h - k \in Nat
      /\ n \in Nat \ {0}
  OBVIOUS
<1>3. /\ \A q \in 0..(h - 1) :
           /\ E[q] \in CkFftComplex /\ O[q] \in CkFftComplex
           /\ Z[q] = add(E[q], multiply(I, O[q]))
      /\ \A r, s \in 0..(h - 1) : s + r = 0 \/ s + r = h =>
           conjugate(E[s]) = E[r] /\ conjugate(O[s]) = O[r]
      /\ \A i \in 0..(2 * h - 1) : \A q \in 0..(h - 1) : i = q \/ i = q + h =>
           X[i] = add(E[q], multiply(Root(i, 2 * h, FALSE), O[q]))
  <2>1. ASSUME NEW inverse \in BOOLEAN, NEW F, F = DFT(e, h, inverse),
               NEW G, G = DFT(o, h, inverse)
        PROVE  TransformsOf(z, x, F, G, h, inverse)
    <3>1. e = [j \in 0..(h - 1) |-> x[2 * j]] /\ o = [j \in 0..(h - 1) |-> x[2 * j + 1]]
      OBVIOUS
    <3> HIDE DEF e, o
    <3> QED BY <2>1, <3>1, PairTransforms
  <2>2. FALSE \in BOOLEAN /\ E = DFT(e, h, FALSE) /\ O = DFT(o, h, FALSE)
    OBVIOUS
  <2> HIDE DEF e, o, E, O
  <2>3. TransformsOf(z, x, E, O, h, FALSE)
    BY <2>1, <2>2
  <2> QED BY <2>3 DEF TransformsOf
<1> HIDE DEF E, O, e, o
<1>4. conjugate(E[m]) = E[l] /\ conjugate(O[m]) = O[l]
  <2>1. m + l = 0 \/ m + l = h
    BY <1>1
  <2> HIDE DEF l, m
  <2> QED BY <1>1, <1>3, <2>1
<1>5. X[k] = add(A, multiply(w, B)) /\ X[h - k] = add(E[m], multiply(v, O[m]))
  <2> HIDE DEF l, m
  <2> QED BY <1>1, <1>2, <1>3
<1>6. w \in CkFftComplex /\ v \in CkFftComplex
  <2>1. ASSUME NEW inverse \in BOOLEAN
        PROVE  Root(k, n, inverse) \in CkFftComplex /\ Root(h - k, n, inverse) \in CkFftComplex
    <3> HIDE DEF n
    <3> QED BY <1>2, RootType
  <2> QED BY <2>1
<1>7. A \in CkFftComplex /\ B \in CkFftComplex /\ E[m] \in CkFftComplex /\ O[m] \in CkFftComplex
      /\ Z[l] = add(A, multiply(I, B)) /\ Z[m] = add(E[m], multiply(I, O[m]))
  <2> HIDE DEF l, m
  <2> QED BY <1>1, <1>3
<1> HIDE DEF A, B, l, m
<1>8. multiply(conjugate(v), B) = Minus(multiply(w, B))
  BY <1>7, OppositeFactor
<1>9. multiply(conjugate(I), B) = Minus(multiply(I, B))
  BY <1>7, QuarterTurnFacts
<1> HIDE DEF w, v, n
<1>10. I \in CkFftComplex
       /\ multiply(I, B) \in CkFftComplex /\ multiply(w, B) \in CkFftComplex
       /\ multiply(I, O[m]) \in CkFftComplex /\ multiply(v, O[m]) \in CkFftComplex
  BY <1>6, <1>7, QuarterTurnFacts, ComplexOps
<1>11. conjugate(Z[m]) = subtract(A, multiply(I, B))
  <2>1. conjugate(add(E[m], multiply(I, O[m]))) = add(conjugate(E[m]), conjugate(multiply(I, O[m])))
    BY <1>7, <1>10, ConjugateAdd
  <2>2. conjugate(multiply(I, O[m])) = multiply(conjugate(I), conjugate(O[m]))
    BY <1>7, <1>10, ConjugateMultiply
  <2>3. subtract(A, multiply(I, B)) = add(A, Minus(multiply(I, B)))
    BY <1>7, <1>10, MinusFacts
  <2> QED BY <1>4, <1>7, <1>9, <2>1, <2>2, <2>3 DEF A, B
<1>12. conjugate(X[h - k]) = subtract(A, multiply(w, B))
  <2>1. conjugate(add(E[m], multiply(v, O[m]))) = add(conjugate(E[m]), conjugate(multiply(v, O[m])))
    BY <1>7, <1>10, ConjugateAdd
  <2>2. conjugate(multiply(v, O[m])) = multiply(conjugate(v), conjugate(O[m]))
    BY <1>6, <1>7, ConjugateMultiply
  <2>3. subtract(A, multiply(w, B)) = add(A, Minus(multiply(w, B)))
    BY <1>7, <1>10, MinusFacts
  <2> QED BY <1>4, <1>5, <1>8, <2>1, <2>2, <2>3 DEF A, B
<1>13. /\ Z[l] \in CkFftComplex /\ Z[m] \in CkFftComplex
       /\ X[k] \in CkFftComplex /\ X[h - k] \in CkFftComplex
  <2>1. add(E[m], multiply(v, O[m])) \in CkFftComplex /\ add(E[m], multiply(I, O[m])) \in CkFftComplex
    BY <1>7, <1>10, ComplexOps
  <2>2. add(A, multiply(w, B)) \in CkFftComplex /\ add(A, multiply(I, B)) \in CkFftComplex
    BY <1>7, <1>10, ComplexOps
  <2> QED BY <1>5, <1>7, <2>1, <2>2
<1>14. Halves(A, B, w, Z[l], Z[m], X[k], X[h - k])
  BY <1>5, <1>6, <1>7, <1>11, <1>12, <1>13 DEF Halves
<1> QED BY <1>14 DEF w, l, m, n

(* Multiples of multiples, of a sum, of a conjugate; a whole turn more than *)
(* the modulus is 1.                                                        *)
LEMMA TimesFacts ==
  ASSUME NEW c \in CkFftComplex, NEW m \in Nat, NEW n \in Nat
  PROVE  /\ Times(n, c) \in CkFftComplex
         /\ Times(m, Times(n, c)) = Times(m * n, c)
         /\ add(Times(n, c), Times(n, c)) = Times(2 * n, c)
         /\ conjugate(Times(n, c)) = Times(n, conjugate(c))
         /\ Times(P + 1, c) = c
         /\ Times(n, c) = multiply([real |-> n % P, imag |-> 0], c)
<1>1. /\ c.real \in Int /\ c.imag \in Int /\ P \in Nat \ {0}
      /\ c.real % P = c.real /\ c.imag % P = c.imag
      /\ c = [real |-> c.real, imag |-> c.imag]
  BY ComplexFields, ModulusAssumption
<1>2. ASSUME NEW r \in Int
      PROVE  /\ (n * r) % P \in Float
             /\ (m * ((n * r) % P)) % P = (m * n * r) % P
             /\ (((n * r) % P) + ((n * r) % P)) % P = (2 * n * r) % P
             /\ (-((n * r) % P)) % P = (n * ((-r) % P)) % P
             /\ ((P + 1) * r) % P = r % P
             /\ ((n % P) * r) % P = (n * r) % P
  <2> DEFINE a == n * r
             s == -r
  <2>1. /\ a \in Int /\ s \in Int /\ m * a \in Int /\ a + a \in Int /\ -a \in Int /\ n * s \in Int
        /\ m * a = m * n * r /\ a + a = 2 * n * r /\ 0 - a = -a /\ n * s = -a
        /\ (P + 1) * r = r + r * P /\ (P + 1) * r \in Int
    BY <1>1
  <2> DEFINE b == m * n * r
             d == 2 * n * r
             e == (P + 1) * r
  <2>2. \A p, q \in Int : /\ ((p % P) + q) % P = (p + q) % P
                          /\ (p + (q % P)) % P = (p + q) % P
                          /\ (p - (q % P)) % P = (p - q) % P
                          /\ ((p % P) * q) % P = (p * q) % P
                          /\ (p * (q % P)) % P = (p * q) % P
                          /\ p % P \in Float /\ p % P \in Int
    <3>1. \A p \in Float : p \in Int
      BY ModulusAssumption DEF Float
    <3> QED BY <3>1, ModSum, ModOf
  <2>3. (m * (a % P)) % P = (m * a) % P /\ a % P \in Float
    <3> HIDE DEF a
    <3>1. m \in Int
      OBVIOUS
    <3> QED BY ONLY <2>1, <2>2, <3>1
  <2>4. ((a % P) + (a % P)) % P = (a + a) % P
    <3> HIDE DEF a
    <3>1. a % P \in Int
      BY <2>1, <2>2
    <3>2. ((a % P) + (a % P)) % P = (a + (a % P)) % P
      BY ONLY <2>1, <2>2, <3>1
    <3>3. (a + (a % P)) % P = (a + a) % P
      BY ONLY <2>1, <2>2
    <3> QED BY <3>2, <3>3
  <2>5. (-(a % P)) % P = (-a) % P
    <3> HIDE DEF a
    <3>1. (0 - (a % P)) % P = (0 - a) % P
      <4> 0 \in Int
        OBVIOUS
      <4> QED BY ONLY <2>1, <2>2, 0 \in Int
    <3>2. 0 - (a % P) = -(a % P)
      <4> a % P \in Int
        BY <2>1, <2>2
      <4> QED OBVIOUS
    <3> QED BY <2>1, <3>1, <3>2
  <2>6. (n * (s % P)) % P = (n * s) % P
    BY <2>1, <2>2
  <2>7. e % P = r % P
    <3> HIDE DEF e
    <3>1. e = r + r * P /\ e \in Int
      BY <2>1 DEF e
    <3> QED BY <3>1, ModSame
  <2>8. ((n % P) * r) % P = a % P
    BY <2>2
  <2>9. m * a = b /\ a + a = d /\ n * s = -a
    BY <2>1
  <2> HIDE DEF a, s, b, d, e
  <2>10. /\ a % P \in Float /\ (m * (a % P)) % P = b % P /\ ((a % P) + (a % P)) % P = d % P
         /\ (-(a % P)) % P = (n * (s % P)) % P /\ e % P = r % P /\ ((n % P) * r) % P = a % P
    BY ONLY <2>3, <2>4, <2>5, <2>6, <2>7, <2>8, <2>9, Zenon
  <2> QED BY <2>10 DEF a, s, b, d, e
<1>3. /\ (n * c.real) % P \in Float /\ (n * c.imag) % P \in Float
      /\ (m * ((n * c.real) % P)) % P = (m * n * c.real) % P
      /\ (m * ((n * c.imag) % P)) % P = (m * n * c.imag) % P
      /\ (((n * c.real) % P) + ((n * c.real) % P)) % P = (2 * n * c.real) % P
      /\ (((n * c.imag) % P) + ((n * c.imag) % P)) % P = (2 * n * c.imag) % P
      /\ (-((n * c.imag) % P)) % P = (n * ((-c.imag) % P)) % P
  BY <1>1, <1>2
<1>4. ((P + 1) * c.real) % P = c.real /\ ((P + 1) * c.imag) % P = c.imag
  BY <1>1, <1>2
<1>5. Times(n, c) \in CkFftComplex
  BY <1>3 DEF Times, CkFftComplex
<1>6. Times(m, Times(n, c)) = Times(m * n, c) /\ add(Times(n, c), Times(n, c)) = Times(2 * n, c)
  BY <1>3 DEF Times, add
<1>7. conjugate(Times(n, c)) = Times(n, conjugate(c))
  BY <1>3 DEF Times, conjugate
<1>8. Times(P + 1, c) = c
  BY <1>1, <1>4 DEF Times
<1>9. Times(n, c) = multiply([real |-> n % P, imag |-> 0], c)
  <2>1. /\ ((n % P) * c.real) % P = (n * c.real) % P
        /\ ((n % P) * c.imag) % P = (n * c.imag) % P
    BY <1>1, <1>2
  <2> DEFINE q == n % P
  <2>2. q \in Int /\ q * c.real - 0 * c.imag = q * c.real /\ 0 * c.real + q * c.imag = q * c.imag
    <3>1. q \in Int
      <4> \A p \in Float : p \in Int
        BY ModulusAssumption DEF Float
      <4> QED BY ModOf
    <3> HIDE DEF q
    <3> QED BY <1>1, <3>1
  <2> HIDE DEF q
  <2>3. multiply([real |-> q, imag |-> 0], c) =
          [real |-> (q * c.real) % P, imag |-> (q * c.imag) % P]
    BY <2>2 DEF multiply
  <2> QED BY <2>1, <2>3 DEF Times, q
<1> QED BY <1>5, <1>6, <1>7, <1>8, <1>9

(* The transform of a multiple.                                             *)
LEMMA DftTimes ==
  ASSUME NEW n \in Nat \ {0}, NEW inverse \in BOOLEAN, NEW k \in 0..(n - 1),
         NEW u \in Nat, NEW x, NEW z,
         \A j \in 0..(n - 1) : x[j] \in CkFftComplex /\ z[j] = Times(u, x[j])
  PROVE  DFT(z, n, inverse)[k] = Times(u, DFT(x, n, inverse)[k])
<1> DEFINE c == [real |-> u % P, imag |-> 0]
<1>1. c \in CkFftComplex
  <2>1. 0 \in Float
    BY ZeroOne DEF Zero, CkFftComplex
  <2> QED BY <2>1, ModOf DEF CkFftComplex
<1>2. \A a \in CkFftComplex : Times(u, a) = multiply(c, a)
  BY TimesFacts
<1> HIDE DEF c
<1>3. Multiplied(c, x, z, n)
  BY <1>2 DEF Multiplied
<1>4. DFT(z, n, inverse)[k] = multiply(c, DFT(x, n, inverse)[k])
  BY <1>1, <1>3, DftMultiply
<1>5. DFT(x, n, inverse)[k] \in CkFftComplex
  BY DftType
<1> QED BY <1>2, <1>4, <1>5

(* The transform of an inverse transform is n times the original.           *)
LEMMA DftOfInverse ==
  ASSUME NEW n \in Nat \ {0}, isPowerOfTwo(n), Divisor(n),
         NEW x, \A j \in 0..(n - 1) : x[j] \in CkFftComplex, NEW k \in 0..(n - 1)
  PROVE  DFT(DFT(x, n, TRUE), n, FALSE)[k] = Times(n, x[k])
<1> DEFINE y == [j \in 0..(n - 1) |-> conjugate(x[j])]
           X == DFT(x, n, TRUE)
           Y == DFT(y, n, FALSE)
<1>1. ASSUME NEW b \in BOOLEAN, NEW c \in BOOLEAN, b # c, NEW v, NEW w,
             \A j \in 0..(n - 1) : v[j] \in CkFftComplex /\ w[j] = conjugate(v[j]),
             NEW j \in 0..(n - 1)
      PROVE  DFT(w, n, c)[j] = conjugate(DFT(v, n, b)[j])
  BY <1>1, DftOpposite
<1>2. \A j \in 0..(n - 1) :
        y[j] \in CkFftComplex /\ y[j] = conjugate(x[j]) /\ conjugate(y[j]) = x[j]
  BY ComplexOps, ConjugateTwice
<1>3. \A j \in 0..(n - 1) : X[j] = conjugate(Y[j])
  <2> HIDE DEF y
  <2>1. \A j \in 0..(n - 1) : y[j] \in CkFftComplex /\ x[j] = conjugate(y[j])
    BY <1>2
  <2>2. TRUE # FALSE
    BY Zenon
  <2> QED BY <1>1, <2>1, <2>2
<1>4. \A j \in 0..(n - 1) : Y[j] \in CkFftComplex
  <2> HIDE DEF y
  <2> QED BY <1>2, DftType
<1>5. DFT(Y, n, TRUE)[k] = Times(n, y[k])
  <2> HIDE DEF y
  <2> QED BY <1>2, DftInverse
<1> HIDE DEF y, X, Y
<1>6. DFT(X, n, FALSE)[k] = conjugate(DFT(Y, n, TRUE)[k])
  <2>1. TRUE # FALSE
    BY Zenon
  <2> QED BY <1>1, <1>3, <1>4, <2>1
<1>7. conjugate(Times(n, y[k])) = Times(n, x[k])
  <2>1. \A c \in CkFftComplex, m \in Nat : conjugate(Times(n, c)) = Times(n, conjugate(c))
    BY TimesFacts
  <2>2. y[k] \in CkFftComplex /\ conjugate(y[k]) = x[k] /\ n \in Nat
    BY <1>2
  <2> QED BY <2>1, <2>2
<1> QED BY <1>5, <1>6, <1>7 DEF X

-----------------------------------------------------------------------------
(***************************************************************************)
(* Everything that has the symmetry of a spectrum of real data is one.      *)
(***************************************************************************)
Symmetric(X, n) ==
  /\ \A k \in 0..(n - 1) : X[k] \in CkFftComplex
  /\ \A k, l \in 0..(n - 1) : (k + l = 0 \/ k + l = n) => conjugate(X[k]) = X[l]

(* Its inverse transform is real: it has the transform of its conjugate.    *)
LEMMA InverseReal ==
  ASSUME NEW n \in Nat \ {0}, isPowerOfTwo(n), Divisor(n), NEW X, Symmetric(X, n)
  PROVE  RealNumbers(DFT(X, n, TRUE), n)
<1> DEFINE G == DFT(X, n, TRUE)
           H == [j \in 0..(n - 1) |-> conjugate(G[j])]
<1>1. /\ \A k \in 0..(n - 1) : X[k] \in CkFftComplex
      /\ \A k, l \in 0..(n - 1) : (k + l = 0 \/ k + l = n) => conjugate(X[k]) = X[l]
  BY DEF Symmetric
<1>2. \A j \in 0..(n - 1) : G[j] \in CkFftComplex
  BY <1>1, DftType
<1>3. \A k \in 0..(n - 1) : DFT(G, n, FALSE)[k] = Times(n, X[k])
  BY <1>1, DftOfInverse
<1> HIDE DEF G
<1>4. \A j \in 0..(n - 1) : H[j] = conjugate(G[j]) /\ H[j] \in CkFftComplex
  BY <1>2, ComplexOps
<1> HIDE DEF H
<1>5. ASSUME NEW k \in 0..(n - 1) PROVE DFT(H, n, FALSE)[k] = DFT(G, n, FALSE)[k]
  <2>1. PICK l \in 0..(n - 1) : k + l = 0 \/ k + l = n
    <3>1. CASE k = 0
      BY <3>1
    <3>2. CASE k # 0
      <4>1. n - k \in 0..(n - 1) /\ k + (n - k) = n
        BY <3>2
      <4> QED BY <4>1
    <3> QED BY <3>1, <3>2
  <2>2. l + k = 0 \/ l + k = n
    BY <2>1
  <2>3. conjugate(DFT(G, n, FALSE)[l]) = DFT(H, n, FALSE)[k]
    <3>1. \A j \in 0..(n - 1) : G[j] \in CkFftComplex /\ H[j] = conjugate(G[j])
      BY <1>2, <1>4
    <3>2. \A b \in BOOLEAN : conjugate(DFT(G, n, b)[l]) = DFT(H, n, b)[k]
      BY ONLY <2>2, <3>1, n \in Nat \ {0}, Divisor(n), DftConjugate
    <3> QED BY <3>2
  <2>4. conjugate(Times(n, X[l])) = Times(n, conjugate(X[l]))
    <3>1. X[l] \in CkFftComplex /\ n \in Nat
      BY <1>1
    <3> QED BY <3>1, TimesFacts
  <2>5. conjugate(X[l]) = X[k]
    BY <1>1, <2>2
  <2> QED BY <1>3, <2>3, <2>4, <2>5
<1>6. DFT(H, n, FALSE) = DFT(G, n, FALSE)
  BY <1>5 DEF DFT
<1>7. PICK s \in Nat : n * s = P + 1
  BY DEF Divisor
<1>8. s \in Nat /\ n \in Nat /\ s * n = P + 1
  BY <1>7
<1>9. ASSUME NEW c \in CkFftComplex PROVE Times(s, Times(n, c)) = c
  <2>1. Times(s, Times(n, c)) = Times(s * n, c) /\ Times(P + 1, c) = c
    BY <1>8, TimesFacts
  <2> QED BY <1>8, <2>1
<1> SUFFICES ASSUME NEW j \in 0..(n - 1) PROVE G[j] \in CkFftComplex /\ conjugate(G[j]) = G[j]
  BY DEF RealNumbers, G
<1>10. DFT(DFT(H, n, FALSE), n, TRUE)[j] = Times(n, H[j])
  BY <1>4, DftInverse
<1>11. DFT(DFT(G, n, FALSE), n, TRUE)[j] = Times(n, G[j])
  BY <1>2, DftInverse
<1>12. Times(n, H[j]) = Times(n, G[j])
  BY <1>6, <1>10, <1>11
<1>13. H[j] = G[j]
  BY <1>2, <1>4, <1>9, <1>12
<1> QED BY <1>2, <1>4, <1>13

(* The number that undoes the scale 2n of a round trip.                     *)
Undo(n) == CHOOSE u \in Nat : 2 * n * u = (P + 1) * (P + 1)

LEMMA UndoExists ==
  ASSUME NEW n \in Nat \ {0}, Divisor(n)
  PROVE  Undo(n) \in Nat /\ 2 * n * Undo(n) = (P + 1) * (P + 1)
<1>1. PICK s \in Nat : n * s = P + 1
  BY DEF Divisor
<1>2. PICK q \in Nat : 4 * q = P + 1
  <2>1. \A q \in 0..P : q \in Nat
    BY ModulusAssumption
  <2> QED BY <2>1, ExpiAssumption
<1>3. s * (2 * q) \in Nat /\ 2 * n * (s * (2 * q)) = (n * s) * (4 * q)
  OBVIOUS
<1>4. \E u \in Nat : 2 * n * u = (P + 1) * (P + 1)
  BY <1>1, <1>2, <1>3
<1> QED BY <1>4, Zenon DEF Undo

(* The data whose spectrum, scaled by 2, is X.                              *)
DataOf(X, n) == [j \in 0..(n - 1) |-> Times(Undo(n), DFT(X, n, TRUE)[j])]

LEMMA DataOfSpectrum ==
  ASSUME NEW n \in Nat \ {0}, isPowerOfTwo(n), Divisor(n), NEW X, Symmetric(X, n)
  PROVE  /\ RealNumbers(DataOf(X, n), n)
         /\ \A k \in 0..(n - 1) :
              LET Y == DFT(DataOf(X, n), n, FALSE) IN add(Y[k], Y[k]) = X[k]
         /\ \A j \in 0..(n - 1) : Times(2 * n, DataOf(X, n)[j]) = DFT(X, n, TRUE)[j]
<1> DEFINE G == DFT(X, n, TRUE)
           u == Undo(n)
           d == DataOf(X, n)
<1>1. u \in Nat /\ 2 * n * u = (P + 1) * (P + 1)
  BY UndoExists
<1>2. \A j \in 0..(n - 1) : G[j] \in CkFftComplex /\ conjugate(G[j]) = G[j]
  BY InverseReal DEF RealNumbers
<1>3. \A k \in 0..(n - 1) : X[k] \in CkFftComplex
  BY DEF Symmetric
<1>4. \A k \in 0..(n - 1) : DFT(G, n, FALSE)[k] = Times(n, X[k])
  BY <1>3, DftOfInverse
<1>5. \A j \in 0..(n - 1) : d[j] = Times(u, G[j])
  BY DEF DataOf
<1> HIDE DEF u, d, G
<1>6. ASSUME NEW c \in CkFftComplex
      PROVE  /\ Times(u, c) \in CkFftComplex /\ conjugate(Times(u, c)) = Times(u, conjugate(c))
             /\ Times(2 * n, Times(u, c)) = c
             /\ add(Times(u, Times(n, c)), Times(u, Times(n, c))) = c
  <2>1. \A m, l \in Nat, a \in CkFftComplex :
          /\ Times(l, a) \in CkFftComplex /\ Times(m, Times(l, a)) = Times(m * l, a)
          /\ add(Times(l, a), Times(l, a)) = Times(2 * l, a) /\ Times(P + 1, a) = a
          /\ conjugate(Times(l, a)) = Times(l, conjugate(a))
    BY TimesFacts
  <2>2. n \in Nat /\ 2 * n \in Nat /\ P + 1 \in Nat /\ u * n \in Nat /\ 2 * (u * n) = 2 * n * u
    BY <1>1, ModulusAssumption
  <2>3. Times(2 * n * u, c) = c
    <3>1. Times(P + 1, Times(P + 1, c)) = Times((P + 1) * (P + 1), c)
      BY <2>1, <2>2
    <3>2. Times(P + 1, Times(P + 1, c)) = c
      BY <2>1, <2>2
    <3> QED BY <1>1, <3>1, <3>2
  <2>4. Times(2 * n, Times(u, c)) = c
    <3>1. Times(2 * n, Times(u, c)) = Times(2 * n * u, c)
      BY <1>1, <2>1, <2>2
    <3> QED BY <2>3, <3>1
  <2>5. add(Times(u, Times(n, c)), Times(u, Times(n, c))) = c
    <3>1. Times(u, Times(n, c)) = Times(u * n, c)
      BY <1>1, <2>1, <2>2
    <3>2. add(Times(u * n, c), Times(u * n, c)) = Times(2 * (u * n), c)
      BY <2>1, <2>2
    <3> QED BY <2>2, <2>3, <3>1, <3>2
  <2> QED BY <1>1, <2>1, <2>4, <2>5
<1>7. RealNumbers(d, n)
  BY <1>2, <1>5, <1>6 DEF RealNumbers
<1>8. ASSUME NEW k \in 0..(n - 1)
      PROVE  add(DFT(d, n, FALSE)[k], DFT(d, n, FALSE)[k]) = X[k]
  <2>1. \A b \in BOOLEAN : DFT(d, n, b)[k] = Times(u, DFT(G, n, b)[k])
    BY <1>1, <1>2, <1>5, DftTimes
  <2>2. DFT(d, n, FALSE)[k] = Times(u, Times(n, X[k]))
    BY <1>4, <2>1
  <2> QED BY <1>3, <1>6, <2>2
<1>9. \A j \in 0..(n - 1) : Times(2 * n, d[j]) = G[j]
  BY <1>2, <1>5, <1>6
<1> QED BY <1>7, <1>8, <1>9 DEF d, G
=============================================================================
