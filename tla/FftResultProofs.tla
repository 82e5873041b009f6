--------------------------- MODULE FftResultProofs ---------------------------
(***************************************************************************)
(* Proofs that the complex FFT computes the transform it is asked for: the  *)
(* radix-4 step of the transform, every leaf and iteration of fft_default   *)
(* and fft_neon, and the recursion as an invariant of the call stacks.      *)
(***************************************************************************)
EXTENDS FftProofs

(* The butterfly multiplies its inputs by the powers of a quarter turn and  *)
(* adds them.                                                               *)
LEMMA Radix4Quad ==
  ASSUME NEW f0 \in CkFftComplex, NEW f1 \in CkFftComplex,
         NEW f2 \in CkFftComplex, NEW f3 \in CkFftComplex,
         NEW inverse \in BOOLEAN, NEW a \in 0..3
  PROVE  Radix4(f0, f1, f2, f3, inverse)[a + 1] =
           Quad(f0, multiply(Root(a, 4, inverse), f1), multiply(Root(2 * a, 4, inverse), f2),
                multiply(Root(3 * a, 4, inverse), f3))
<1> DEFINE R(j) == Root(j, 4, inverse)
           sum02 == add(f0, f2)
           sum13 == add(f1, f3)
           diff02 == subtract(f0, f2)
           diff13 == subtract(f1, f3)
           r1 == R(1)
           r2 == R(2)
           r3 == R(3)
           turned == multiply(r1, diff13)
<1>1. /\ r1 \in CkFftComplex /\ r2 \in CkFftComplex /\ r3 \in CkFftComplex
      /\ sum02 \in CkFftComplex /\ sum13 \in CkFftComplex
      /\ diff02 \in CkFftComplex /\ diff13 \in CkFftComplex
  <2>1. 4 \in Nat \ {0} /\ 1 \in Nat /\ 2 \in Nat /\ 3 \in Nat
    OBVIOUS
  <2> QED BY <2>1, RootType, ComplexOps
<1>2. turned \in CkFftComplex
  <2> HIDE DEF r1, diff13
  <2> QED BY <1>1, ComplexOps
<1>3. Radix4(f0, f1, f2, f3, inverse) =
        << add(sum02, sum13), add(diff02, turned), subtract(sum02, sum13), subtract(diff02, turned) >>
  <2>1. /\ diff02.real \in Int /\ diff02.imag \in Int /\ diff13.real \in Int /\ diff13.imag \in Int
    <3> HIDE DEF diff02, diff13
    <3> QED BY <1>1, ComplexFields
  <2>2. turned = IF inverse THEN [real |-> (-diff13.imag) % P, imag |-> diff13.real]
                            ELSE [real |-> diff13.imag, imag |-> (-diff13.real) % P]
    <3> HIDE DEF diff13
    <3> QED BY <1>1, TimesQuarterTurn
  <2>3. ASSUME NEW x \in Int, NEW y \in Int
        PROVE  (x + ((-y) % P)) % P = (x - y) % P /\ (x - ((-y) % P)) % P = (x + y) % P
    <3> DEFINE u == -y
    <3>1. u \in Int /\ x + u = x - y /\ x - u = x + y
      OBVIOUS
    <3> HIDE DEF u
    <3>2. (x + (u % P)) % P = (x + u) % P
      BY <3>1, ModSum
    <3>3. (x - (u % P)) % P = (x - u) % P
      BY <3>1, ModSum
    <3> QED BY <3>1, <3>2, <3>3 DEF u
  <2> DEFINE minusI == [real |-> (diff02.real + diff13.imag) % P,
                        imag |-> (diff02.imag - diff13.real) % P]
             plusI == [real |-> (diff02.real - diff13.imag) % P,
                       imag |-> (diff02.imag + diff13.real) % P]
  <2>4. Radix4(f0, f1, f2, f3, inverse) =
          << add(sum02, sum13), IF inverse THEN plusI ELSE minusI,
             subtract(sum02, sum13), IF inverse THEN minusI ELSE plusI >>
    BY DEF Radix4
  <2>5. /\ add(diff02, turned) = IF inverse THEN plusI ELSE minusI
        /\ subtract(diff02, turned) = IF inverse THEN minusI ELSE plusI
    <3> HIDE DEF diff02, diff13, turned
    <3>1. CASE inverse
      <4>1. turned = [real |-> (-diff13.imag) % P, imag |-> diff13.real]
        BY <2>2, <3>1
      <4>2. add(diff02, turned) = plusI /\ subtract(diff02, turned) = minusI
        BY <2>1, <2>3, <4>1 DEF add, subtract
      <4> QED BY <3>1, <4>2
    <3>2. CASE ~inverse
      <4>1. turned = [real |-> diff13.imag, imag |-> (-diff13.real) % P]
        BY <2>2, <3>2
      <4>2. add(diff02, turned) = minusI /\ subtract(diff02, turned) = plusI
        BY <2>1, <2>3, <4>1 DEF add, subtract
      <4> QED BY <3>2, <4>2
    <3> QED BY <3>1, <3>2
  <2> HIDE DEF minusI, plusI, turned, diff02, diff13, sum02, sum13
  <2> QED BY <2>4, <2>5
<1>4. /\ r3 = multiply(r2, r1) /\ r1 = multiply(r3, r2)
      /\ R(0) = One /\ R(4) = One /\ R(6) = r2 /\ R(9) = r1
  <2>1. Divisor(4)
    BY RootQuarter
  <2>2. /\ 0 \in Nat /\ 1 \in Nat /\ 2 \in Nat /\ 3 \in Nat
        /\ 2 + 1 = 3 /\ 3 + 2 = 5 /\ 1 + 1 * 4 = 5 /\ 0 + 1 * 4 = 4 /\ 2 + 1 * 4 = 6 /\ 1 + 2 * 4 = 9
    OBVIOUS
  <2>3. \A i, j \in Nat : Root(i + j, 4, inverse) = multiply(Root(i, 4, inverse), Root(j, 4, inverse))
    BY <2>1, RootSum
  <2>4. \A i, q \in Nat : Root(i + q * 4, 4, inverse) = Root(i, 4, inverse)
    BY <2>1, RootPeriod
  <2>5. R(0) = One
    BY <2>1, RootZero
  <2>6. R(5) = r1 /\ R(4) = R(0) /\ R(6) = r2 /\ R(9) = r1
    BY <2>2, <2>4, Zenon
  <2>7. r3 = multiply(r2, r1) /\ R(5) = multiply(r3, r2)
    BY <2>2, <2>3, Zenon
  <2> QED BY <2>5, <2>6, <2>7
<1>5. \A x \in CkFftComplex : multiply(One, x) = x
  BY MultiplyOne
<1>6. \A x, y \in CkFftComplex : subtract(x, y) = add(x, multiply(r2, y))
  BY SubtractIsAdd
<1>7. CASE a = 0
  <2>1. 2 * a = 0 /\ 3 * a = 0 /\ a + 1 = 1
    BY <1>7
  <2>2. Radix4(f0, f1, f2, f3, inverse)[1] = add(sum02, sum13)
    BY <1>3
  <2>3. Quad(f0, multiply(One, f1), multiply(One, f2), multiply(One, f3)) = add(sum02, sum13)
    BY <1>5 DEF Quad
  <2> QED BY <1>4, <1>7, <2>1, <2>2, <2>3
<1>8. CASE a = 1
  <2>1. 2 * a = 2 /\ 3 * a = 3 /\ a + 1 = 2
    BY <1>8
  <2>2. Radix4(f0, f1, f2, f3, inverse)[2] = add(diff02, turned)
    BY <1>3
  <2>3. diff02 = add(f0, multiply(r2, f2)) /\ diff13 = add(f1, multiply(r2, f3))
    BY <1>6
  <2>4. multiply(r3, f3) = multiply(r1, multiply(r2, f3))
    <3>1. multiply(r2, r1) = multiply(r1, r2)
      <4> HIDE DEF r1, r2
      <4> QED BY <1>1, MultiplyCommutes
    <3> HIDE DEF r1, r2, r3
    <3> QED BY <1>1, <1>4, <3>1, MultiplyAssociates
  <2>5. turned = add(multiply(r1, f1), multiply(r1, multiply(r2, f3)))
    <3>1. multiply(r2, f3) \in CkFftComplex
      <4> HIDE DEF r2
      <4> QED BY <1>1, ComplexOps
    <3> DEFINE x == multiply(r2, f3)
    <3>2. x \in CkFftComplex
      BY <3>1
    <3>3. diff13 = add(f1, x)
      BY <2>3
    <3> HIDE DEF x, r1, diff13
    <3>4. multiply(r1, add(f1, x)) = add(multiply(r1, f1), multiply(r1, x))
      BY <1>1, <3>2, MultiplyDistributes
    <3> QED BY <3>3, <3>4 DEF x
  <2> HIDE DEF diff02, turned, r1, r2, r3
  <2>6. Quad(f0, multiply(r1, f1), multiply(r2, f2), multiply(r3, f3)) = add(diff02, turned)
    BY <2>3, <2>4, <2>5 DEF Quad
  <2> QED BY <1>8, <2>1, <2>2, <2>6 DEF r1, r2, r3
<1>9. CASE a = 2
  <2>1. 2 * a = 4 /\ 3 * a = 6 /\ a + 1 = 3
    BY <1>9
  <2>2. Radix4(f0, f1, f2, f3, inverse)[3] = subtract(sum02, sum13)
    BY <1>3
  <2>3. subtract(sum02, sum13) = add(sum02, multiply(r2, sum13))
    <3> HIDE DEF sum02, sum13, r2
    <3> QED BY <1>1, <1>6
  <2>4. multiply(r2, sum13) = add(multiply(r2, f1), multiply(r2, f3))
    <3> HIDE DEF r2
    <3> QED BY <1>1, MultiplyDistributes
  <2>5. Quad(f0, multiply(r2, f1), multiply(One, f2), multiply(r2, f3)) =
          add(sum02, add(multiply(r2, f1), multiply(r2, f3)))
    BY <1>5 DEF Quad
  <2> QED BY <1>4, <1>9, <2>1, <2>2, <2>3, <2>4, <2>5
<1>10. CASE a = 3
  <2>1. 2 * a = 6 /\ 3 * a = 9 /\ a + 1 = 4
    BY <1>10
  <2>2. Radix4(f0, f1, f2, f3, inverse)[4] = subtract(diff02, turned)
    BY <1>3
  <2>3. diff02 = add(f0, multiply(r2, f2)) /\ diff13 = add(f1, multiply(r2, f3))
    BY <1>6
  <2>4. subtract(diff02, turned) = add(diff02, multiply(r2, turned))
    <3> HIDE DEF diff02, turned, r2
    <3> QED BY <1>1, <1>2, <1>6
  <2>5. multiply(r2, turned) = multiply(r3, diff13)
    <3> HIDE DEF r1, r2, r3, diff13
    <3> QED BY <1>1, <1>4, MultiplyAssociates DEF turned
  <2>6. multiply(r3, diff13) = add(multiply(r3, f1), multiply(r3, multiply(r2, f3)))
    <3>1. multiply(r2, f3) \in CkFftComplex
      <4> HIDE DEF r2
      <4> QED BY <1>1, ComplexOps
    <3> DEFINE x == multiply(r2, f3)
    <3>2. x \in CkFftComplex
      BY <3>1
    <3>3. diff13 = add(f1, x)
      BY <2>3
    <3> HIDE DEF x, r3, diff13
    <3>4. multiply(r3, add(f1, x)) = add(multiply(r3, f1), multiply(r3, x))
      BY <1>1, <3>2, MultiplyDistributes
    <3> QED BY <3>3, <3>4 DEF x
  <2>7. multiply(r3, multiply(r2, f3)) = multiply(r1, f3)
    <3> HIDE DEF r1, r2, r3
    <3> QED BY <1>1, <1>4, MultiplyAssociates
  <2> HIDE DEF diff02, turned, diff13, r1, r2, r3
  <2>8. Quad(f0, multiply(r3, f1), multiply(r2, f2), multiply(r1, f3)) = subtract(diff02, turned)
    BY <2>3, <2>4, <2>5, <2>6, <2>7 DEF Quad
  <2> QED BY <1>4, <1>10, <2>1, <2>2, <2>8 DEF r1, r2, r3
<1> QED BY <1>7, <1>8, <1>9, <1>10

(* Every fourth element of x, from the q-th. *)
Every4th(x, q, n) == [j \in 0..(n - 1) |-> x[4 * j + q]]

(* N elements are four times n; element k is the l-th of quarter a.         *)
Quarters(N, n) == n \in Nat \ {0} /\ N = 4 * n /\ Divisor(N)
Element(k, a, l, n) == a \in 0..3 /\ l \in 0..(n - 1) /\ k = a * n + l

(* The terms of a sum that every fourth element contributes.                *)
QuarterTerms(x, q, k, n, N, inverse) ==
  [j \in 0..(n - 1) |-> multiply(x[4 * j + q], Root((4 * j + q) * k, N, inverse))]

(* A quarter of a sum is a root of unity times the transform of every       *)
(* fourth element.                                                          *)
LEMMA DftQuarter ==
  ASSUME NEW N, NEW n, Quarters(N, n), NEW inverse \in BOOLEAN,
         NEW x, \A j \in 0..(N - 1) : x[j] \in CkFftComplex,
         NEW k, NEW a, NEW l, Element(k, a, l, n), NEW q \in 0..3
  PROVE  SumOf(QuarterTerms(x, q, k, n, N, inverse), n) =
           multiply(Root(q * a, 4, inverse),
                    multiply(DFT(Every4th(x, q, n), n, inverse)[l], Root(q * l, N, inverse)))
<1>0. /\ n \in Nat \ {0} /\ N \in Nat \ {0} /\ N = 4 * n /\ Divisor(N)
      /\ a \in 0..3 /\ l \in 0..(n - 1) /\ k = a * n + l
  BY DEF Quarters, Element
<1> DEFINE z == QuarterTerms(x, q, k, n, N, inverse)
           xq == Every4th(x, q, n)
           u == [j \in 0..(n - 1) |-> multiply(xq[j], Root(j * l, n, inverse))]
           w == Root(q * k, N, inverse)
<1>1. k \in Nat /\ q * k \in Nat /\ q * l \in Nat /\ q * a \in Nat /\ l \in Nat
  BY <1>0
<1>2. Divisor(n) /\ \A j \in Nat : Root(j * 4, N, inverse) = Root(j, n, inverse)
  <2>1. N = n * 4 /\ 4 \in Nat \ {0}
    BY <1>0
  <2>2. Divisor(n * 4)
    BY <1>0, <2>1
  <2>3. ASSUME NEW j \in Nat PROVE Root(j * 4, n * 4, inverse) = Root(j, n, inverse) /\ Divisor(n)
    BY <1>0, <2>1, <2>2, RootScale
  <2> QED BY <1>0, <2>1, <2>3
<1>3. \A j \in Nat : Root(j * n, N, inverse) = Root(j, 4, inverse)
  <2>1. N = 4 * n /\ 4 \in Nat \ {0}
    BY <1>0
  <2>2. Divisor(4 * n)
    BY <1>0, <2>1
  <2>3. ASSUME NEW j \in Nat PROVE Root(j * n, 4 * n, inverse) = Root(j, 4, inverse)
    BY <1>0, <2>1, <2>2, RootScale
  <2> QED BY <1>0, <2>1, <2>3
<1>4. \A i, j \in Nat : Root(i + j, N, inverse) = multiply(Root(i, N, inverse), Root(j, N, inverse))
  BY <1>0, RootSum
<1>5. w \in CkFftComplex
  <2> QED BY <1>0, <1>1, RootType
<1>6. ASSUME NEW j \in 0..(n - 1)
      PROVE  u[j] \in CkFftComplex /\ z[j] = multiply(w, u[j])
  <2> DEFINE i == j * l
             e == Root(i, n, inverse)
             v == x[4 * j + q]
  <2>1. /\ i \in Nat /\ j * a \in Nat /\ (j * a) * N \in Nat /\ i * 4 \in Nat
        /\ i * 4 + (j * a) * N \in Nat
        /\ (4 * j + q) * k = (i * 4 + (j * a) * N) + q * k
    <3>1. j \in Nat /\ a \in Nat /\ l \in Nat /\ q \in Nat /\ n \in Nat
      BY <1>0
    <3>2. (4 * j + q) * k = 4 * (j * (a * n + l)) + q * k
      BY <1>0, <3>1
    <3>3. 4 * (j * (a * n + l)) = (j * l) * 4 + (j * a) * (4 * n)
      BY <1>0, <3>1
    <3>4. j * l \in Nat /\ j * a \in Nat /\ N \in Nat /\ N = 4 * n
      BY <1>0, <3>1
    <3>5. (j * a) * N \in Nat
      BY <1>0, <3>4
    <3> QED BY <1>0, <3>2, <3>3, <3>4, <3>5
  <2> HIDE DEF i
  <2>2. Root(i * 4 + (j * a) * N, N, inverse) = Root(i * 4, N, inverse)
    <3>1. \A g, h \in Nat : Root(g + h * N, N, inverse) = Root(g, N, inverse)
      BY <1>0, RootPeriod
    <3> QED BY <1>0, <2>1, <3>1, Zenon
  <2>3. Root(i * 4, N, inverse) = e
    BY <1>0, <1>2, <2>1
  <2>4. Root((4 * j + q) * k, N, inverse) = multiply(e, w)
    <3> DEFINE g == i * 4 + (j * a) * N
               h == q * k
    <3>1. g \in Nat /\ h \in Nat /\ (4 * j + q) * k = g + h
      BY <1>0, <1>1, <2>1
    <3>2. Root(g, N, inverse) = e
      BY <1>0, <2>2, <2>3
    <3> HIDE DEF g, h
    <3>3. Root(g + h, N, inverse) = multiply(Root(g, N, inverse), Root(h, N, inverse))
      BY <1>0, <1>4, <3>1
    <3> QED BY <1>0, <3>1, <3>2, <3>3 DEF h
  <2>5. e \in CkFftComplex
    BY <1>0, <2>1, RootType
  <2>6. v \in CkFftComplex /\ xq[j] = v
    <3>1. 4 * j + q \in 0..(N - 1)
      BY <1>0
    <3> QED BY <1>0, <3>1 DEF Every4th
  <2>7. u[j] = multiply(v, e)
    BY <1>0, <2>6 DEF i
  <2>8. z[j] = multiply(v, multiply(e, w))
    BY <1>0, <2>4 DEF QuarterTerms
  <2> HIDE DEF v, e, w, u, z
  <2>9. multiply(v, e) \in CkFftComplex
    BY <1>0, <2>5, <2>6, ComplexOps
  <2>10. multiply(v, multiply(e, w)) = multiply(multiply(v, e), w)
    BY <1>0, <1>5, <2>5, <2>6, MultiplyAssociates
  <2>11. multiply(multiply(v, e), w) = multiply(w, multiply(v, e))
    <3> DEFINE s == multiply(v, e)
    <3>1. s \in CkFftComplex
      BY <1>0, <2>9
    <3> HIDE DEF s
    <3>2. multiply(s, w) = multiply(w, s)
      BY <1>0, <1>5, <3>1, MultiplyCommutes
    <3> QED BY <1>0, <3>2 DEF s
  <2> QED BY <1>0, <2>7, <2>8, <2>9, <2>10, <2>11
<1> DEFINE d == DFT(xq, n, inverse)[l]
<1>7. d = SumOf(u, n)
  <2> HIDE DEF xq
  <2> QED BY <1>0, DftElement
<1>8. d \in CkFftComplex
  <2>1. ASSUME NEW j \in 0..(n - 1) PROVE xq[j] \in CkFftComplex
    <3>1. 4 * j + q \in 0..(N - 1)
      BY <1>0
    <3> QED BY <1>0, <3>1 DEF Every4th
  <2> HIDE DEF xq
  <2> QED BY <1>0, <2>1, DftType
<1>9. SumOf(z, n) = multiply(w, d)
  <2> HIDE DEF u, w, d, z
  <2> QED BY <1>0, <1>5, <1>6, <1>7, SumOfMultiply
<1> DEFINE r == Root(q * l, N, inverse)
           s == Root(q * a, 4, inverse)
<1>10. w = multiply(r, s)
  <2>1. q * k = q * l + (q * a) * n /\ (q * a) * n \in Nat
    BY <1>0
  <2>2. Root((q * a) * n, N, inverse) = s
    BY <1>0, <1>1, <1>3
  <2> DEFINE g == q * l
             h == (q * a) * n
  <2>3. g \in Nat /\ h \in Nat /\ q * k = g + h
    BY <1>0, <1>1, <2>1
  <2> HIDE DEF g, h
  <2>4. Root(g + h, N, inverse) = multiply(Root(g, N, inverse), Root(h, N, inverse))
    BY <1>0, <1>4, <2>3
  <2> QED BY <1>0, <2>2, <2>3, <2>4 DEF g, h
<1>11. r \in CkFftComplex /\ s \in CkFftComplex
  <2> 4 \in Nat \ {0}
    BY <1>0
  <2> QED BY <1>0, <1>1, RootType
<1> HIDE DEF w, d, r, s
<1>12. multiply(multiply(r, s), d) = multiply(s, multiply(d, r))
  <2>1. multiply(r, s) = multiply(s, r) /\ multiply(r, d) = multiply(d, r)
    BY <1>0, <1>8, <1>11, MultiplyCommutes
  <2>2. multiply(multiply(s, r), d) = multiply(s, multiply(r, d))
    BY <1>0, <1>8, <1>11, MultiplyAssociates
  <2> QED BY <1>0, <2>1, <2>2
<1> QED BY <1>0, <1>9, <1>10, <1>12 DEF d, r, s

(***************************************************************************)
(* The step of the algorithm: the transform of 4 * n elements is a          *)
(* butterfly of the transforms of every fourth.                             *)
(***************************************************************************)
THEOREM DftQuarters ==
  ASSUME NEW N, NEW n, Quarters(N, n), NEW inverse \in BOOLEAN,
         NEW x, \A j \in 0..(N - 1) : x[j] \in CkFftComplex,
         NEW D, \A q \in 0..3 : D[q] = DFT(Every4th(x, q, n), n, inverse),
         NEW k, NEW a, NEW l, Element(k, a, l, n)
  PROVE  DFT(x, N, inverse)[k] =
           Radix4(D[0][l], multiply(D[1][l], Root(l, N, inverse)),
                  multiply(D[2][l], Root(2 * l, N, inverse)),
                  multiply(D[3][l], Root(3 * l, N, inverse)), inverse)[a + 1]
<1>A. /\ n \in Nat \ {0} /\ N \in Nat \ {0} /\ N = 4 * n /\ Divisor(N)
      /\ a \in 0..3 /\ l \in 0..(n - 1) /\ k = a * n + l
  BY DEF Quarters, Element
<1>0. ASSUME NEW q \in 0..3
      PROVE  SumOf(QuarterTerms(x, q, k, n, N, inverse), n) =
               multiply(Root(q * a, 4, inverse),
                        multiply(DFT(Every4th(x, q, n), n, inverse)[l], Root(q * l, N, inverse)))
  BY DftQuarter
<1> DEFINE y == [j \in 0..(N - 1) |-> multiply(x[j], Root(j * k, N, inverse))]
           z == [q \in 0..3 |-> [j \in 0..(n - 1) |-> y[4 * j + q]]]
           F(q) == multiply(D[q][l], Root(q * l, N, inverse))
<1>1. k \in 0..(N - 1) /\ k \in Nat
  <2>1. a * n \in Nat /\ a * n + l \in Nat /\ a \in Nat /\ n \in Nat
    BY <1>A
  <2>2. a * n <= 3 * n
    BY <1>A, <2>1
  <2>3. a * n + l <= N - 1
    BY <1>A, <2>1, <2>2
  <2> QED BY <1>A, <2>1, <2>3
<1>2. DFT(x, N, inverse)[k] = SumOf(y, N)
  <2> QED BY <1>A, <1>1, DftElement
<1>3. \A j \in 0..(4 * n - 1) : y[j] \in CkFftComplex
  <2> SUFFICES ASSUME NEW j \in 0..(N - 1) PROVE y[j] \in CkFftComplex
    BY <1>A
  <2>1. j * k \in Nat
    BY <1>A, <1>1
  <2>2. Root(j * k, N, inverse) \in CkFftComplex
    BY <1>A, <2>1, RootType
  <2> QED BY <1>A, <2>2, ComplexOps
<1>4. SumOf(y, 4 * n) = Quad(SumOf(z[0], n), SumOf(z[1], n), SumOf(z[2], n), SumOf(z[3], n))
  <2>1. \A q \in 0..3, j \in 0..(n - 1) : z[q][j] = y[4 * j + q]
    <3> HIDE DEF y
    <3> QED BY <1>A
  <2>2. n \in Nat
    BY <1>A
  <2> HIDE DEF y, z
  <2> QED BY <1>3, <2>1, <2>2, SumOfQuarters
<1>5. ASSUME NEW q \in 0..3
      PROVE  SumOf(z[q], n) = multiply(Root(q * a, 4, inverse), F(q)) /\ F(q) \in CkFftComplex
  <2>1. z[q] = QuarterTerms(x, q, k, n, N, inverse)
    <3>1. ASSUME NEW j \in 0..(n - 1)
          PROVE  y[4 * j + q] = multiply(x[4 * j + q], Root((4 * j + q) * k, N, inverse))
      <4>1. 4 * j + q \in 0..(N - 1)
        BY <1>A
      <4> QED BY <1>A, <4>1
    <3> HIDE DEF y
    <3> QED BY <1>A, <3>1 DEF QuarterTerms
  <2>2. SumOf(QuarterTerms(x, q, k, n, N, inverse), n) =
          multiply(Root(q * a, 4, inverse),
                   multiply(DFT(Every4th(x, q, n), n, inverse)[l], Root(q * l, N, inverse)))
    BY <1>0
  <2>3. D[q] = DFT(Every4th(x, q, n), n, inverse)
    BY <1>A
  <2>4. D[q][l] \in CkFftComplex
    <3> DEFINE xq == Every4th(x, q, n)
    <3>1. ASSUME NEW j \in 0..(n - 1) PROVE xq[j] \in CkFftComplex
      <4>1. 4 * j + q \in 0..(N - 1)
        BY <1>A
      <4> QED BY <1>A, <4>1 DEF Every4th
    <3> HIDE DEF xq
    <3>2. DFT(xq, n, inverse)[l] \in CkFftComplex
      BY <1>A, <3>1, DftType
    <3> QED BY <1>A, <2>3, <3>2 DEF xq
  <2>5. Root(q * l, N, inverse) \in CkFftComplex
    <3> q * l \in Nat
      BY <1>A
    <3> QED BY <1>A, RootType
  <2>6. F(q) \in CkFftComplex
    BY <1>A, <2>4, <2>5, ComplexOps
  <2> HIDE DEF z
  <2> QED BY <1>A, <2>1, <2>2, <2>3, <2>6
<1>6. F(0) = D[0][l] /\ Root(0 * a, 4, inverse) = One
  <2>1. 0 * l = 0 /\ 0 * a = 0
    BY <1>A
  <2>2. Root(0, N, inverse) = One
    BY <1>A, RootZero
  <2>3. Root(0, 4, inverse) = One
    BY <1>A, RootQuarter, RootZero
  <2>4. D[0][l] \in CkFftComplex
    <3> DEFINE xq == Every4th(x, 0, n)
    <3>1. ASSUME NEW j \in 0..(n - 1) PROVE xq[j] \in CkFftComplex
      <4>1. 4 * j + 0 \in 0..(N - 1)
        BY <1>A
      <4> QED BY <1>A, <4>1 DEF Every4th
    <3> HIDE DEF xq
    <3>2. DFT(xq, n, inverse)[l] \in CkFftComplex
      BY <1>A, <3>1, DftType
    <3>3. D[0] = DFT(Every4th(x, 0, n), n, inverse)
      BY <1>A
    <3> QED BY <1>A, <3>2, <3>3 DEF xq
  <2> QED BY <1>A, <2>1, <2>2, <2>3, <2>4, MultiplyOne
<1>7. /\ 0 \in 0..3 /\ 1 \in 0..3 /\ 2 \in 0..3 /\ 3 \in 0..3 /\ 1 * a = a /\ 1 * l = l
  BY <1>A
<1> DEFINE f0 == F(0)
           f1 == F(1)
           f2 == F(2)
           f3 == F(3)
<1>8. /\ SumOf(z[0], n) = multiply(Root(0 * a, 4, inverse), f0) /\ f0 \in CkFftComplex
      /\ SumOf(z[1], n) = multiply(Root(1 * a, 4, inverse), f1) /\ f1 \in CkFftComplex
      /\ SumOf(z[2], n) = multiply(Root(2 * a, 4, inverse), f2) /\ f2 \in CkFftComplex
      /\ SumOf(z[3], n) = multiply(Root(3 * a, 4, inverse), f3) /\ f3 \in CkFftComplex
  <2> HIDE DEF z, F
  <2> QED BY <1>A, <1>5, <1>7
<1>9. /\ f1 = multiply(D[1][l], Root(l, N, inverse))
      /\ f2 = multiply(D[2][l], Root(2 * l, N, inverse))
      /\ f3 = multiply(D[3][l], Root(3 * l, N, inverse))
  BY <1>A, <1>7
<1> HIDE DEF f0, f1, f2, f3, y, z
<1>10. Radix4(f0, f1, f2, f3, inverse)[a + 1] =
         Quad(f0, multiply(Root(a, 4, inverse), f1), multiply(Root(2 * a, 4, inverse), f2),
              multiply(Root(3 * a, 4, inverse), f3))
  BY <1>A, <1>8, Radix4Quad
<1>11. multiply(Root(0 * a, 4, inverse), f0) = f0
  BY <1>A, <1>6, <1>8, MultiplyOne
<1>12. SumOf(y, N) = Radix4(f0, f1, f2, f3, inverse)[a + 1]
  BY <1>A, <1>4, <1>7, <1>8, <1>10, <1>11
<1> QED BY <1>A, <1>2, <1>6, <1>9, <1>12 DEF f0

-----------------------------------------------------------------------------
(***************************************************************************)
(* What a call on a stack is for: the transform of the elements of its      *)
(* input, and on the way those of every fourth of them.                     *)
(***************************************************************************)
Input(f, x) == [j \in 0..(f.count - 1) |-> x[InIdx(f, j)]]
Result(f, x) == DFT(Input(f, x), f.count, f.inverse)
Quarter(f, q, x) ==
  DFT(Every4th(Input(f, x), q, f.count \div 4), f.count \div 4, f.inverse)

ExactTable(f) == Divisor(context[f.context].maxCount)

(* The factors that a call reads are the roots of unity of its own length.  *)
LEMMA ExpRoot ==
  ASSUME NEW f \in OKFrames, ExactTable(f),
         NEW i \in Nat, NEW m \in 0..3, i < f.count \div 4
  PROVE  Divisor(f.count) /\ Exp(f, i, m) = Root(i * m, f.count, f.inverse)
<1> DEFINE w == f.stride * f.expTableStride
           max == context[f.context].maxCount
           e == ExpIdx(f, i, m)
<1>1. /\ f.count \in Nat \ {0} /\ f.stride \in Nat /\ FrameOK(f)
      /\ f.expTableStride \in Nat /\ f.context \in Contexts /\ f.inverse \in BOOLEAN
  BY FrameFields DEF FrameOK
<1>2. max \in Nat \ {0} /\ Divisor(max)
  BY <1>1, TableType DEF FrameOK, ExactTable
<1>3. w \in Nat /\ f.count * w = max
  BY <1>1 DEF FrameOK, Total
<1>4. w \in Nat \ {0}
  <2> HIDE DEF w, max
  <2> QED BY <1>1, <1>2, <1>3
<1>5. i * m \in Nat /\ e = (i * m) * w
  <2>1. i * m \in Nat
    OBVIOUS
  <2>2. ExpIdx(f, i, m) = (i * m) * w
    <3> DEFINE s == f.stride
               t == f.expTableStride
    <3>1. s \in Nat /\ t \in Nat /\ m \in Nat
      BY <1>1
    <3>2. ExpIdx(f, i, m) = i * s * t * m
      BY DEF ExpIdx
    <3> HIDE DEF s, t
    <3>3. i * s * t * m = (i * m) * (s * t)
      BY <3>1
    <3> QED BY <3>2, <3>3 DEF s, t
  <2> QED BY <2>1, <2>2
<1>6. e \in 0..(max - 1)
  BY ExpInBounds
<1>7. Exp(f, i, m) = TableOf(f.context, f.inverse)[e]
  BY DEF Exp, TableOf
<1>8. TableOf(f.context, f.inverse) = [j \in 0..(max - 1) |-> Root(j, max, f.inverse)]
  BY <1>1 DEF FrameOK, HasTable
<1> HIDE DEF e, max, w
<1>9. Exp(f, i, m) = Root(e, max, f.inverse)
  BY <1>6, <1>7, <1>8
<1> DEFINE n == f.count
           j == i * m
<1>10. n \in Nat \ {0} /\ j \in Nat /\ max = n * w /\ e = j * w
  BY <1>1, <1>3, <1>5
<1> HIDE DEF n, j
<1>11. Root(j * w, n * w, f.inverse) = Root(j, n, f.inverse) /\ Divisor(n)
  BY <1>1, <1>2, <1>4, <1>10, RootScale
<1> QED BY <1>9, <1>10, <1>11 DEF n, j

(* The input of a call is made of complex numbers.                          *)
LEMMA InputType ==
  ASSUME MemOK, NEW f \in OKFrames
  PROVE  /\ \A j \in 0..(f.count - 1) : Input(f, mem[f.src])[j] = In(f, j)
         /\ \A j \in 0..(f.count - 1) : Input(f, mem[f.src])[j] \in CkFftComplex
<1>1. \A j \in 0..(f.count - 1) : In(f, j) \in CkFftComplex
  BY ReadTypes
<1> QED BY <1>1 DEF Input, In

IsQuarter(f, n) == n = f.count \div 4

(* The count of a call is four times a power of two.                        *)
LEMMA QuarterNat ==
  ASSUME NEW f \in OKFrames, NEW n, IsQuarter(f, n)
  PROVE  f.count = 4 * n /\ n \in Nat \ {0} /\ isPowerOfTwo(n)
<1>1. f.count \in Nat /\ f.count >= 4 /\ isPowerOfTwo(f.count)
  BY FrameFields DEF FrameOK
<1> QED BY <1>1, PowerOfTwoQuarter DEF IsQuarter

(* The transform of a call is made of those of its quarters.                *)
LEMMA FrameQuarters ==
  ASSUME NEW f \in OKFrames, ExactTable(f)
  PROVE  Quarters(f.count, f.count \div 4)
<1>1. f.count \in Nat /\ f.count >= 4 /\ isPowerOfTwo(f.count)
  BY FrameFields DEF FrameOK
<1>2. f.count = 4 * (f.count \div 4) /\ f.count \div 4 \in Nat
  BY <1>1, PowerOfTwoQuarter
<1>3. Divisor(f.count)
  <2>1. 0 < f.count \div 4 /\ 0 \in Nat /\ 0 \in 0..3
    BY <1>1, <1>2
  <2> QED BY <2>1, ExpRoot
<1> QED BY <1>1, <1>2, <1>3 DEF Quarters

(* A butterfly on element l of the transforms of the quarters, with the     *)
(* factors that the call reads, is four elements of the transform.          *)
LEMMA FrameButterfly ==
  ASSUME MemOK, NEW f \in OKFrames, ExactTable(f),
         NEW n \in Nat \ {0}, IsQuarter(f, n), NEW l \in 0..(n - 1), NEW a \in 0..3,
         NEW F, \A q \in 0..3 : F[q] = Quarter(f, q, mem[f.src])[l]
  PROVE  Result(f, mem[f.src])[a * n + l] =
           Radix4(F[0], multiply(F[1], Exp(f, l, 1)), multiply(F[2], Exp(f, l, 2)),
                  multiply(F[3], Exp(f, l, 3)), f.inverse)[a + 1]
<1> DEFINE N == f.count
           x == Input(f, mem[f.src])
           inverse == f.inverse
           D == [q \in 0..3 |-> DFT(Every4th(x, q, n), n, inverse)]
           k == a * n + l
<1>0. n = f.count \div 4
  BY DEF IsQuarter
<1>1. Quarters(N, n) /\ Element(k, a, l, n)
  BY <1>0, FrameQuarters DEF Element
<1>2. \A j \in 0..(N - 1) : x[j] \in CkFftComplex
  BY InputType
<1>3. inverse \in BOOLEAN
  BY FrameFields
<1>4. \A q \in 0..3 : D[q] = DFT(Every4th(x, q, n), n, inverse)
  OBVIOUS
<1>5. \A q \in 0..3 : F[q] = D[q][l]
  BY <1>0 DEF Quarter
<1>6. l \in Nat /\ n \in Nat
  OBVIOUS
<1>7. /\ Exp(f, l, 1) = Root(l, N, inverse)
      /\ Exp(f, l, 2) = Root(2 * l, N, inverse)
      /\ Exp(f, l, 3) = Root(3 * l, N, inverse)
  <2>1. l * 1 = l /\ l * 2 = 2 * l /\ l * 3 = 3 * l /\ l < f.count \div 4
    BY <1>0, <1>6
  <2>2. \A m \in 0..3 : Exp(f, l, m) = Root(l * m, f.count, f.inverse)
    BY <1>6, <2>1, ExpRoot
  <2>3. /\ Exp(f, l, 1) = Root(l * 1, f.count, f.inverse)
        /\ Exp(f, l, 2) = Root(l * 2, f.count, f.inverse)
        /\ Exp(f, l, 3) = Root(l * 3, f.count, f.inverse)
    BY <2>2
  <2> QED BY <2>1, <2>3
<1>8. Result(f, mem[f.src])[k] = DFT(x, N, inverse)[k]
  BY DEF Result
<1> HIDE DEF N, x, inverse, D, k
<1>9. DFT(x, N, inverse)[k] =
           Radix4(D[0][l], multiply(D[1][l], Root(l, N, inverse)),
                  multiply(D[2][l], Root(2 * l, N, inverse)),
                  multiply(D[3][l], Root(3 * l, N, inverse)), inverse)[a + 1]
  BY <1>1, <1>2, <1>3, <1>4, DftQuarters
<1>10. F[0] = D[0][l] /\ F[1] = D[1][l] /\ F[2] = D[2][l] /\ F[3] = D[3][l]
  BY <1>5
<1> QED BY <1>7, <1>8, <1>9, <1>10 DEF k, inverse

-----------------------------------------------------------------------------
(* Element j of quarter q of a call's output, the q-th of n elements.       *)
OutAt(f, q, j) == OutIdx(f, q * (f.count \div 4) + j)

(* The elements of a quarter of the output lie in the buffer.               *)
LEMMA OutAtIndex ==
  ASSUME NEW f \in OKFrames, NEW n \in Nat \ {0}, IsQuarter(f, n), NEW q \in 0..3, NEW j \in 0..(n - 1)
  PROVE  /\ f.output \in Nat
         /\ q * n \in Nat
         /\ OutAt(f, q, j) = f.output + (q * n + j)
         /\ OutAt(f, q, j) \in OutRange(f)
         /\ OutAt(f, q, j) \in 0..(BufLen[f.dst] - 1)
<1>1. f.count \in Nat /\ f.count >= 4 /\ f.output \in Nat /\ isPowerOfTwo(f.count)
  BY FrameFields DEF FrameOK
<1>2. f.count = 4 * n /\ n \in Nat \ {0}
  BY QuarterNat
<1>3. OutAt(f, q, j) = f.output + (q * n + j)
  BY DEF OutAt, OutIdx, IsQuarter
<1>4. q * n \in Nat /\ q * n <= 3 * n
  BY <1>2
<1> DEFINE i == q * n + j
<1>5. i \in 0..(f.count - 1)
  <2> HIDE DEF i
  <2>1. i = q * n + j
    BY DEF i
  <2> QED BY <1>1, <1>2, <1>4, <2>1
<1> HIDE DEF i
<1>6. f.output + i \in OutRange(f)
  BY <1>5, OutIdxRange
<1>7. f.output + i \in 0..(BufLen[f.dst] - 1)
  <2>1. OutIdx(f, i) \in 0..(Total(f) - 1)
    BY <1>5, PointersInBounds
  <2>2. Total(f) <= BufLen[f.dst] /\ Total(f) \in Nat /\ BufLen[f.dst] \in Nat
    BY FrameFields DEF FrameOK
  <2> QED BY <2>1, <2>2 DEF OutIdx
<1> QED BY <1>1, <1>2, <1>3, <1>4, <1>6, <1>7 DEF i

(* A quotient and a rest are unique.                                        *)
LEMMA IndexUnique ==
  ASSUME NEW n \in Nat \ {0}, NEW q \in Nat, NEW a \in Nat,
         NEW j \in 0..(n - 1), NEW l \in 0..(n - 1), q * n + j = a * n + l
  PROVE  q = a /\ j = l
<1>1. (q * n + j) \div n = q /\ (q * n + j) % n = j
  BY QuotientAndRest
<1>2. (a * n + l) \div n = a /\ (a * n + l) % n = l
  BY QuotientAndRest
<1> QED BY <1>1, <1>2

(* No two elements of the quarters share a place in the output.             *)
LEMMA OutAtUnique ==
  ASSUME NEW f \in OKFrames, NEW n \in Nat \ {0}, IsQuarter(f, n),
         NEW q \in 0..3, NEW j \in 0..(n - 1), NEW a \in 0..3, NEW l \in 0..(n - 1),
         OutAt(f, q, j) = OutAt(f, a, l)
  PROVE  q = a /\ j = l
<1>1. n \in Nat \ {0} /\ f.output \in Nat /\ q * n \in Nat /\ a * n \in Nat
  BY OutAtIndex
<1>2. OutAt(f, q, j) = f.output + (q * n + j) /\ OutAt(f, a, l) = f.output + (a * n + l)
  BY OutAtIndex
<1>3. q * n + j = a * n + l /\ q \in Nat /\ a \in Nat
  <2> DEFINE u == q * n + j
             v == a * n + l
             o == f.output
  <2>1. u \in Nat /\ v \in Nat /\ o \in Nat
    BY <1>1
  <2>3. o + u = o + v
    BY <1>2
  <2> HIDE DEF u, v, o
  <2>2. u = v
    BY <2>1, <2>3
  <2> QED BY <2>2 DEF u, v
<1> QED BY <1>1, <1>3, IndexUnique

(* Where new holds X instead of buf: in element l of each quarter, or in w  *)
(* lanes from there on.                                                     *)
QuadIn(f, buf, new, n, l, X) ==
  \A q \in 0..3, j \in 0..(n - 1) :
    new[OutAt(f, q, j)] = IF j = l THEN X[q + 1] ELSE buf[OutAt(f, q, j)]

LanesIn(f, buf, new, n, l, w, X) ==
  \A q \in 0..3, j \in 0..(n - 1) :
    new[OutAt(f, q, j)] =
      IF j \in l..(l + w - 1) THEN X[j - l][q + 1] ELSE buf[OutAt(f, q, j)]

(* The element of a quarter that each of the four stores writes.            *)
LEMMA QuadStored ==
  ASSUME NEW f \in OKFrames, NEW buf \in BufferType(f.dst),
         NEW n \in Nat \ {0}, IsQuarter(f, n), NEW l \in 0..(n - 1), NEW X
  PROVE  QuadIn(f, buf, StoreQuad(buf, OutIdx(f, l), n, X), n, l, X)
<1> SUFFICES ASSUME NEW q \in 0..3, NEW j \in 0..(n - 1)
             PROVE  StoreQuad(buf, OutIdx(f, l), n, X)[OutAt(f, q, j)] =
                      IF j = l THEN X[q + 1] ELSE buf[OutAt(f, q, j)]
  BY DEF QuadIn
<1> DEFINE D == 0..(BufLen[f.dst] - 1)
           o == OutIdx(f, l)
           p == OutAt(f, q, j)
<1>1. \A a \in 0..3 : OutAt(f, a, l) = f.output + (a * n + l) /\ OutAt(f, a, l) \in D
  BY OutAtIndex
<1>2. n \in Nat \ {0} /\ f.output \in Nat /\ l \in Nat /\ o = f.output + l
  <2>1. n \in Nat \ {0} /\ f.output \in Nat
    BY OutAtIndex
  <2> QED BY <2>1 DEF OutIdx
<1>3. /\ o = OutAt(f, 0, l) /\ o + n = OutAt(f, 1, l)
      /\ o + 2 * n = OutAt(f, 2, l) /\ o + 3 * n = OutAt(f, 3, l)
  <2> HIDE DEF o
  <2>1. /\ OutAt(f, 0, l) = f.output + (0 * n + l) /\ OutAt(f, 1, l) = f.output + (1 * n + l)
        /\ OutAt(f, 2, l) = f.output + (2 * n + l) /\ OutAt(f, 3, l) = f.output + (3 * n + l)
    BY <1>1
  <2> QED BY <1>2, <2>1
<1>4. p \in D /\ buf \in [D -> CkFftComplex]
  BY OutAtIndex DEF BufferType
<1>5. \A a \in 0..3 : p = OutAt(f, a, l) => q = a /\ j = l
  BY OutAtUnique
<1>6. /\ OutAt(f, 0, l) # OutAt(f, 1, l) /\ OutAt(f, 0, l) # OutAt(f, 2, l)
      /\ OutAt(f, 0, l) # OutAt(f, 3, l) /\ OutAt(f, 1, l) # OutAt(f, 2, l)
      /\ OutAt(f, 1, l) # OutAt(f, 3, l) /\ OutAt(f, 2, l) # OutAt(f, 3, l)
  <2> HIDE DEF o
  <2> QED BY <1>2, <1>3
<1> HIDE DEF D, o, p
<1>7. CASE j = l
  <2>1. p = OutAt(f, q, l)
    BY <1>7 DEF p
  <2>2. q = 0 \/ q = 1 \/ q = 2 \/ q = 3
    OBVIOUS
  <2>3. StoreQuad(buf, o, n, X)[p] = X[q + 1]
    BY <1>3, <1>4, <1>6, <2>1, <2>2 DEF StoreQuad
  <2> QED BY <1>7, <2>3 DEF o, p
<1>8. CASE j # l
  <2>1. p # OutAt(f, 0, l) /\ p # OutAt(f, 1, l) /\ p # OutAt(f, 2, l) /\ p # OutAt(f, 3, l)
    BY <1>5, <1>8
  <2>2. p # o /\ p # o + n /\ p # o + 2 * n /\ p # o + 3 * n
    BY <1>3, <2>1
  <2>3. StoreQuad(buf, o, n, X)[p] = buf[p]
    BY <1>4, <2>2, StoreQuadElse
  <2> QED BY <1>8, <2>3 DEF o, p
<1> QED BY <1>7, <1>8

(* w lanes from element l of a quarter of n on.                             *)
Vectors(n, l, w, X) == l + w <= n /\ DOMAIN X = 0..(w - 1)

(* The element of a quarter that each lane of the four vectors writes.      *)
LEMMA LanesStored ==
  ASSUME NEW f \in OKFrames, NEW buf \in BufferType(f.dst),
         NEW n \in Nat \ {0}, IsQuarter(f, n), NEW l \in Nat, NEW w \in Nat,
         NEW X, Vectors(n, l, w, X)
  PROVE  LanesIn(f, buf, StoreLanes(buf, OutIdx(f, l), n, X), n, l, w, X)
<1> SUFFICES ASSUME NEW q \in 0..3, NEW j \in 0..(n - 1)
             PROVE  StoreLanes(buf, OutIdx(f, l), n, X)[OutAt(f, q, j)] =
                      IF j \in l..(l + w - 1) THEN X[j - l][q + 1]
                      ELSE buf[OutAt(f, q, j)]
  BY DEF LanesIn
<1>0. l + w <= n /\ DOMAIN X = 0..(w - 1)
  BY DEF Vectors
<1> DEFINE D == 0..(BufLen[f.dst] - 1)
           o == OutIdx(f, l)
           p == OutAt(f, q, j)
           W == Written(o, n, DOMAIN X)
           value(i) == IF i \in W THEN X[(i - o) % n][(i - o) \div n + 1] ELSE buf[i]
<1>1. n \in Nat \ {0} /\ f.output \in Nat /\ o = f.output + l /\ q * n \in Nat
  <2>1. n \in Nat \ {0} /\ f.output \in Nat /\ q * n \in Nat
    BY <1>0, OutAtIndex
  <2> QED BY <1>0, <2>1 DEF OutIdx
<1>2. p \in D /\ buf \in [D -> CkFftComplex] /\ p = f.output + (q * n + j)
  <2>1. p \in D /\ p = f.output + (q * n + j)
    BY <1>0, OutAtIndex
  <2> QED BY <2>1 DEF BufferType
<1> HIDE DEF D, o, p
<1>3. StoreLanes(buf, o, n, X) = [i \in D \cup W |-> value(i)]
  BY <1>0, <1>2 DEF StoreLanes, Written
<1>4. StoreLanes(buf, o, n, X)[p] = value(p)
  <2> HIDE DEF value
  <2> QED BY <1>0, <1>2, <1>3
<1>5. CASE j \in l..(l + w - 1)
  <2>1. j - l \in 0..(w - 1) /\ j - l \in 0..(n - 1) /\ q \in Nat
    BY <1>0, <1>1, <1>5
  <2>2. p = o + q * n + (j - l) /\ p - o = q * n + (j - l)
    <3> DEFINE x == q * n
               out == f.output
    <3>1. x \in Nat /\ out \in Nat /\ o = out + l /\ p = out + (x + j) /\ j \in Nat
      BY <1>0, <1>1, <1>2
    <3> HIDE DEF x, out
    <3>2. p = o + x + (j - l) /\ p - o = x + (j - l)
      BY <3>1
    <3> QED BY <3>2 DEF x
  <2>3. (p - o) % n = j - l /\ (p - o) \div n = q
    <3> DEFINE i == j - l
    <3>1. i \in 0..(n - 1) /\ p - o = q * n + i
      BY <2>1, <2>2
    <3> HIDE DEF i
    <3>2. (q * n + i) \div n = q /\ (q * n + i) % n = i
      BY <2>1, <3>1, QuotientAndRest
    <3> QED BY <3>1, <3>2 DEF i
  <2>4. p \in W
    <3> DEFINE i == j - l
    <3>1. i \in DOMAIN X /\ p = o + q * n + i
      BY <1>0, <2>1, <2>2
    <3> HIDE DEF i
    <3> QED BY <3>1 DEF Written
  <2> HIDE DEF W
  <2>5. value(p) = X[j - l][q + 1]
    BY <2>3, <2>4
  <2> QED BY <1>0, <1>4, <1>5, <2>5 DEF o, p
<1>6. CASE j \notin l..(l + w - 1)
  <2>1. p \notin W
    <3> SUFFICES ASSUME NEW a \in 0..3, NEW i \in 0..(w - 1), p = o + a * n + i PROVE FALSE
      BY <1>0 DEF Written
    <3>1. a \in Nat /\ a * n \in Nat /\ l + i \in 0..(n - 1) /\ l + i \in l..(l + w - 1)
      BY <1>0, <1>1
    <3>2. q * n + j = a * n + (l + i)
      BY <1>0, <1>1, <1>2, <3>1
    <3>3. j = l + i
      BY <1>0, <1>1, <3>1, <3>2, IndexUnique
    <3> QED BY <1>0, <1>6, <3>1, <3>3
  <2> HIDE DEF W
  <2>2. value(p) = buf[p]
    BY <2>1
  <2> QED BY <1>0, <1>4, <1>6, <2>2 DEF o, p
<1> QED BY <1>0, <1>5, <1>6

-----------------------------------------------------------------------------
(***************************************************************************)
(* What the loop of butterflies has done with r quarters transformed: the   *)
(* elements it has passed are those of the result, the others still those   *)
(* of the quarters.  A step stores the elements L of each quarter's result. *)
(***************************************************************************)
LoopOK(f, r, x, y) ==
  LET n == f.count \div 4
  IN  /\ \A q \in 0..(r - 1), j \in Passed(f)..(n - 1) :
           y[OutAt(f, q, j)] = Quarter(f, q, x)[j]
      /\ \A q \in 0..3, j \in 0..(Passed(f) - 1) :
           y[OutAt(f, q, j)] = Result(f, x)[q * n + j]

Stored(f, L, x, old, new) ==
  LET n == f.count \div 4
  IN  \A q \in 0..3, j \in 0..(n - 1) :
        new[OutAt(f, q, j)] =
          IF j \in L THEN Result(f, x)[q * n + j] ELSE old[OutAt(f, q, j)]

(* The first butterfly has no factors to multiply with.                     *)
LEMMA NoFactor ==
  ASSUME NEW f \in OKFrames, ExactTable(f), NEW z \in CkFftComplex, NEW m \in 0..3
  PROVE  multiply(z, Exp(f, 0, m)) = z
<1>1. 0 \in Nat /\ 0 < f.count \div 4 /\ f.inverse \in BOOLEAN
  <2>1. f.count \in Nat /\ f.count >= 4
    BY FrameFields DEF FrameOK
  <2> QED BY <2>1, FrameFields
<1>2. Divisor(f.count) /\ Exp(f, 0, m) = Root(0 * m, f.count, f.inverse)
  BY <1>1, ExpRoot
<1>3. 0 * m = 0
  OBVIOUS
<1>4. Root(0, f.count, f.inverse) = One
  BY <1>1, <1>2, RootZero
<1> QED BY <1>2, <1>3, <1>4, MultiplyOne

(* count = 4: the quarters are single elements.                             *)
LEMMA Leaf4Right ==
  ASSUME MemOK, NEW f \in OKFrames, ExactTable(f), f.count = 4
  PROVE  Stored(f, 0..0, mem[f.src], mem[f.dst], Leaf4(f))
<1> DEFINE n == 1
           x == mem[f.src]
           F == [q \in 0..3 |-> In(f, q)]
           X == Radix4(In(f, 0), In(f, 1), In(f, 2), In(f, 3), f.inverse)
<1>1. n \in Nat \ {0} /\ IsQuarter(f, n) /\ f.count \div 4 = 1
  BY DEF IsQuarter
<1>2. f.inverse \in BOOLEAN /\ f.output \in Nat
  BY FrameFields
<1>3. ASSUME NEW q \in 0..3
      PROVE  In(f, q) \in CkFftComplex /\ F[q] = Quarter(f, q, x)[0]
  <2> DEFINE y == Every4th(Input(f, x), q, 1)
  <2>1. q \in 0..(f.count - 1) /\ In(f, q) \in CkFftComplex /\ Input(f, x)[q] = In(f, q)
    BY InputType, ReadTypes
  <2>2. y[0] = In(f, q)
    <3>1. 4 * 0 + q = q /\ 0 \in 0..(1 - 1)
      OBVIOUS
    <3> QED BY <2>1, <3>1 DEF Every4th
  <2>3. Quarter(f, q, x)[0] = DFT(y, 1, f.inverse)[0]
    BY <1>1 DEF Quarter
  <2> HIDE DEF y
  <2>4. DFT(y, 1, f.inverse)[0] = y[0]
    BY <1>2, <2>1, <2>2, DftOne
  <2> QED BY <2>1, <2>2, <2>3, <2>4
<1>4. /\ In(f, 0) \in CkFftComplex /\ In(f, 1) \in CkFftComplex
      /\ In(f, 2) \in CkFftComplex /\ In(f, 3) \in CkFftComplex
      /\ F[0] = In(f, 0) /\ F[1] = In(f, 1) /\ F[2] = In(f, 2) /\ F[3] = In(f, 3)
  BY <1>3
<1>5. ASSUME NEW q \in 0..3 PROVE Result(f, x)[q * n + 0] = X[q + 1]
  <2>1. 0 \in 0..(n - 1) /\ \A a \in 0..3 : F[a] = Quarter(f, a, mem[f.src])[0]
    BY <1>3
  <2> HIDE DEF F
  <2>2. Result(f, x)[q * n + 0] =
          Radix4(F[0], multiply(F[1], Exp(f, 0, 1)), multiply(F[2], Exp(f, 0, 2)),
                 multiply(F[3], Exp(f, 0, 3)), f.inverse)[q + 1]
    BY <1>1, <2>1, FrameButterfly
  <2>3. /\ multiply(F[1], Exp(f, 0, 1)) = F[1] /\ multiply(F[2], Exp(f, 0, 2)) = F[2]
        /\ multiply(F[3], Exp(f, 0, 3)) = F[3]
    BY <1>4, NoFactor
  <2> QED BY <1>4, <2>2, <2>3
<1>6. ASSUME NEW q \in 0..3
      PROVE  Leaf4(f)[OutAt(f, q, 0)] = X[q + 1]
  <2>1. Leaf4(f) = StoreQuad(mem[f.dst], OutIdx(f, 0), n, X)
    BY <1>2 DEF Leaf4, OutIdx
  <2>2. mem[f.dst] \in BufferType(f.dst)
    BY FrameFields DEF MemOK
  <2>3. 0 \in 0..(n - 1)
    OBVIOUS
  <2> HIDE DEF X
  <2>4. \A m \in Nat \ {0} : IsQuarter(f, m) => \A l \in 0..(m - 1) :
          QuadIn(f, mem[f.dst], StoreQuad(mem[f.dst], OutIdx(f, l), m, X), m, l, X)
    BY <2>2, QuadStored
  <2>5. StoreQuad(mem[f.dst], OutIdx(f, 0), n, X)[OutAt(f, q, 0)] = X[q + 1]
    BY <1>1, <2>3, <2>4 DEF QuadIn
  <2> QED BY <2>1, <2>5
<1>7. ASSUME NEW q \in 0..3, NEW j \in 0..(f.count \div 4 - 1)
      PROVE  j \in 0..0 /\ Leaf4(f)[OutAt(f, q, j)] = Result(f, x)[q * (f.count \div 4) + j]
  <2>1. j = 0 /\ j \in 0..0
    BY <1>1
  <2> QED BY <1>1, <1>5, <1>6, <2>1
<1> QED BY <1>7 DEF Stored

(* count = 8: the quarters are pairs.                                       *)
Lane8(f, l) ==
  Radix4(Pair(f, 0, l), multiply(Pair(f, 1, l), Exp(f, l, 1)),
         multiply(Pair(f, 2, l), Exp(f, l, 2)), multiply(Pair(f, 3, l), Exp(f, l, 3)),
         f.inverse)

(* The leaf of 8 elements: both of its butterflies are right.               *)
LEMMA Lane8Right ==
  ASSUME MemOK, NEW f \in OKFrames, ExactTable(f), f.count = 8,
         NEW l \in 0..1, NEW q \in 0..3
  PROVE  Result(f, mem[f.src])[q * 2 + l] = Lane8(f, l)[q + 1]
<1> DEFINE n == 2
           x == mem[f.src]
           F == [a \in 0..3 |-> Pair(f, a, l)]
<1>1. n \in Nat \ {0} /\ IsQuarter(f, n) /\ f.count \div 4 = 2 /\ f.inverse \in BOOLEAN
  BY FrameFields DEF IsQuarter
<1>2. ASSUME NEW a \in 0..3 PROVE F[a] = Quarter(f, a, x)[l]
  <2> DEFINE y == Every4th(Input(f, x), a, 2)
  <2>1. a \in 0..(f.count - 1) /\ a + 4 \in 0..(f.count - 1)
    OBVIOUS
  <2>2. /\ In(f, a) \in CkFftComplex /\ Input(f, x)[a] = In(f, a)
        /\ In(f, a + 4) \in CkFftComplex /\ Input(f, x)[a + 4] = In(f, a + 4)
    BY <2>1, InputType, ReadTypes
  <2>3. y[0] = In(f, a) /\ y[1] = In(f, a + 4)
    <3>1. /\ 4 * 0 + a = a /\ 4 * 1 + a = a + 4
          /\ 0 \in 0..(2 - 1) /\ 1 \in 0..(2 - 1)
      OBVIOUS
    <3> QED BY <2>2, <3>1 DEF Every4th
  <2>4. Quarter(f, a, x) = DFT(y, 2, f.inverse)
    BY <1>1 DEF Quarter
  <2> HIDE DEF y
  <2>5. /\ DFT(y, 2, f.inverse)[0] = add(y[0], y[1])
        /\ DFT(y, 2, f.inverse)[1] = subtract(y[0], y[1])
    BY <1>1, <2>2, <2>3, DftTwo
  <2>6. l = 0 \/ l = 1
    OBVIOUS
  <2> QED BY <2>3, <2>4, <2>5, <2>6 DEF Pair
<1>3. l \in 0..(n - 1) /\ \A a \in 0..3 : F[a] = Quarter(f, a, mem[f.src])[l]
  BY <1>2
<1>4. F[0] = Pair(f, 0, l) /\ F[1] = Pair(f, 1, l) /\ F[2] = Pair(f, 2, l) /\ F[3] = Pair(f, 3, l)
  OBVIOUS
<1> HIDE DEF F
<1>5. Result(f, x)[q * n + l] =
        Radix4(F[0], multiply(F[1], Exp(f, l, 1)), multiply(F[2], Exp(f, l, 2)),
               multiply(F[3], Exp(f, l, 3)), f.inverse)[q + 1]
  BY <1>1, <1>3, FrameButterfly
<1> QED BY <1>4, <1>5 DEF Lane8

(* The output of a call is a buffer of complex numbers.                     *)
LEMMA DstType ==
  ASSUME MemOK, NEW f \in OKFrames
  PROVE  mem[f.dst] \in BufferType(f.dst)
  BY FrameFields DEF MemOK

(* The leaf of 8 elements stores all of its result.                         *)
LEMMA Leaf8Right ==
  ASSUME MemOK, NEW f \in OKFrames, ExactTable(f), f.count = 8
  PROVE  Stored(f, 0..1, mem[f.src], mem[f.dst], Leaf8(f))
<1> DEFINE x == mem[f.src]
           X0 == Radix4(Pair(f, 0, 0), Pair(f, 1, 0), Pair(f, 2, 0), Pair(f, 3, 0), f.inverse)
           X1 == Lane8(f, 1)
           first == StoreQuad(mem[f.dst], OutIdx(f, 0), 2, X0)
<1>1. 2 \in Nat \ {0} /\ IsQuarter(f, 2) /\ f.count \div 4 = 2
  BY DEF IsQuarter
<1>2. f.inverse \in BOOLEAN /\ f.output \in Nat
  BY FrameFields
<1>3. /\ Pair(f, 0, 0) \in CkFftComplex /\ Pair(f, 1, 0) \in CkFftComplex
      /\ Pair(f, 2, 0) \in CkFftComplex /\ Pair(f, 3, 0) \in CkFftComplex
  BY PairTypes
<1>4. X0 = Lane8(f, 0)
  <2>1. /\ multiply(Pair(f, 1, 0), Exp(f, 0, 1)) = Pair(f, 1, 0)
        /\ multiply(Pair(f, 2, 0), Exp(f, 0, 2)) = Pair(f, 2, 0)
        /\ multiply(Pair(f, 3, 0), Exp(f, 0, 3)) = Pair(f, 3, 0)
    BY <1>3, NoFactor
  <2> QED BY <2>1 DEF Lane8
<1>5. Leaf8(f) = StoreQuad(first, OutIdx(f, 1), 2, X1)
  BY <1>2 DEF Leaf8, Lane8, OutIdx
<1>6. first \in BufferType(f.dst)
  <2>1. \A m \in 1..4 : X0[m] \in CkFftComplex
    BY <1>2, <1>3, Radix4Type
  <2>2. mem[f.dst] \in BufferType(f.dst)
    BY DstType
  <2> HIDE DEF X0
  <2> QED BY <2>1, <2>2, StoreQuadType DEF BufferType
<1> HIDE DEF X0, X1, first
<1>7. ASSUME NEW q \in 0..3, NEW j \in 0..1
      PROVE  Leaf8(f)[OutAt(f, q, j)] = IF j = 0 THEN X0[q + 1] ELSE X1[q + 1]
  <2>1. \A m \in Nat \ {0} : IsQuarter(f, m) => \A l \in 0..(m - 1) :
          QuadIn(f, first, StoreQuad(first, OutIdx(f, l), m, X1), m, l, X1)
    BY <1>6, QuadStored
  <2>2. \A m \in Nat \ {0} : IsQuarter(f, m) => \A l \in 0..(m - 1) :
          QuadIn(f, mem[f.dst], StoreQuad(mem[f.dst], OutIdx(f, l), m, X0), m, l, X0)
    BY DstType, QuadStored
  <2>3. \A l \in 0..1, i \in 0..1 :
          StoreQuad(first, OutIdx(f, l), 2, X1)[OutAt(f, q, i)] =
            IF i = l THEN X1[q + 1] ELSE first[OutAt(f, q, i)]
    BY <1>1, <2>1 DEF QuadIn
  <2>4. \A l \in 0..1, i \in 0..1 :
          StoreQuad(mem[f.dst], OutIdx(f, l), 2, X0)[OutAt(f, q, i)] =
            IF i = l THEN X0[q + 1] ELSE mem[f.dst][OutAt(f, q, i)]
    BY <1>1, <2>2 DEF QuadIn
  <2>5. Leaf8(f)[OutAt(f, q, j)] = IF j = 1 THEN X1[q + 1] ELSE first[OutAt(f, q, j)]
    BY <1>5, <2>3
  <2>6. j = 0 => first[OutAt(f, q, j)] = X0[q + 1]
    BY <2>4 DEF first
  <2> QED BY <2>5, <2>6
<1>8. ASSUME NEW q \in 0..3, NEW j \in 0..1
      PROVE  Leaf8(f)[OutAt(f, q, j)] = Result(f, x)[q * 2 + j]
  <2>1. Result(f, x)[q * 2 + j] = Lane8(f, j)[q + 1]
    BY Lane8Right
  <2>2. j = 0 \/ j = 1
    OBVIOUS
  <2> QED BY <1>4, <1>7, <2>1, <2>2 DEF X1
<1> QED BY <1>1, <1>8 DEF Stored

(* So does the leaf of 8 elements in vectors.                               *)
LEMMA NeonLeaf8Right ==
  ASSUME MemOK, NEW f \in OKFrames, ExactTable(f), f.count = 8
  PROVE  Stored(f, 0..1, mem[f.src], mem[f.dst], NeonLeaf8(f))
<1> DEFINE x == mem[f.src]
           Y == [l \in 0..1 |-> Lane8(f, l)]
<1>1. 2 \in Nat \ {0} /\ IsQuarter(f, 2) /\ f.count \div 4 = 2
  BY DEF IsQuarter
<1>2. NeonLeaf8(f) = StoreLanes(mem[f.dst], OutIdx(f, 0), 2, Y)
  <2>1. OutIdx(f, 0) = f.output
    BY FrameFields DEF OutIdx
  <2> QED BY <2>1 DEF NeonLeaf8, Lane8
<1>3. DOMAIN Y = 0..(2 - 1) /\ Y[0] = Lane8(f, 0) /\ Y[1] = Lane8(f, 1)
  OBVIOUS
<1> HIDE DEF Y
<1>4. ASSUME NEW q \in 0..3, NEW j \in 0..1
      PROVE  NeonLeaf8(f)[OutAt(f, q, j)] = Y[j][q + 1]
  <2>1. ASSUME NEW m \in Nat \ {0}, IsQuarter(f, m), NEW l \in Nat, NEW w \in Nat, Vectors(m, l, w, Y)
        PROVE  LanesIn(f, mem[f.dst], StoreLanes(mem[f.dst], OutIdx(f, l), m, Y), m, l, w, Y)
    <3>1. mem[f.dst] \in BufferType(f.dst)
      BY DstType
    <3> QED BY <2>1, <3>1, LanesStored
  <2>2. 0 \in Nat /\ 2 \in Nat /\ Vectors(2, 0, 2, Y) /\ j \in 0..(2 - 1) /\ j \in 0..(0 + 2 - 1) /\ j - 0 = j
    BY <1>3 DEF Vectors
  <2>3. \A l, w \in Nat : Vectors(2, l, w, Y) =>
            LanesIn(f, mem[f.dst], StoreLanes(mem[f.dst], OutIdx(f, l), 2, Y), 2, l, w, Y)
    BY <1>1, <2>1, Zenon
  <2>4. \A i \in 0..(2 - 1) :
            StoreLanes(mem[f.dst], OutIdx(f, 0), 2, Y)[OutAt(f, q, i)] =
              IF i \in 0..(0 + 2 - 1) THEN Y[i - 0][q + 1] ELSE mem[f.dst][OutAt(f, q, i)]
    BY <1>3, <2>2, <2>3, Zenon DEF LanesIn
  <2> QED BY <1>2, <2>2, <2>4
<1>5. ASSUME NEW q \in 0..3, NEW j \in 0..1
      PROVE  NeonLeaf8(f)[OutAt(f, q, j)] = Result(f, x)[q * 2 + j]
  <2>1. Result(f, x)[q * 2 + j] = Lane8(f, j)[q + 1]
    BY Lane8Right
  <2>2. j = 0 \/ j = 1
    OBVIOUS
  <2> QED BY <1>3, <1>4, <2>1, <2>2
<1> QED BY <1>1, <1>5 DEF Stored

(* The butterflies of the loop.                                             *)
LaneAt(f, i) ==
  LET n == f.count \div 4
  IN  Radix4(Out(f, i), multiply(Out(f, i + 1 * n), Exp(f, i, 1)),
             multiply(Out(f, i + 2 * n), Exp(f, i, 2)),
             multiply(Out(f, i + 3 * n), Exp(f, i, 3)), f.inverse)

(* A butterfly of the loop is the i-th element of each quarter of the result. *)
LEMMA LaneRight ==
  ASSUME MemOK, NEW f \in OKFrames, ExactTable(f),
         LoopOK(f, 4, mem[f.src], mem[f.dst]),
         NEW n \in Nat \ {0}, IsQuarter(f, n), NEW i \in Passed(f)..(n - 1), i \in Nat,
         NEW q \in 0..3
  PROVE  Result(f, mem[f.src])[q * n + i] = LaneAt(f, i)[q + 1]
<1> DEFINE x == mem[f.src]
           y == mem[f.dst]
           F == [a \in 0..3 |-> y[OutAt(f, a, i)]]
<1>1. n = f.count \div 4 /\ i \in 0..(n - 1) /\ Passed(f) \in Nat
  <2>1. Passed(f) \in Nat
    BY FrameFields DEF Passed
  <2> QED BY <2>1 DEF IsQuarter
<1>2. ASSUME NEW a \in 0..3 PROVE F[a] = Quarter(f, a, x)[i]
  <2>1. a \in 0..(4 - 1) /\ i \in Passed(f)..(f.count \div 4 - 1)
    BY <1>1
  <2> QED BY <2>1 DEF LoopOK
<1>3. /\ F[0] = Out(f, i) /\ F[1] = Out(f, i + 1 * n)
      /\ F[2] = Out(f, i + 2 * n) /\ F[3] = Out(f, i + 3 * n)
  <2>1. 0 * n + i = i /\ 1 * n + i = i + 1 * n /\ 2 * n + i = i + 2 * n /\ 3 * n + i = i + 3 * n
    BY <1>1
  <2>2. /\ F[0] = y[OutAt(f, 0, i)] /\ F[1] = y[OutAt(f, 1, i)]
        /\ F[2] = y[OutAt(f, 2, i)] /\ F[3] = y[OutAt(f, 3, i)]
    OBVIOUS
  <2>3. /\ OutAt(f, 0, i) = OutIdx(f, 0 * n + i) /\ OutAt(f, 1, i) = OutIdx(f, 1 * n + i)
        /\ OutAt(f, 2, i) = OutIdx(f, 2 * n + i) /\ OutAt(f, 3, i) = OutIdx(f, 3 * n + i)
    BY <1>1 DEF OutAt
  <2> HIDE DEF F
  <2> QED BY <2>1, <2>2, <2>3, Zenon DEF Out
<1> HIDE DEF F
<1>4. Result(f, x)[q * n + i] =
        Radix4(F[0], multiply(F[1], Exp(f, i, 1)), multiply(F[2], Exp(f, i, 2)),
               multiply(F[3], Exp(f, i, 3)), f.inverse)[q + 1]
  BY <1>1, <1>2, FrameButterfly
<1> QED BY <1>1, <1>3, <1>4, Zenon DEF LaneAt

-----------------------------------------------------------------------------
(* An iteration stores the next element of each quarter of the result.      *)
LEMMA CombineRight ==
  ASSUME MemOK, NEW f \in OKFrames, ExactTable(f), f.fn = "fft_default",
         LoopOK(f, 4, mem[f.src], mem[f.dst]), f.i < f.count \div 4
  PROVE  Stored(f, f.i..f.i, mem[f.src], mem[f.dst], Combine(f))
<1> DEFINE n == f.count \div 4
           i == f.i
           X == LaneAt(f, i)
           x == mem[f.src]
<1>1. n \in Nat \ {0} /\ IsQuarter(f, n)
  BY QuarterNat DEF IsQuarter
<1>2. i \in Nat /\ i \in 0..(n - 1) /\ i \in Passed(f)..(n - 1)
  BY <1>1, FrameFields DEF Passed
<1>3. Combine(f) = StoreQuad(mem[f.dst], OutIdx(f, i), n, X)
  BY DEF Combine, LaneAt
<1>4. mem[f.dst] \in BufferType(f.dst)
  BY DstType
<1> HIDE DEF X, i
<1>5. ASSUME NEW q \in 0..3, NEW j \in 0..(n - 1)
      PROVE  Combine(f)[OutAt(f, q, j)] =
               IF j \in i..i THEN Result(f, x)[q * n + j] ELSE mem[f.dst][OutAt(f, q, j)]
  <2> HIDE DEF n
  <2>1. Combine(f)[OutAt(f, q, j)] =
          IF j = i THEN X[q + 1] ELSE mem[f.dst][OutAt(f, q, j)]
    <3>1. QuadIn(f, mem[f.dst], StoreQuad(mem[f.dst], OutIdx(f, i), n, X), n, i, X)
      BY <1>1, <1>2, <1>4, QuadStored
    <3> QED BY <1>3, <3>1 DEF QuadIn
  <2>2. Result(f, x)[q * n + i] = X[q + 1]
    <3>1. Result(f, x)[q * n + i] = LaneAt(f, i)[q + 1]
      BY <1>1, <1>2, LaneRight
    <3> QED BY <3>1 DEF X
  <2>3. j \in i..i <=> j = i
    BY <1>2
  <2> QED BY <2>1, <2>2, <2>3
<1> QED BY <1>5 DEF Stored, i

(* An iteration in vectors stores the next four.                            *)
LEMMA NeonCombineRight ==
  ASSUME MemOK, NEW f \in OKFrames, ExactTable(f), f.fn = "fft_neon",
         LoopOK(f, 4, mem[f.src], mem[f.dst]), 4 * (f.i + 1) <= f.count \div 4
  PROVE  Stored(f, (4 * f.i)..(4 * f.i + 3), mem[f.src], mem[f.dst], NeonCombine(f))
<1> DEFINE n == f.count \div 4
           i == 4 * f.i
           Y == [l \in 0..3 |-> LaneAt(f, i + l)]
           x == mem[f.src]
<1>1. n \in Nat \ {0} /\ IsQuarter(f, n)
  BY QuarterNat DEF IsQuarter
<1>2. f.i \in Nat /\ i \in Nat /\ i + 4 <= n /\ Passed(f) = i
  <2>1. f.i \in Nat
    BY FrameFields
  <2>2. 4 * (f.i + 1) = i + 4
    BY <2>1
  <2> QED BY <2>1, <2>2 DEF Passed
<1>3. NeonCombine(f) = StoreLanes(mem[f.dst], OutIdx(f, i), n, Y)
  BY DEF NeonCombine, LaneAt
<1>4. mem[f.dst] \in BufferType(f.dst)
  BY DstType
<1>5. 4 \in Nat /\ Vectors(n, i, 4, Y) /\ \A l \in 0..3 : Y[l] = LaneAt(f, i + l)
  <2> HIDE DEF i, n
  <2> QED BY <1>2 DEF Vectors
<1>6. (4 * f.i)..(4 * f.i + 3) = i..(i + 4 - 1)
  BY <1>2
<1> HIDE DEF Y, i
<1>7. ASSUME NEW q \in 0..3, NEW j \in 0..(n - 1)
      PROVE  NeonCombine(f)[OutAt(f, q, j)] =
               IF j \in i..(i + 4 - 1) THEN Result(f, x)[q * n + j]
               ELSE mem[f.dst][OutAt(f, q, j)]
  <2> HIDE DEF n
  <2>1. NeonCombine(f)[OutAt(f, q, j)] =
          IF j \in i..(i + 4 - 1) THEN Y[j - i][q + 1] ELSE mem[f.dst][OutAt(f, q, j)]
    <3>1. LanesIn(f, mem[f.dst], StoreLanes(mem[f.dst], OutIdx(f, i), n, Y), n, i, 4, Y)
      BY <1>1, <1>2, <1>4, <1>5, LanesStored
    <3> QED BY <1>3, <3>1 DEF LanesIn
  <2>2. ASSUME j \in i..(i + 4 - 1)
        PROVE  Result(f, x)[q * n + j] = Y[j - i][q + 1]
    <3>1. j \in Passed(f)..(n - 1) /\ j \in Nat /\ j - i \in 0..3 /\ i + (j - i) = j
      BY <1>1, <1>2, <2>2
    <3>2. Result(f, x)[q * n + j] = LaneAt(f, j)[q + 1]
      BY <1>1, <3>1, LaneRight
    <3> QED BY <1>5, <3>1, <3>2
  <2> QED BY <2>1, <2>2
<1> QED BY <1>6, <1>7 DEF Stored

(* A call differs from another in its counters only.                        *)
SameCall(f, g) ==
  /\ g.fn = f.fn /\ g.context = f.context /\ g.src = f.src /\ g.input = f.input
  /\ g.dst = f.dst /\ g.output = f.output /\ g.count = f.count
  /\ g.inverse = f.inverse /\ g.stride = f.stride /\ g.expTableStride = f.expTableStride

(* What a call is for does not depend on its counters.                      *)
LEMMA SameCallSame ==
  ASSUME NEW f, NEW g, SameCall(f, g)
  PROVE  /\ \A x : Input(g, x) = Input(f, x) /\ Result(g, x) = Result(f, x)
         /\ \A q, x : Quarter(g, q, x) = Quarter(f, q, x)
         /\ \A q, j : OutAt(g, q, j) = OutAt(f, q, j)
         /\ OutRange(g) = OutRange(f)
<1>1. \A x : Input(g, x) = Input(f, x)
  BY DEF Input, InIdx, SameCall
<1> QED BY <1>1 DEF Result, Quarter, OutAt, OutIdx, OutRange, SameCall

(* The loop goes on: what is stored is what is passed.                      *)
LEMMA LoopAdvances ==
  ASSUME NEW f \in OKFrames, NEW g \in OKFrames, SameCall(f, g),
         NEW x, NEW old, NEW new, LoopOK(f, 4, x, old),
         Passed(f) <= Passed(g),
         Stored(f, Passed(f)..(Passed(g) - 1), x, old, new)
  PROVE  LoopOK(g, 4, x, new)
<1> DEFINE n == f.count \div 4
           a == Passed(f)
           b == Passed(g)
<1>1. a \in Nat /\ b \in Nat /\ a <= b /\ b <= n /\ n \in Nat /\ g.count = f.count
  <2>1. a \in Nat /\ b \in Nat
    BY FrameFields DEF Passed
  <2>2. b <= g.count \div 4 /\ g.count = f.count /\ f.count \in Nat
    BY FrameFields DEF FrameOK, SameCall
  <2> QED BY <2>1, <2>2
<1>2. /\ \A q \in 0..3, j \in a..(n - 1) : old[OutAt(f, q, j)] = Quarter(f, q, x)[j]
      /\ \A q \in 0..3, j \in 0..(a - 1) : old[OutAt(f, q, j)] = Result(f, x)[q * n + j]
      /\ \A q \in 0..3, j \in 0..(n - 1) :
           new[OutAt(f, q, j)] =
             IF j \in a..(b - 1) THEN Result(f, x)[q * n + j] ELSE old[OutAt(f, q, j)]
  BY DEF LoopOK, Stored
<1> HIDE DEF a, b, n
<1>3. ASSUME NEW q \in 0..3, NEW j \in b..(n - 1)
      PROVE  new[OutAt(f, q, j)] = Quarter(f, q, x)[j]
  <2>1. j \in 0..(n - 1) /\ j \in a..(n - 1) /\ j \notin a..(b - 1)
    BY <1>1
  <2> QED BY <1>2, <2>1
<1>4. ASSUME NEW q \in 0..3, NEW j \in 0..(b - 1)
      PROVE  new[OutAt(f, q, j)] = Result(f, x)[q * n + j]
  <2>1. j \in 0..(n - 1)
    BY <1>1
  <2>2. j \in 0..(a - 1) \/ j \in a..(b - 1)
    BY <1>1
  <2>3. j \in 0..(a - 1) => j \notin a..(b - 1)
    BY <1>1
  <2> QED BY <1>2, <2>1, <2>2, <2>3
<1>5. g.count \div 4 = n /\ 0..(4 - 1) = 0..3
  BY <1>1 DEF n
<1> QED BY <1>3, <1>4, <1>5, SameCallSame DEF LoopOK, b

(* A call is done when all elements are those of its result.                *)
Done(f, x, y) == \A j \in 0..(f.count - 1) : y[OutIdx(f, j)] = Result(f, x)[j]

(* Every element belongs to a quarter.                                      *)
LEMMA QuarterElement ==
  ASSUME NEW n \in Nat \ {0}, NEW c, c = 4 * n, NEW i \in 0..(c - 1)
  PROVE  \E q \in 0..3, j \in 0..(n - 1) : i = q * n + j
<1>1. CASE i < n
  <2>1. i = 0 * n + i /\ i \in 0..(n - 1)
    BY <1>1
  <2> QED BY <2>1
<1>2. CASE n <= i /\ i < 2 * n
  <2>1. i = 1 * n + (i - n) /\ i - n \in 0..(n - 1)
    BY <1>2
  <2> QED BY <2>1
<1>3. CASE 2 * n <= i /\ i < 3 * n
  <2>1. i = 2 * n + (i - 2 * n) /\ i - 2 * n \in 0..(n - 1)
    BY <1>3
  <2> QED BY <2>1
<1>4. CASE 3 * n <= i
  <2>1. i = 3 * n + (i - 3 * n) /\ i - 3 * n \in 0..(n - 1)
    BY <1>4
  <2> QED BY <2>1
<1> QED BY <1>1, <1>2, <1>3, <1>4

(* A call whose quarters hold its result is done.                           *)
LEMMA QuartersDone ==
  ASSUME NEW f \in OKFrames, NEW x, NEW y,
         \A q \in 0..3, j \in 0..(f.count \div 4 - 1) :
           y[OutAt(f, q, j)] = Result(f, x)[q * (f.count \div 4) + j]
  PROVE  Done(f, x, y)
<1> DEFINE n == f.count \div 4
<1>1. n \in Nat \ {0} /\ f.count = 4 * n
  <2>1. IsQuarter(f, n)
    BY DEF IsQuarter
  <2> HIDE DEF n
  <2> QED BY <2>1, QuarterNat
<1>2. ASSUME NEW i \in 0..(f.count - 1) PROVE y[OutIdx(f, i)] = Result(f, x)[i]
  <2>1. PICK q \in 0..3, j \in 0..(n - 1) : i = q * n + j
    <3> HIDE DEF n
    <3> QED BY <1>1, QuarterElement
  <2>2. OutAt(f, q, j) = OutIdx(f, i)
    BY <2>1 DEF OutAt
  <2> QED BY <2>1, <2>2
<1> QED BY <1>2 DEF Done

(* A call whose loop has passed everything is done.                         *)
LEMMA LoopDone ==
  ASSUME NEW f \in OKFrames, NEW x, NEW y, LoopOK(f, 4, x, y), Passed(f) = f.count \div 4
  PROVE  Done(f, x, y)
  BY QuartersDone DEF LoopOK

(* A leaf that has stored all elements is done.                             *)
LEMMA LeafDone ==
  ASSUME NEW f \in OKFrames, NEW x, NEW old, NEW new, NEW L,
         Stored(f, L, x, old, new), 0..(f.count \div 4 - 1) \subseteq L
  PROVE  Done(f, x, new)
  BY QuartersDone DEF Stored

-----------------------------------------------------------------------------
(* g is the recursive call that f makes on its q-th quarter.                *)
ChildOf(f, q, g) ==
  /\ f.count \notin {4, 8}
  /\ g.src = f.src /\ g.dst = f.dst /\ g.inverse = f.inverse
  /\ g.input = InIdx(f, q) /\ g.output = OutIdx(f, q * (f.count \div 4))
  /\ g.count = f.count \div 4 /\ g.stride = f.stride * 4

OutQuarter(f, q) ==
  LET n == f.count \div 4
  IN  (f.output + q * n)..(f.output + q * n + n - 1)

(* A quarter of the output is a part of the output.                         *)
LEMMA QuarterInRange ==
  ASSUME NEW f \in OKFrames, NEW q \in 0..3
  PROVE  OutQuarter(f, q) \subseteq OutRange(f)
<1> DEFINE n == f.count \div 4
           o == f.output
           x == q * n
<1>1. n \in Nat \ {0} /\ f.count = 4 * n
  <2>1. IsQuarter(f, n)
    BY DEF IsQuarter
  <2> HIDE DEF n
  <2> QED BY <2>1, QuarterNat
<1>2. o \in Nat
  BY FrameFields
<1>3. OutQuarter(f, q) = (o + x)..(o + x + n - 1) /\ OutRange(f) = o..(o + f.count - 1)
  BY DEF OutQuarter, OutRange
<1> HIDE DEF n, o
<1>4. x \in Nat /\ x + n <= 4 * n
  BY <1>1
<1> HIDE DEF x
<1>5. (o + x)..(o + x + n - 1) \subseteq o..(o + 4 * n - 1)
  BY <1>1, <1>2, <1>4
<1> QED BY <1>1, <1>3, <1>5

(* It writes that quarter, and what it computes is what the caller needs.   *)
LEMMA ChildFacts ==
  ASSUME NEW f \in OKFrames, NEW q \in 0..3, NEW g \in OKFrames, ChildOf(f, q, g)
  PROVE  /\ OutRange(g) = OutQuarter(f, q)
         /\ \A j \in 0..(g.count - 1) : OutIdx(g, j) = OutAt(f, q, j)
         /\ \A x : Result(g, x) = Quarter(f, q, x)
<1> DEFINE n == f.count \div 4
           s == f.stride
           in == f.input
<1>1. n \in Nat \ {0} /\ f.count = 4 * n /\ g.count = n
  <2>1. IsQuarter(f, n)
    BY DEF IsQuarter
  <2>2. g.count = n
    BY DEF ChildOf
  <2> HIDE DEF n
  <2> QED BY <2>1, <2>2, QuarterNat
<1>2. in \in Nat /\ s \in Nat /\ f.output \in Nat
  BY FrameFields
<1>3. g.output = f.output + q * n
  BY DEF ChildOf, OutIdx
<1>4. OutRange(g) = OutQuarter(f, q)
  BY <1>1, <1>3 DEF OutRange, OutQuarter
<1>5. ASSUME NEW j \in 0..(g.count - 1) PROVE OutIdx(g, j) = OutAt(f, q, j)
  <2> DEFINE x == q * n
  <2>1. OutAt(f, q, j) = f.output + (x + j) /\ OutIdx(g, j) = f.output + x + j
    BY <1>3 DEF OutAt, OutIdx
  <2>2. x \in Nat /\ j \in Nat
    <3> HIDE DEF n
    <3> QED BY <1>1
  <2> HIDE DEF x
  <2> QED BY <1>2, <2>1, <2>2
<1>6. ASSUME NEW x PROVE Input(g, x) = Every4th(Input(f, x), q, n)
  <2>1. ASSUME NEW j \in 0..(n - 1)
        PROVE  x[InIdx(g, j)] = Input(f, x)[4 * j + q]
    <3>1. 4 * j + q \in 0..(f.count - 1)
      <4> HIDE DEF n
      <4> QED BY <1>1
    <3>2. Input(f, x)[4 * j + q] = x[in + (4 * j + q) * s]
      BY <3>1 DEF Input, InIdx
    <3>3. InIdx(g, j) = in + q * s + j * (s * 4)
      BY DEF ChildOf, InIdx
    <3>4. j \in Nat
      <4> HIDE DEF n
      <4> QED BY <1>1
    <3> HIDE DEF in, s
    <3>5. in + q * s + j * (s * 4) = in + (4 * j + q) * s
      BY <1>2, <3>4
    <3> QED BY <3>2, <3>3, <3>5
  <2> HIDE DEF n
  <2> QED BY <1>1, <2>1 DEF Input, Every4th
<1>7. ASSUME NEW x PROVE Result(g, x) = Quarter(f, q, x)
  <2>1. g.inverse = f.inverse
    BY DEF ChildOf
  <2> QED BY <1>1, <1>6, <2>1 DEF Result, Quarter
<1> QED BY <1>4, <1>5, <1>7

(* A recursive call stores nothing in the quarters that are done.           *)
LEMMA LoopKept ==
  ASSUME NEW f \in OKFrames, f.i = 0, NEW q \in 0..3, NEW x, NEW old, NEW new,
         LoopOK(f, q, x, old),
         \A j \in 0..(BufLen[f.dst] - 1) : j \notin OutQuarter(f, q) => new[j] = old[j]
  PROVE  LoopOK(f, q, x, new)
<1> DEFINE n == f.count \div 4
<1>1. n \in Nat \ {0} /\ IsQuarter(f, n) /\ Passed(f) = 0
  BY QuarterNat DEF IsQuarter, Passed
<1>2. ASSUME NEW p \in 0..(q - 1), NEW j \in 0..(n - 1)
      PROVE  new[OutAt(f, p, j)] = old[OutAt(f, p, j)]
  <2>1. p \in 0..3 /\ p < q
    OBVIOUS
  <2> DEFINE o == f.output
             a == p * n
             b == q * n
  <2>2. OutQuarter(f, q) = (o + b)..(o + b + n - 1)
    BY DEF OutQuarter
  <2> HIDE DEF n
  <2>3. /\ o \in Nat /\ a \in Nat /\ OutAt(f, p, j) = o + (a + j)
        /\ OutAt(f, p, j) \in 0..(BufLen[f.dst] - 1)
    BY <1>1, <2>1, OutAtIndex
  <2>4. b \in Nat /\ a + n <= b
    <3>1. (p + 1) * n <= q * n
      BY <1>1, <2>1
    <3> QED BY <1>1, <2>1, <3>1
  <2> HIDE DEF o, a, b
  <2>5. OutAt(f, p, j) \notin OutQuarter(f, q)
    BY <1>1, <2>2, <2>3, <2>4
  <2> QED BY <2>3, <2>5
<1>3. /\ \A p \in 0..(q - 1), j \in Passed(f)..(n - 1) : old[OutAt(f, p, j)] = Quarter(f, p, x)[j]
  BY DEF LoopOK
<1> HIDE DEF n
<1>4. \A p \in 0..(q - 1), j \in Passed(f)..(n - 1) : new[OutAt(f, p, j)] = Quarter(f, p, x)[j]
  BY <1>1, <1>2, <1>3
<1>5. 0..(Passed(f) - 1) = {}
  BY <1>1
<1> QED BY <1>4, <1>5 DEF LoopOK, n

(* Its return makes one quarter more.                                       *)
LEMMA ChildReturns ==
  ASSUME NEW f \in OKFrames, f.i = 0, NEW q \in 0..3, NEW g \in OKFrames, ChildOf(f, q, g),
         NEW x, NEW y, LoopOK(f, q, x, y), Done(g, x, y)
  PROVE  LoopOK(f, q + 1, x, y)
<1> DEFINE n == f.count \div 4
<1>1. Passed(f) = 0 /\ 0..(Passed(f) - 1) = {}
  BY DEF Passed
<1>2. g.count = n
  BY DEF ChildOf
<1>3. \A p \in 0..(q - 1), j \in Passed(f)..(n - 1) : y[OutAt(f, p, j)] = Quarter(f, p, x)[j]
  BY DEF LoopOK
<1>4. \A j \in 0..(n - 1) : y[OutAt(f, q, j)] = Quarter(f, q, x)[j]
  <2>1. \A j \in 0..(n - 1) : y[OutIdx(g, j)] = Result(g, x)[j]
    BY <1>2 DEF Done
  <2>2. \A j \in 0..(n - 1) : OutIdx(g, j) = OutAt(f, q, j)
    BY <1>2, ChildFacts
  <2>3. Result(g, x) = Quarter(f, q, x)
    BY ChildFacts
  <2> HIDE DEF n
  <2> QED BY <2>1, <2>2, <2>3
<1> HIDE DEF n
<1>5. \A p \in 0..(q + 1 - 1), j \in Passed(f)..(n - 1) : y[OutAt(f, p, j)] = Quarter(f, p, x)[j]
  <2> SUFFICES ASSUME NEW p \in 0..(q + 1 - 1), NEW j \in 0..(n - 1)
               PROVE  y[OutAt(f, p, j)] = Quarter(f, p, x)[j]
    BY <1>1
  <2>1. p \in 0..(q - 1) \/ p = q
    OBVIOUS
  <2> QED BY <1>1, <1>3, <1>4, <2>1
<1> QED BY <1>1, <1>5 DEF LoopOK, n

(* SubCall makes the recursive call on the next quarter.                    *)
LEMMA SubCallChild ==
  ASSUME NEW f \in OKFrames, f.count \notin {4, 8}
  PROVE  ChildOf(f, f.k, SubCall(f)) /\ SubCall(f).k = 0 /\ SubCall(f).i = f.i
<1>1. f \in Frame
  BY FrameFields
<1> DEFINE in == InIdx(f, f.k)
           out == OutIdx(f, f.k * (f.count \div 4))
           n == f.count \div 4
           s == f.stride * 4
           g == [f EXCEPT !.input = in, !.output = out, !.count = n, !.stride = s, !.k = 0]
<1>2. SubCall(f) = g
  BY DEF SubCall
<1> HIDE DEF in, out, s, n
<1>3. /\ g.src = f.src /\ g.dst = f.dst /\ g.inverse = f.inverse
      /\ g.count = n /\ g.stride = s /\ g.input = in /\ g.output = out
      /\ g.k = 0 /\ g.i = f.i
  BY <1>1 DEF Frame
<1> HIDE DEF g
<1>4. ChildOf(f, f.k, g)
  BY <1>3 DEF ChildOf, n, s, in, out
<1> QED BY <1>2, <1>3, <1>4

-----------------------------------------------------------------------------
(***************************************************************************)
(* A recursion of the complex FFT on a call stack, above m other calls.  It *)
(* is on the way to the result of its first call if every other call is the *)
(* recursive call of the one below on the quarter that is next, stores in   *)
(* that quarter only, and the loops of all have done their part.            *)
(***************************************************************************)
Recursion(S, s, m) ==
  /\ s \in Seq(S) /\ OKFrames \subseteq S /\ m \in 0..Len(s)
  /\ \A d \in (m + 1)..Len(s) : s[d] \in OKFrames

FirstCall(f) == f.input = 0 /\ f.output = 0 /\ f.stride = 1

Waiting(f, g, x, y) ==
  /\ f.i = 0 /\ f.k \in 1..4
  /\ ChildOf(f, f.k - 1, g)
  /\ LoopOK(f, f.k - 1, x, y)

Progress(s, m, x, y) ==
  /\ \A d \in (m + 1)..(Len(s) - 1) : Waiting(s[d], s[d + 1], x, y)
  /\ \A d \in (m + 1)..(Len(s) - 1) : \A e \in (d + 1)..Len(s) :
       OutRange(s[e]) \subseteq OutQuarter(s[d], s[d].k - 1)
  /\ Len(s) > m => FirstCall(s[m + 1]) /\ LoopOK(s[Len(s)], s[Len(s)].k, x, y)

(* The buffer is as it was, except for the elements of a range.             *)
SameElse(b, R, old, new) == \A j \in 0..(BufLen[b] - 1) : j \notin R => new[j] = old[j]

(* A call keeps waiting while the one above stores in its quarter only.     *)
LEMMA WaitingKept ==
  ASSUME NEW f \in OKFrames, NEW g, NEW x, NEW old, NEW new, Waiting(f, g, x, old),
         NEW R, R \subseteq OutQuarter(f, f.k - 1), SameElse(f.dst, R, old, new)
  PROVE  Waiting(f, g, x, new)
<1>1. f.i = 0 /\ f.k - 1 \in 0..3 /\ LoopOK(f, f.k - 1, x, old)
  BY DEF Waiting
<1>2. \A j \in 0..(BufLen[f.dst] - 1) : j \notin OutQuarter(f, f.k - 1) => new[j] = old[j]
  BY DEF SameElse
<1> DEFINE q == f.k - 1
<1>3. f.i = 0 /\ q \in 0..3 /\ LoopOK(f, q, x, old)
      /\ \A j \in 0..(BufLen[f.dst] - 1) : j \notin OutQuarter(f, q) => new[j] = old[j]
  BY <1>1, <1>2
<1> HIDE DEF q
<1>4. LoopOK(f, q, x, new)
  BY <1>3, LoopKept
<1> QED BY <1>4 DEF Waiting, q

(* What the next call looks like does not depend on its counters.           *)
LEMMA WaitingSame ==
  ASSUME NEW f, NEW g, NEW h, SameCall(g, h), NEW x, NEW y, Waiting(f, g, x, y)
  PROVE  Waiting(f, h, x, y)
  BY DEF Waiting, ChildOf, SameCall

(* The running call stores in its own range.                                *)
LEMMA ProgressUpdate ==
  ASSUME NEW S, NEW m, NEW s, Recursion(S, s, m), Len(s) > m, NEW g \in OKFrames,
         SameCall(s[Len(s)], g), NEW x, NEW old, NEW new, Progress(s, m, x, old),
         NEW b, \A d \in (m + 1)..Len(s) : s[d].dst = b,
         SameElse(b, OutRange(g), old, new), LoopOK(g, g.k, x, new)
  PROVE  Progress(ReplaceTop(s, g), m, x, new)
<1> DEFINE n == Len(s)
           r == ReplaceTop(s, g)
<1>1. /\ s \in Seq(S) /\ g \in S /\ n \in Nat \ {0} /\ m \in Nat /\ m < n
      /\ \A d \in (m + 1)..n : s[d] \in OKFrames
  BY DEF Recursion
<1>2. Len(r) = n /\ \A d \in 1..n : r[d] = IF d = n THEN g ELSE s[d]
  <2>1. s # << >>
    BY <1>1
  <2> QED BY <1>1, <2>1, UpdateTop
<1>3. OutRange(g) = OutRange(s[n])
  BY SameCallSame
<1>4. /\ \A d \in (m + 1)..(n - 1) : Waiting(s[d], s[d + 1], x, old)
      /\ \A d \in (m + 1)..(n - 1) : \A e \in (d + 1)..n :
           OutRange(s[e]) \subseteq OutQuarter(s[d], s[d].k - 1)
      /\ FirstCall(s[m + 1]) /\ SameCall(s[n], g)
  BY DEF Progress
<1> HIDE DEF n, r
<1>5. ASSUME NEW d \in (m + 1)..(n - 1) PROVE Waiting(r[d], r[d + 1], x, new)
  <2>1. d \in (m + 1)..n /\ d \in 1..n /\ d + 1 \in 1..n /\ n \in (d + 1)..n /\ d # n
    BY <1>1
  <2>2. Waiting(s[d], s[d + 1], x, old) /\ s[d] \in OKFrames /\ s[d].dst = b
    BY <1>1, <1>4, <2>1 DEF n
  <2>3. OutRange(g) \subseteq OutQuarter(s[d], s[d].k - 1)
    BY <1>3, <1>4, <2>1
  <2>4. Waiting(s[d], s[d + 1], x, new)
    BY <2>2, <2>3, WaitingKept
  <2>5. r[d] = s[d] /\ (d + 1 # n => r[d + 1] = s[d + 1]) /\ (d + 1 = n => r[d + 1] = g)
    BY <1>2, <2>1
  <2>6. CASE d + 1 = n
    <3>1. SameCall(s[d + 1], g)
      BY <1>4, <2>6
    <3> QED BY <2>4, <2>5, <2>6, <3>1, WaitingSame
  <2> QED BY <2>4, <2>5, <2>6
<1>6. ASSUME NEW d \in (m + 1)..(n - 1), NEW e \in (d + 1)..n
      PROVE  OutRange(r[e]) \subseteq OutQuarter(r[d], r[d].k - 1)
  <2>1. d \in 1..n /\ d # n /\ e \in 1..n
    BY <1>1
  <2>2. r[d] = s[d] /\ OutRange(r[e]) = OutRange(s[e])
    BY <1>2, <1>3, <2>1
  <2> QED BY <1>4, <2>2
<1>7. FirstCall(r[m + 1])
  <2>1. m + 1 \in 1..n
    BY <1>1
  <2>2. r[m + 1] = IF m + 1 = n THEN g ELSE s[m + 1]
    BY <1>2, <2>1
  <2> QED BY <1>4, <2>2 DEF FirstCall, SameCall
<1>8. r[n] = g
  BY <1>1, <1>2
<1> QED BY <1>2, <1>5, <1>6, <1>7, <1>8 DEF Progress, r

(* What a stack is with its top replaced.                                   *)
Replaced(S, s, h, r) ==
  /\ r \in Seq(S) /\ Len(r) = Len(s)
  /\ \A d \in 1..Len(s) : r[d] = IF d = Len(s) THEN h ELSE s[d]

LEMMA ReplacedTop ==
  ASSUME NEW S, NEW s, NEW h, s \in Seq(S), s # << >>, h \in S
  PROVE  Replaced(S, s, h, ReplaceTop(s, h))
<1>1. /\ ReplaceTop(s, h) \in Seq(S) /\ Len(ReplaceTop(s, h)) = Len(s)
      /\ \A d \in 1..Len(s) : ReplaceTop(s, h)[d] = IF d = Len(s) THEN h ELSE s[d]
  BY UpdateTop
<1> QED BY <1>1 DEF Replaced

(* The running call makes its next recursive call.                          *)
LEMMA ProgressPush ==
  ASSUME NEW S, NEW m, NEW s, Recursion(S, s, m), Len(s) > m, NEW f, f = s[Len(s)],
         NEW h \in OKFrames, SameCall(f, h), f.count \notin {4, 8}, f.i = 0, h.i = 0, f.k \in 0..3, h.k = f.k + 1,
         SubCall(f) \in OKFrames,
         NEW x, NEW y, Progress(s, m, x, y)
  PROVE  Progress(Append(ReplaceTop(s, h), SubCall(f)), m, x, y)
<1> DEFINE n == Len(s)
           r == ReplaceTop(s, h)
           g == SubCall(f)
           u == Append(r, g)
<1>1. /\ s \in Seq(S) /\ OKFrames \subseteq S /\ n \in Nat \ {0} /\ m \in Nat /\ m < n
      /\ (\A d \in (m + 1)..n : s[d] \in OKFrames) /\ f \in OKFrames
  BY DEF Recursion
<1>2. r \in Seq(S) /\ Len(r) = n /\ \A d \in 1..n : r[d] = IF d = n THEN h ELSE s[d]
  <2>1. s # << >> /\ h \in S /\ s \in Seq(S)
    BY <1>1
  <2>2. Replaced(S, s, h, r)
    BY <2>1, ReplacedTop
  <2> QED BY <2>2 DEF Replaced
<1>3. Len(u) = n + 1 /\ \A d \in 1..(n + 1) : u[d] = IF d <= n THEN r[d] ELSE g
  <2>1. g \in S
    BY <1>1
  <2> HIDE DEF r, g, n
  <2> QED BY <1>2, <2>1, PushStack
<1>4. /\ \A d \in (m + 1)..(n - 1) : Waiting(s[d], s[d + 1], x, y)
      /\ \A d \in (m + 1)..(n - 1) : \A e \in (d + 1)..n :
           OutRange(s[e]) \subseteq OutQuarter(s[d], s[d].k - 1)
      /\ FirstCall(s[m + 1]) /\ LoopOK(f, f.k, x, y) /\ s[n] = f
  BY DEF Progress
<1>5. ChildOf(f, f.k, g) /\ g.k = 0 /\ g.i = 0 /\ g \in OKFrames
  BY <1>1, SubCallChild
<1> HIDE DEF n, r, g, u
<1>6. OutRange(g) = OutQuarter(f, f.k) /\ OutRange(g) \subseteq OutRange(f)
  BY <1>1, <1>5, ChildFacts, QuarterInRange
<1>7. OutRange(h) = OutRange(f) /\ OutQuarter(h, f.k) = OutQuarter(f, f.k)
  BY SameCallSame DEF OutQuarter, SameCall
<1>8. Waiting(h, g, x, y)
  <2>1. h.k - 1 = f.k /\ h.k \in 1..4
    OBVIOUS
  <2>2. ChildOf(h, f.k, g)
    BY <1>5 DEF ChildOf, SameCall, InIdx, OutIdx
  <2>3. LoopOK(h, f.k, x, y)
    <3>1. Passed(h) = 0 /\ Passed(f) = 0 /\ h.count = f.count
      BY DEF Passed, SameCall
    <3> QED BY <1>4, <3>1, SameCallSame DEF LoopOK
  <2> QED BY <2>1, <2>2, <2>3 DEF Waiting
<1>9. ASSUME NEW d \in 1..n
      PROVE  /\ u[d] = IF d = n THEN h ELSE s[d]
             /\ u[n + 1] = g
  <2>1. d \in 1..(n + 1) /\ d <= n /\ n + 1 \in 1..(n + 1) /\ ~(n + 1 <= n)
    BY <1>1
  <2> QED BY <1>2, <1>3, <2>1
<1>10. ASSUME NEW d \in (m + 1)..n PROVE Waiting(u[d], u[d + 1], x, y)
  <2>0. d \in 1..n
    BY <1>1
  <2>1. CASE d = n
    BY <1>8, <1>9, <2>0, <2>1
  <2>2. CASE d # n
    <3>1. d \in (m + 1)..(n - 1) /\ d + 1 \in 1..n
      BY <1>1, <2>2
    <3>2. u[d] = s[d] /\ u[d + 1] = IF d + 1 = n THEN h ELSE s[d + 1]
      BY <1>9, <2>0, <2>2, <3>1
    <3>3. Waiting(s[d], s[d + 1], x, y)
      BY <1>4, <3>1
    <3>4. d + 1 = n => Waiting(s[d], h, x, y)
      BY <1>4, <3>3, WaitingSame
    <3> QED BY <3>2, <3>3, <3>4
  <2> QED BY <2>1, <2>2
<1>11. ASSUME NEW d \in (m + 1)..n, NEW e \in (d + 1)..(n + 1)
       PROVE  OutRange(u[e]) \subseteq OutQuarter(u[d], u[d].k - 1)
  <2>0. d \in 1..n
    BY <1>1
  <2>1. CASE d = n
    <3>1. e = n + 1 /\ u[e] = g /\ u[d] = h /\ h.k - 1 = f.k
      BY <1>1, <1>9, <2>0, <2>1
    <3> QED BY <1>6, <1>7, <3>1
  <2>2. CASE d # n /\ e = n + 1
    <3>1. d \in (m + 1)..(n - 1) /\ n \in (d + 1)..n /\ u[d] = s[d] /\ u[e] = g
      BY <1>1, <1>9, <2>0, <2>2
    <3>2. OutRange(s[n]) \subseteq OutQuarter(s[d], s[d].k - 1)
      BY <1>4, <3>1
    <3> QED BY <1>4, <1>6, <3>1, <3>2
  <2>3. CASE d # n /\ e # n + 1
    <3>1. d \in (m + 1)..(n - 1) /\ e \in (d + 1)..n /\ e \in 1..n
      BY <1>1, <2>3
    <3>2. u[d] = s[d] /\ u[e] = IF e = n THEN h ELSE s[e]
      BY <1>9, <2>0, <2>3, <3>1
    <3>3. OutRange(u[e]) = OutRange(s[e])
      BY <1>4, <1>7, <3>2
    <3> QED BY <1>4, <3>1, <3>2, <3>3
  <2> QED BY <2>1, <2>2, <2>3
<1>12. FirstCall(u[m + 1])
  <2>1. m + 1 \in 1..n
    BY <1>1
  <2>2. u[m + 1] = IF m + 1 = n THEN h ELSE s[m + 1]
    BY <1>9, <2>1
  <2> QED BY <1>4, <2>2 DEF FirstCall, SameCall
<1>13. u[n + 1] = g /\ LoopOK(g, g.k, x, y)
  <2>1. n \in 1..n
    BY <1>1
  <2>2. Passed(g) = 0 /\ 0..(g.k - 1) = {} /\ 0..(Passed(g) - 1) = {}
    BY <1>5 DEF Passed
  <2> QED BY <1>9, <2>1, <2>2 DEF LoopOK
<1>14. Progress(u, m, x, y)
  <2>1. Len(u) = n + 1 /\ Len(u) - 1 = n
    BY <1>1, <1>3
  <2>2. \A d \in (m + 1)..(Len(u) - 1) : Waiting(u[d], u[d + 1], x, y)
    BY <1>10, <2>1
  <2>3. \A d \in (m + 1)..(Len(u) - 1) : \A e \in (d + 1)..Len(u) :
          OutRange(u[e]) \subseteq OutQuarter(u[d], u[d].k - 1)
    BY <1>11, <2>1
  <2>4. LoopOK(u[Len(u)], u[Len(u)].k, x, y)
    BY <1>13, <2>1
  <2> QED BY <1>12, <2>2, <2>3, <2>4 DEF Progress
<1> QED BY <1>14 DEF u, r, g

(* The running call returns its result to the one below.                    *)
LEMMA ProgressPop ==
  ASSUME NEW S, NEW m, NEW s, Recursion(S, s, m), Len(s) > m + 1,
         NEW x, NEW old, NEW new, Progress(s, m, x, old),
         NEW b, \A d \in (m + 1)..Len(s) : s[d].dst = b,
         SameElse(b, OutRange(s[Len(s)]), old, new), Done(s[Len(s)], x, new)
  PROVE  Progress(SubSeq(s, 1, Len(s) - 1), m, x, new)
<1> DEFINE n == Len(s)
           l == n - 1
           r == SubSeq(s, 1, Len(s) - 1)
<1>1. /\ s \in Seq(S) /\ n \in Nat /\ l \in Nat /\ n = l + 1 /\ m \in Nat /\ m < l
      /\ \A d \in (m + 1)..n : s[d] \in OKFrames /\ s[d].dst = b
  BY DEF Recursion
<1>2. Len(r) = l /\ \A d \in 1..l : r[d] = s[d]
  <2>1. s # << >>
    BY <1>1
  <2> QED BY <1>1, <2>1, PopStack
<1>3. Len(s) > m
  BY <1>1
<1>4. /\ \A d \in (m + 1)..(n - 1) : Waiting(s[d], s[d + 1], x, old)
      /\ \A d \in (m + 1)..(n - 1) : \A e \in (d + 1)..n :
           OutRange(s[e]) \subseteq OutQuarter(s[d], s[d].k - 1)
      /\ FirstCall(s[m + 1])
      /\ SameElse(b, OutRange(s[n]), old, new) /\ Done(s[n], x, new)
  BY <1>3 DEF Progress
<1>5. n - 1 = l
  OBVIOUS
<1> HIDE DEF n, l, r
<1>6. ASSUME NEW d \in (m + 1)..l PROVE Waiting(s[d], s[d + 1], x, new)
  <2>1. d \in (m + 1)..n /\ n \in (d + 1)..n /\ d \in (m + 1)..(n - 1)
    BY <1>1
  <2>2. Waiting(s[d], s[d + 1], x, old) /\ s[d] \in OKFrames /\ s[d].dst = b
    BY <1>1, <1>4, <2>1
  <2>3. OutRange(s[n]) \subseteq OutQuarter(s[d], s[d].k - 1)
    BY <1>4, <2>1
  <2> QED BY <1>4, <2>2, <2>3, WaitingKept
<1>7. ASSUME NEW d \in (m + 1)..(l - 1) PROVE Waiting(r[d], r[d + 1], x, new)
  <2>1. d \in (m + 1)..l /\ d \in 1..l /\ d + 1 \in 1..l
    BY <1>1
  <2> QED BY <1>2, <1>6, <2>1
<1>8. ASSUME NEW d \in (m + 1)..(l - 1), NEW e \in (d + 1)..l
      PROVE  OutRange(r[e]) \subseteq OutQuarter(r[d], r[d].k - 1)
  <2>1. d \in 1..l /\ e \in 1..l /\ d \in (m + 1)..(n - 1) /\ e \in (d + 1)..n
    BY <1>1
  <2> QED BY <1>2, <1>4, <2>1
<1>9. FirstCall(r[m + 1])
  <2>1. m + 1 \in 1..l
    BY <1>1
  <2> QED BY <1>2, <1>4, <2>1
<1>10. LoopOK(r[l], r[l].k, x, new)
  <2> DEFINE f == s[l]
             g == s[n]
             q == f.k - 1
  <2>1. l \in 1..l /\ l \in (m + 1)..l /\ l \in (m + 1)..n /\ n \in (m + 1)..n /\ l + 1 = n
    BY <1>1
  <2>2. f \in OKFrames /\ g \in OKFrames /\ Waiting(f, g, x, new) /\ Done(g, x, new) /\ r[l] = f
    BY <1>1, <1>2, <1>4, <1>6, <2>1
  <2>3. f.i = 0 /\ q \in 0..3 /\ q + 1 = f.k /\ ChildOf(f, q, g) /\ LoopOK(f, q, x, new)
    BY <2>2 DEF Waiting
  <2> HIDE DEF q, f, g
  <2>4. LoopOK(f, q + 1, x, new)
    BY <2>2, <2>3, ChildReturns
  <2> QED BY <2>2, <2>3, <2>4
<1>11. Progress(r, m, x, new)
  <2>1. /\ \A d \in (m + 1)..(Len(r) - 1) : Waiting(r[d], r[d + 1], x, new)
        /\ \A d \in (m + 1)..(Len(r) - 1) : \A e \in (d + 1)..Len(r) :
             OutRange(r[e]) \subseteq OutQuarter(r[d], r[d].k - 1)
    BY <1>2, <1>7, <1>8
  <2>2. LoopOK(r[Len(r)], r[Len(r)].k, x, new)
    BY <1>2, <1>10
  <2> QED BY <1>9, <2>1, <2>2 DEF Progress
<1> QED BY <1>11 DEF r

(* The first n elements of y are the transform of those of x.               *)
HasResult(n, inverse, x, y) ==
  \A j \in 0..(n - 1) : y[j] = DFT([i \in 0..(n - 1) |-> x[i]], n, inverse)[j]

(* What the first call computes is the transform of the first elements.     *)
LEMMA FirstResult ==
  ASSUME NEW f \in OKFrames, FirstCall(f), NEW x, NEW y, Done(f, x, y)
  PROVE  HasResult(f.count, f.inverse, x, y)
<1>1. f.count \in Nat
  BY FrameFields
<1>2. \A j \in 0..(f.count - 1) : OutIdx(f, j) = j /\ InIdx(f, j) = j
  BY <1>1 DEF FirstCall, OutIdx, InIdx
<1>3. Input(f, x) = [i \in 0..(f.count - 1) |-> x[i]]
  BY <1>2 DEF Input
<1> QED BY <1>2, <1>3 DEF Done, Result, HasResult

(* Nothing has been done yet when the recursion starts.                     *)
LEMMA ProgressStart ==
  ASSUME NEW fn, NEW c, NEW src, NEW dst, NEW count, NEW inverse, NEW x, NEW y,
         NEW s, NEW m \in Nat, Len(s) = m + 1,
         s[m + 1] = FftCall(fn, c, src, dst, count, inverse)
  PROVE  Progress(s, m, x, y)
<1> DEFINE f == FftCall(fn, c, src, dst, count, inverse)
<1>1. f.k = 0 /\ f.i = 0 /\ f.input = 0 /\ f.output = 0 /\ f.stride = 1
  BY DEF FftCall
<1> HIDE DEF f
<1>2. s[m + 1] = f
  BY DEF f
<1>3. (m + 1)..(Len(s) - 1) = {} /\ s[Len(s)] = f
  BY <1>2
<1>4. Passed(f) = 0 /\ 0..(f.k - 1) = {} /\ 0..(Passed(f) - 1) = {}
  BY <1>1 DEF Passed
<1>5. LoopOK(f, f.k, x, y)
  BY <1>4 DEF LoopOK
<1> QED BY <1>1, <1>2, <1>3, <1>5 DEF Progress, FirstCall

(* The trivial counts.                                                      *)
LEMMA TrivialRight ==
  ASSUME MemOK, NEW src \in Buffers, NEW dst \in Buffers, src # dst, NEW count \in {1, 2},
         count <= BufLen[src], count <= BufLen[dst], NEW inverse \in BOOLEAN,
         mem' = FftTrivial(src, dst, count)
  PROVE  HasResult(count, inverse, mem'[src], mem'[dst])
<1> DEFINE x == mem[src]
           z == [i \in 0..(count - 1) |-> x[i]]
<1>1. mem[src] \in BufferType(src) /\ mem[dst] \in BufferType(dst) /\ DOMAIN mem = Buffers
      /\ BufLen[src] \in Nat /\ BufLen[dst] \in Nat
  BY BufferAssumption DEF MemOK
<1>2. mem'[src] = x
  BY <1>1 DEF FftTrivial
<1>3. CASE count = 1
  <2>1. 0 \in 0..(BufLen[src] - 1) /\ 0 \in 0..(BufLen[dst] - 1) /\ 0 \in 0..(1 - 1)
    BY <1>1, <1>3
  <2>2. mem' = [mem EXCEPT ![dst][0] = x[0]]
    BY <1>3 DEF FftTrivial
  <2>3. mem'[dst][0] = x[0]
    BY <1>1, <2>1, <2>2 DEF BufferType
  <2>4. z[0] = x[0] /\ x[0] \in CkFftComplex
    BY <1>1, <1>3, <2>1 DEF BufferType
  <2>5. DFT(z, 1, inverse)[0] = x[0]
    <3> HIDE DEF x, z
    <3> QED BY <2>4, DftOne
  <2> QED BY <1>2, <1>3, <2>3, <2>5 DEF HasResult
<1>4. CASE count = 2
  <2>1. /\ 0 \in 0..(BufLen[src] - 1) /\ 0 \in 0..(BufLen[dst] - 1) /\ 0 \in 0..(2 - 1)
        /\ 1 \in 0..(BufLen[src] - 1) /\ 1 \in 0..(BufLen[dst] - 1) /\ 1 \in 0..(2 - 1)
    BY <1>1, <1>4
  <2>2. mem' = [mem EXCEPT ![dst] = [@ EXCEPT ![0] = add(x[0], x[1]),
                                              ![1] = subtract(x[0], x[1])]]
    BY <1>4 DEF FftTrivial
  <2>3. mem'[dst][0] = add(x[0], x[1]) /\ mem'[dst][1] = subtract(x[0], x[1])
    BY <1>1, <2>1, <2>2 DEF BufferType
  <2>4. z[0] = x[0] /\ z[1] = x[1] /\ x[0] \in CkFftComplex /\ x[1] \in CkFftComplex
    BY <1>1, <1>4, <2>1 DEF BufferType
  <2>5. DFT(z, 2, inverse)[0] = add(x[0], x[1]) /\ DFT(z, 2, inverse)[1] = subtract(x[0], x[1])
    <3> HIDE DEF x, z
    <3> QED BY <2>4, DftTwo
  <2>6. 0..(count - 1) = {0, 1}
    BY <1>4
  <2> QED BY <1>2, <1>4, <2>3, <2>5, <2>6 DEF HasResult
<1> QED BY <1>3, <1>4

-----------------------------------------------------------------------------
(***************************************************************************)
(* A thread on its way from the contents x of its input to the result: its  *)
(* calls above the first m read a, write b, and have tables that are exact. *)
(* After a step it is on its way still, or has returned with its result in  *)
(* b; the m calls below are as they were.                                   *)
(***************************************************************************)
Working(S, t, m, a, b) ==
  /\ t \in DOMAIN stack /\ Recursion(S, stack[t], m)
  /\ \A d \in (m + 1)..Len(stack[t]) :
       stack[t][d].src = a /\ stack[t][d].dst = b /\ ExactTable(stack[t][d])
  /\ Progress(stack[t], m, mem[a], mem[b])

AfterStack(s, r, m, x, new) ==
  /\ Len(r) >= m /\ \A d \in 1..m : r[d] = s[d]
  /\ IF Len(r) = m THEN FirstCall(s[Len(s)]) /\ Done(s[Len(s)], x, new)
                   ELSE Progress(r, m, x, new)

After(t, m, x, new) == AfterStack(stack[t], stack'[t], m, x, new)

(* The running call has done what its counters say.                         *)
LEMMA TopWorking ==
  ASSUME NEW S, NEW t, NEW m, NEW a, NEW b, Working(S, t, m, a, b), Len(stack[t]) > m
  PROVE  /\ stack[t] \in Seq(S) /\ OKFrames \subseteq S /\ stack[t] # << >>
         /\ m \in Nat /\ m < Len(stack[t])
         /\ Top(t) \in OKFrames /\ Top(t) = stack[t][Len(stack[t])]
         /\ Top(t).src = a /\ Top(t).dst = b /\ ExactTable(Top(t))
         /\ LoopOK(Top(t), Top(t).k, mem[a], mem[b])
<1> DEFINE s == stack[t]
<1>1. /\ s \in Seq(S) /\ OKFrames \subseteq S /\ m \in 0..Len(s) /\ Progress(s, m, mem[a], mem[b])
      /\ \A d \in (m + 1)..Len(s) : s[d] \in OKFrames
      /\ \A d \in (m + 1)..Len(s) : s[d].src = a /\ s[d].dst = b /\ ExactTable(s[d])
  BY DEF Working, Recursion
<1>2. Top(t) = s[Len(s)] /\ Len(s) > m
  BY DEF Top
<1> HIDE DEF s
<1>3. Len(s) \in (m + 1)..Len(s) /\ s # << >> /\ m \in Nat
  BY <1>1, <1>2
<1> QED BY <1>1, <1>2, <1>3 DEF Progress, s

(* What a return needs: the running call is done.                           *)
LEMMA AfterReturn ==
  ASSUME NEW S, NEW t, NEW m, NEW a, NEW b, Working(S, t, m, a, b), Len(stack[t]) > m,
         Return(t),
         NEW new, SameElse(b, OutRange(Top(t)), mem[b], new), Done(Top(t), mem[a], new)
  PROVE  After(t, m, mem[a], new)
<1> DEFINE s == stack[t]
           r == SubSeq(s, 1, Len(s) - 1)
           x == mem[a]
           old == mem[b]
<1>1. /\ Recursion(S, s, m) /\ Progress(s, m, x, old)
      /\ \A d \in (m + 1)..Len(s) : s[d].dst = b
  BY DEF Working
<1>2. /\ Top(t) = s[Len(s)] /\ s \in Seq(S) /\ s # << >> /\ m \in Nat /\ m < Len(s)
  BY TopWorking
<1>3. stack'[t] = r
  BY DEF Return, Working
<1>4. SameElse(b, OutRange(s[Len(s)]), old, new) /\ Done(s[Len(s)], x, new)
  BY <1>2
<1>5. Len(s) > m
  OBVIOUS
<1> HIDE DEF s, x, old
<1>6. Len(r) = Len(s) - 1 /\ \A d \in 1..(Len(s) - 1) : r[d] = s[d]
  BY <1>2, PopStack
<1>7. CASE Len(s) > m + 1
  <2>1. Progress(r, m, x, new)
    BY <1>1, <1>4, <1>7, ProgressPop
  <2> HIDE DEF r
  <2>2. Len(r) > m /\ 1..m \subseteq 1..(Len(s) - 1)
    BY <1>2, <1>6, <1>7
  <2> QED BY <1>2, <1>3, <1>6, <2>1, <2>2 DEF After, AfterStack, x, s
<1>8. CASE Len(s) = m + 1
  <2> HIDE DEF r
  <2>1. Len(r) = m /\ 1..m \subseteq 1..(Len(s) - 1)
    BY <1>2, <1>6, <1>8
  <2>2. FirstCall(s[Len(s)])
    BY <1>1, <1>5, <1>8 DEF Progress
  <2> QED BY <1>2, <1>3, <1>4, <1>6, <2>1, <2>2 DEF After, AfterStack, x, s
<1>9. Len(s) \in Nat
  BY <1>2
<1> QED BY <1>2, <1>7, <1>8, <1>9

(* A leaf stores its result and returns.                                    *)
LEMMA AfterLeaf ==
  ASSUME NEW S, NEW t, NEW m, NEW a, NEW b, Working(S, t, m, a, b), Len(stack[t]) > m,
         NEW X, NEW L, Return(t), Writes(Top(t), X), Stored(Top(t), L, mem[a], mem[b], X),
         0..(Top(t).count \div 4 - 1) \subseteq L
  PROVE  After(t, m, mem[a], X)
<1>1. Top(t) \in OKFrames /\ Top(t).dst = b
  BY TopWorking
<1>2. SameElse(b, OutRange(Top(t)), mem[b], X)
  BY <1>1 DEF Writes, SameElse
<1>3. Done(Top(t), mem[a], X)
  BY <1>1, LeafDone
<1> QED BY <1>2, <1>3, AfterReturn

(* An iteration of the loop of butterflies.                                 *)
LEMMA AfterIteration ==
  ASSUME NEW S, NEW t, NEW m, NEW a, NEW b, Working(S, t, m, a, b), Len(stack[t]) > m,
         ~MoreQuarters(Top(t)),
         NEW g, g = [Top(t) EXCEPT !.i = @ + 1], Passed(g) <= Top(t).count \div 4,
         NEW X, IterationStep(t, X), Writes(Top(t), X),
         Stored(Top(t), Passed(Top(t))..(Passed(g) - 1), mem[a], mem[b], X)
  PROVE  After(t, m, mem[a], X)
<1> DEFINE s == stack[t]
           r == ReplaceTop(s, g)
           x == mem[a]
           old == mem[b]
           f == Top(t)
<1>1. f \in OKFrames /\ f.src = a /\ f.dst = b /\ LoopOK(f, f.k, x, old) /\ f = s[Len(s)]
      /\ s \in Seq(S) /\ OKFrames \subseteq S /\ s # << >> /\ m \in Nat /\ m < Len(s)
  BY TopWorking
<1>2. stack'[t] = r
  BY DEF IterationStep, Working
<1>3. Recursion(S, s, m) /\ Progress(s, m, x, old) /\ Len(s) > m
      /\ \A d \in (m + 1)..Len(s) : s[d].dst = b
  BY DEF Working
<1>4. /\ ~MoreQuarters(f) /\ g = [f EXCEPT !.i = @ + 1] /\ Passed(g) <= f.count \div 4
      /\ Writes(f, X) /\ Stored(f, Passed(f)..(Passed(g) - 1), x, old, X)
  OBVIOUS
<1>5. old = mem[b]
  OBVIOUS
<1> HIDE DEF f, s, x, old, r
<1>6. f.k = 4 /\ f.i \in Nat /\ f.fn \in {"fft_default", "fft_neon"}
  BY <1>1, <1>4, QuartersLeft, FrameFields
<1>7. g \in OKFrames
  <2> DEFINE h == [f EXCEPT !.k = 4, !.i = f.i + 1]
  <2>1. g = h
    BY <1>1, <1>4, <1>6, FrameFields DEF Frame
  <2>2. Passed(h) <= f.count \div 4
    <3> HIDE DEF h
    <3> QED BY <1>4, <2>1
  <2>3. f.i + 1 \in Nat /\ 4 \in 0..4
    BY <1>6
  <2>4. h \in OKFrames
    BY <1>1, <2>2, <2>3, CountersOK
  <2> QED BY <2>1, <2>4
<1>8. SameCall(f, g) /\ g.k = 4 /\ g.i = f.i + 1
  BY <1>1, <1>4, <1>6, FrameFields DEF Frame, SameCall
<1>9. Passed(f) <= Passed(g)
  BY <1>6, <1>8 DEF Passed, SameCall
<1>10. LoopOK(g, g.k, x, X)
  BY <1>1, <1>4, <1>6, <1>7, <1>8, <1>9, LoopAdvances
<1>11. SameElse(b, OutRange(g), old, X)
  BY <1>1, <1>4, <1>5, <1>8, SameCallSame DEF Writes, SameElse
<1>12. Progress(r, m, x, X)
  BY <1>1, <1>3, <1>7, <1>8, <1>10, <1>11, ProgressUpdate DEF r
<1>13. Len(r) > m /\ \A d \in 1..m : r[d] = s[d]
  <2>1. g \in S /\ s \in Seq(S) /\ s # << >>
    BY <1>1, <1>7
  <2>2. Replaced(S, s, g, r)
    BY <2>1, ReplacedTop DEF r
  <2>3. \A d \in 1..m : d \in 1..Len(s) /\ d # Len(s)
    BY <1>1
  <2> QED BY <1>1, <2>2, <2>3 DEF Replaced
<1>14. Len(r) >= m /\ Len(r) # m
  <2>1. Len(r) \in Int
    <3>1. r \in Seq(S)
      BY <1>1, <1>7, UpdateTop DEF r
    <3> QED BY <3>1
  <2> QED BY <1>1, <1>13, <2>1
<1> QED BY <1>2, <1>12, <1>13, <1>14 DEF After, AfterStack, x, s

(* The next recursive call.                                                 *)
LEMMA AfterRecurse ==
  ASSUME NEW S, NEW t, NEW m, NEW a, NEW b, Working(S, t, m, a, b), Len(stack[t]) > m,
         Top(t).count \notin {4, 8}, Recurse(t)
  PROVE  After(t, m, mem[a], mem[b])
<1> DEFINE s == stack[t]
           x == mem[a]
           y == mem[b]
           f == Top(t)
           h == [f EXCEPT !.k = @ + 1]
           u == Append(ReplaceTop(s, h), SubCall(f))
<1>1. f \in OKFrames /\ f = s[Len(s)] /\ f.count \notin {4, 8}
      /\ s \in Seq(S) /\ OKFrames \subseteq S /\ s # << >> /\ m \in Nat /\ m < Len(s)
  BY TopWorking
<1>2. stack'[t] = u
  BY RecurseStack DEF Working
<1>3. Recursion(S, s, m) /\ Progress(s, m, x, y) /\ Len(s) > m
  BY DEF Working
<1>4. MoreQuarters(f)
  BY DEF Recurse
<1> HIDE DEF f, s, x, y
<1>5. f.k \in 0..3
  BY <1>1, <1>4, QuartersLeft
<1>6. f.fn \in {"fft_default", "fft_neon"} /\ f.i = 0 /\ f.count \in Nat
  BY <1>1, <1>5, FrameFields
<1>7. h \in OKFrames
  <2> DEFINE g == [f EXCEPT !.k = f.k + 1, !.i = 0]
  <2>1. h = g
    BY <1>1, <1>6, FrameFields DEF Frame
  <2>2. g.fn = f.fn /\ g.i = 0
    BY <1>1, FrameFields DEF Frame
  <2>3. Passed(g) <= f.count \div 4
    <3> HIDE DEF g
    <3> QED BY <1>6, <2>2 DEF Passed
  <2>4. f.k + 1 \in 0..4 /\ 0 \in Nat /\ ~(0 > 0)
    BY <1>5
  <2>5. g \in OKFrames
    BY <1>1, <2>3, <2>4, CountersOK
  <2> QED BY <2>1, <2>5
<1>8. SubCall(f) \in OKFrames
  <2>1. f.k < 4
    BY <1>5
  <2> QED BY <1>1, <1>6, <2>1, SubCallOK
<1>9. SameCall(f, h) /\ h.k = f.k + 1 /\ h.i = 0
  BY <1>1, <1>6, FrameFields DEF Frame, SameCall
<1>10. Progress(u, m, x, y)
  <2> HIDE DEF h
  <2> QED BY <1>1, <1>3, <1>5, <1>6, <1>7, <1>8, <1>9, ProgressPush
<1>11. Len(u) = Len(s) + 1 /\ Len(s) \in Nat /\ \A d \in 1..m : u[d] = s[d]
  <2> DEFINE r == ReplaceTop(s, h)
             g == SubCall(f)
  <2> HIDE DEF h, g
  <2>1. h \in S /\ g \in S
    BY <1>1, <1>7, <1>8 DEF g
  <2>2. r \in Seq(S) /\ Len(r) = Len(s)
        /\ \A d \in 1..Len(s) : r[d] = IF d = Len(s) THEN h ELSE s[d]
    BY <1>1, <2>1, UpdateTop
  <2> HIDE DEF r
  <2>3. /\ Len(Append(r, g)) = Len(r) + 1
        /\ \A d \in 1..(Len(r) + 1) : Append(r, g)[d] = IF d <= Len(r) THEN r[d] ELSE g
    BY <2>1, <2>2, PushStack
  <2>4. Len(s) \in Nat
    BY <1>1
  <2>5. \A d \in 1..m : d \in 1..Len(s) /\ d # Len(s) /\ d \in 1..(Len(s) + 1) /\ d <= Len(s)
    BY <1>1, <2>4
  <2>6. u = Append(r, g)
    BY DEF r, g
  <2> HIDE DEF u
  <2> QED BY <2>2, <2>3, <2>4, <2>5, <2>6
<1> HIDE DEF u
<1>12. Len(u) >= m /\ Len(u) # m
  BY <1>1, <1>11
<1> QED BY <1>2, <1>10, <1>11, <1>12 DEF After, AfterStack, x, y, s

(* Leaves have a quarter of one or two elements.                            *)
LEMMA LeafQuarter ==
  ASSUME NEW f, f.count \in {4, 8}
  PROVE  0..(f.count \div 4 - 1) = IF f.count = 4 THEN 0..0 ELSE 0..1
<1>1. CASE f.count = 4
  BY <1>1
<1>2. CASE f.count = 8
  BY <1>2
<1> QED BY <1>1, <1>2

(* A loop of vectors ends with the whole quarter.                           *)
LEMMA WholeVectors ==
  ASSUME NEW f \in OKFrames, f.fn = "fft_neon", f.count \notin {4, 8}, ~MoreVectors(f)
  PROVE  Passed(f) = f.count \div 4
<1> DEFINE n == f.count \div 4
           m == n \div 4
<1>1. n \in Nat \ {0} /\ isPowerOfTwo(n) /\ f.count = 4 * n
  <2>1. IsQuarter(f, n)
    BY DEF IsQuarter
  <2> HIDE DEF n
  <2> QED BY <2>1, QuarterNat
<1>2. f.i \in Nat /\ Passed(f) = 4 * f.i /\ Passed(f) <= n /\ ~(f.i < m)
  BY FrameFields DEF Passed, MoreVectors, FrameOK
<1>3. n # 1 /\ n # 2
  BY <1>1
<1> HIDE DEF n
<1>4. n >= 4
  <2>1. n # 3
    BY <1>1 DEF isPowerOfTwo
  <2> QED BY <1>1, <1>3, <2>1
<1>5. n = 4 * m /\ m \in Nat
  BY <1>1, <1>4, PowerOfTwoQuarter
<1> HIDE DEF m
<1>6. Passed(f) = n
  BY <1>1, <1>2, <1>5
<1> QED BY <1>6 DEF n

(* Storing X in the output of the running call.                             *)
LEMMA StoredInOutput ==
  ASSUME MemOK, NEW f \in OKFrames, NEW X, mem' = [mem EXCEPT ![f.dst] = X]
  PROVE  mem'[f.dst] = X
  BY FrameFields DEF MemOK

(* Every step of fft_default does its part of the result.                   *)
LEMMA AfterFftDefault ==
  ASSUME MemOK, NEW S, NEW t, NEW m, NEW a, NEW b, Working(S, t, m, a, b),
         Len(stack[t]) > m, FftDefaultStep(t)
  PROVE  After(t, m, mem[a], mem'[b])
<1> DEFINE f == Top(t)
<1>0. Len(stack[t]) > m
  OBVIOUS
<1>1. f.fn = "fft_default"
  BY DEF FftDefaultStep, FftDefault4, FftDefault8, FftDefaultRecurse,
         FftDefaultCombine, FftDefaultReturn, General, Combining, Running
<1>2. f \in OKFrames /\ f.src = a /\ f.dst = b /\ ExactTable(f)
      /\ LoopOK(f, f.k, mem[a], mem[b])
  BY <1>0, TopWorking
<1>3. ASSUME NEW X, NEW L, Writes(f, X), LeafStep(t, X), Stored(f, L, mem[a], mem[b], X),
             0..(f.count \div 4 - 1) \subseteq L
      PROVE  After(t, m, mem[a], mem'[b])
  <2>1. mem' = [mem EXCEPT ![f.dst] = X] /\ Return(t)
    BY <1>3 DEF LeafStep
  <2>2. mem'[b] = X
    <3> HIDE DEF f
    <3> QED BY <1>2, <2>1, StoredInOutput
  <2>3. After(t, m, mem[a], X)
    BY <1>0, <1>3, <2>1, AfterLeaf
  <2> QED BY <2>2, <2>3
<1>4. CASE FftDefault4(t)
  <2>1. f.count = 4 /\ LeafStep(t, Leaf4(f))
    BY <1>4 DEF FftDefault4
  <2>2. Writes(f, Leaf4(f))
    BY <1>2, <2>1, LeafWrites
  <2>3. Stored(f, 0..0, mem[f.src], mem[f.dst], Leaf4(f))
    BY <1>2, <2>1, Leaf4Right
  <2>4. 0..(f.count \div 4 - 1) \subseteq 0..0
    BY <2>1, LeafQuarter
  <2> HIDE DEF f
  <2> QED BY <1>2, <1>3, <2>1, <2>2, <2>3, <2>4
<1>5. CASE FftDefault8(t)
  <2>1. f.count = 8 /\ LeafStep(t, Leaf8(f))
    BY <1>5 DEF FftDefault8
  <2>2. Writes(f, Leaf8(f))
    BY <1>2, <2>1, LeafWrites
  <2>3. Stored(f, 0..1, mem[f.src], mem[f.dst], Leaf8(f))
    BY <1>2, <2>1, Leaf8Right
  <2>4. 0..(f.count \div 4 - 1) \subseteq 0..1
    BY <2>1, LeafQuarter
  <2> HIDE DEF f
  <2> QED BY <1>2, <1>3, <2>1, <2>2, <2>3, <2>4
<1>6. CASE FftDefaultRecurse(t)
  <2>1. f.count \notin {4, 8} /\ Recurse(t)
    BY <1>6 DEF FftDefaultRecurse, General
  <2>2. UNCHANGED mem
    BY <2>1 DEF Recurse
  <2> QED BY <1>0, <2>1, <2>2, AfterRecurse
<1>7. CASE FftDefaultCombine(t)
  <2> DEFINE g == [f EXCEPT !.i = @ + 1]
             X == Combine(f)
  <2>1. ~MoreQuarters(f) /\ f.i < f.count \div 4 /\ IterationStep(t, X)
    BY <1>7 DEF FftDefaultCombine, Combining
  <2>2. Writes(f, X)
    BY <1>2, <2>1, CombineWrites
  <2>3. g.fn = f.fn /\ g.i = f.i + 1 /\ f.i \in Nat /\ f.count \in Nat
    <3> HIDE DEF f
    <3> QED BY <1>2, FrameFields DEF Frame
  <2>4. Passed(f) = f.i /\ Passed(g) = f.i + 1
    <3> HIDE DEF f, g
    <3> QED BY <1>1, <2>3 DEF Passed
  <2>5. Stored(f, f.i..f.i, mem[a], mem[b], X)
    <3>1. LoopOK(f, 4, mem[a], mem[b])
      BY <1>2, <2>1, QuartersLeft
    <3> HIDE DEF f
    <3> QED BY <1>1, <1>2, <2>1, <3>1, CombineRight
  <2>6. Passed(f)..(Passed(g) - 1) = f.i..f.i /\ Passed(g) <= f.count \div 4
    <3> HIDE DEF f, g
    <3> QED BY <2>1, <2>3, <2>4
  <2>7. After(t, m, mem[a], X)
    <3>1. Stored(f, Passed(f)..(Passed(g) - 1), mem[a], mem[b], X)
      BY <2>5, <2>6
    <3> HIDE DEF X
    <3> QED BY <1>0, <2>1, <2>2, <2>6, <3>1, AfterIteration
  <2>8. mem'[b] = X
    <3>1. mem' = [mem EXCEPT ![f.dst] = X]
      BY <2>1 DEF IterationStep
    <3> HIDE DEF f, X
    <3> QED BY <1>2, <3>1, StoredInOutput
  <2> QED BY <2>7, <2>8
<1>8. CASE FftDefaultReturn(t)
  <2>1. /\ Return(t) /\ UNCHANGED mem
        /\ ~MoreQuarters(f) /\ ~(f.i < f.count \div 4)
    BY <1>2, <1>8, FrameFields DEF FftDefaultReturn, ReturnStep, Combining
  <2>2. Passed(f) = f.count \div 4
    <3>1. f.i \in Nat /\ f.count \in Nat /\ Passed(f) <= f.count \div 4 /\ Passed(f) = f.i
      BY <1>1, <1>2, FrameFields DEF FrameOK, Passed
    <3> QED BY <2>1, <3>1
  <2>3. Done(f, mem[a], mem[b])
    <3>1. LoopOK(f, 4, mem[a], mem[b])
      BY <1>2, <2>1, QuartersLeft
    <3> QED BY <1>2, <2>2, <3>1, LoopDone
  <2>4. SameElse(b, OutRange(f), mem[b], mem[b])
    BY DEF SameElse
  <2> QED BY <1>0, <2>1, <2>3, <2>4, AfterReturn
<1> QED BY <1>4, <1>5, <1>6, <1>7, <1>8 DEF FftDefaultStep

(* Every step of fft_neon does its part of the result.                      *)
LEMMA AfterFftNeon ==
  ASSUME MemOK, NEW S, NEW t, NEW m, NEW a, NEW b, Working(S, t, m, a, b),
         Len(stack[t]) > m, FftNeonStep(t)
  PROVE  After(t, m, mem[a], mem'[b])
<1> DEFINE f == Top(t)
<1>0. Len(stack[t]) > m
  OBVIOUS
<1>1. f.fn = "fft_neon"
  BY DEF FftNeonStep, FftNeon4, FftNeon8, FftNeonRecurse,
         FftNeonCombine, FftNeonReturn, General, Combining, Running
<1>2. f \in OKFrames /\ f.src = a /\ f.dst = b /\ ExactTable(f)
      /\ LoopOK(f, f.k, mem[a], mem[b])
  BY <1>0, TopWorking
<1>3. ASSUME NEW X, NEW L, Writes(f, X), LeafStep(t, X), Stored(f, L, mem[a], mem[b], X),
             0..(f.count \div 4 - 1) \subseteq L
      PROVE  After(t, m, mem[a], mem'[b])
  <2>1. mem' = [mem EXCEPT ![f.dst] = X] /\ Return(t)
    BY <1>3 DEF LeafStep
  <2>2. mem'[b] = X
    <3> HIDE DEF f
    <3> QED BY <1>2, <2>1, StoredInOutput
  <2>3. After(t, m, mem[a], X)
    BY <1>0, <1>3, <2>1, AfterLeaf
  <2> QED BY <2>2, <2>3
<1>4. CASE FftNeon4(t)
  <2>1. f.count = 4 /\ LeafStep(t, Leaf4(f))
    BY <1>4 DEF FftNeon4
  <2>2. Writes(f, Leaf4(f))
    BY <1>2, <2>1, LeafWrites
  <2>3. Stored(f, 0..0, mem[f.src], mem[f.dst], Leaf4(f))
    BY <1>2, <2>1, Leaf4Right
  <2>4. 0..(f.count \div 4 - 1) \subseteq 0..0
    BY <2>1, LeafQuarter
  <2> HIDE DEF f
  <2> QED BY <1>2, <1>3, <2>1, <2>2, <2>3, <2>4
<1>5. CASE FftNeon8(t)
  <2>1. f.count = 8 /\ LeafStep(t, NeonLeaf8(f))
    BY <1>5 DEF FftNeon8
  <2>2. Writes(f, NeonLeaf8(f))
    BY <1>2, <2>1, NeonLeafWrites
  <2>3. Stored(f, 0..1, mem[f.src], mem[f.dst], NeonLeaf8(f))
    BY <1>2, <2>1, NeonLeaf8Right
  <2>4. 0..(f.count \div 4 - 1) \subseteq 0..1
    BY <2>1, LeafQuarter
  <2> HIDE DEF f
  <2> QED BY <1>2, <1>3, <2>1, <2>2, <2>3, <2>4
<1>6. CASE FftNeonRecurse(t)
  <2>1. f.count \notin {4, 8} /\ Recurse(t)
    BY <1>6 DEF FftNeonRecurse, General
  <2>2. UNCHANGED mem
    BY <2>1 DEF Recurse
  <2> QED BY <1>0, <2>1, <2>2, AfterRecurse
<1>7. CASE FftNeonCombine(t)
  <2> DEFINE g == [f EXCEPT !.i = @ + 1]
             X == NeonCombine(f)
  <2>1. ~MoreQuarters(f) /\ f.i < (f.count \div 4) \div 4 /\ IterationStep(t, X)
    BY <1>7 DEF FftNeonCombine, Combining, MoreVectors
  <2>2. g.fn = f.fn /\ g.i = f.i + 1 /\ f.i \in Nat /\ f.count \in Nat
    <3> HIDE DEF f
    <3> QED BY <1>2, FrameFields DEF Frame
  <2>3. 4 * (f.i + 1) <= f.count \div 4
    BY <2>1, <2>2
  <2>4. Writes(f, X)
    BY <1>2, <2>3, NeonCombineWrites
  <2>5. Passed(f) = 4 * f.i /\ Passed(g) = 4 * (f.i + 1)
    <3> HIDE DEF f, g
    <3> QED BY <1>1, <2>2 DEF Passed
  <2>6. Stored(f, (4 * f.i)..(4 * f.i + 3), mem[a], mem[b], X)
    <3>1. LoopOK(f, 4, mem[a], mem[b])
      BY <1>2, <2>1, QuartersLeft
    <3> HIDE DEF f
    <3> QED BY <1>1, <1>2, <2>3, <3>1, NeonCombineRight
  <2>7. Passed(f)..(Passed(g) - 1) = (4 * f.i)..(4 * f.i + 3) /\ Passed(g) <= f.count \div 4
    <3> HIDE DEF f, g
    <3> QED BY <2>2, <2>3, <2>5
  <2>8. After(t, m, mem[a], X)
    <3>1. Stored(f, Passed(f)..(Passed(g) - 1), mem[a], mem[b], X)
      BY <2>6, <2>7
    <3> HIDE DEF X
    <3> QED BY <1>0, <2>1, <2>4, <2>7, <3>1, AfterIteration
  <2>9. mem'[b] = X
    <3>1. mem' = [mem EXCEPT ![f.dst] = X]
      BY <2>1 DEF IterationStep
    <3> HIDE DEF f, X
    <3> QED BY <1>2, <3>1, StoredInOutput
  <2> QED BY <2>8, <2>9
<1>8. CASE FftNeonReturn(t)
  <2>1. /\ Return(t) /\ UNCHANGED mem
        /\ ~MoreQuarters(f) /\ ~MoreVectors(f) /\ f.count \notin {4, 8}
    BY <1>8 DEF FftNeonReturn, ReturnStep, Combining, General
  <2>2. Passed(f) = f.count \div 4
    <3> HIDE DEF f
    <3> QED BY <1>1, <1>2, <2>1, WholeVectors
  <2>3. Done(f, mem[a], mem[b])
    <3>1. LoopOK(f, 4, mem[a], mem[b])
      BY <1>2, <2>1, QuartersLeft
    <3> QED BY <1>2, <2>2, <3>1, LoopDone
  <2>4. SameElse(b, OutRange(f), mem[b], mem[b])
    BY DEF SameElse
  <2> QED BY <1>0, <2>1, <2>3, <2>4, AfterReturn
<1> QED BY <1>4, <1>5, <1>6, <1>7, <1>8 DEF FftNeonStep

(***************************************************************************)
(* Every step of the complex FFT brings the call it works for nearer to the *)
(* transform of the input, and the last one leaves it in the output.        *)
(***************************************************************************)
THEOREM FftStepResult ==
  ASSUME MemOK, NEW S, NEW t, NEW m, NEW a, NEW b, Working(S, t, m, a, b),
         Len(stack[t]) > m, FftStep(t)
  PROVE  After(t, m, mem[a], mem'[b])
  BY AfterFftDefault, AfterFftNeon DEF FftStep
=============================================================================
