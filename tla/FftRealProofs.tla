--------------------------- MODULE FftRealProofs ---------------------------
(* Proofs about the operations of FftReal, for every caller, every count,   *)
(* and builds and contexts with NEON and without.                           *)
EXTENDS FftReal, FftResultProofs

(***************************************************************************)
(* What every step of a real transform relies on.  The loop works in the    *)
(* output of a forward transform, which its frame calls tmpBuf too, and in  *)
(* the tmpBuf of an inverse one; it stays in the first count/2 + 1 elements *)
(* and the vectors start at multiples of four.                              *)
(***************************************************************************)
ForwardFns == {"fft_real_default", "fft_real_neon"}
InverseFns == {"fft_real_inverse_default", "fft_real_inverse_neon"}
VectorFns == {"fft_real_neon", "fft_real_inverse_neon"}

RealFrameOK(f) ==
  /\ isPowerOfTwo(f.count) /\ f.count >= 8 /\ f.count <= context[f.context].maxCount
  /\ f.count \div 2 <= BufLen[f.src] /\ HalfSpectrum(f.count) <= BufLen[f.tmpBuf]
  /\ f.fn \in InverseFns =>
       /\ HasTable(f.context, TRUE) /\ f.copied
       /\ HalfSpectrum(f.count) <= BufLen[f.src] /\ f.count \div 2 <= BufLen[f.dst]
  /\ f.fn \in ForwardFns => HasTable(f.context, FALSE) /\ f.tmpBuf = f.dst
  /\ LoopInBounds(f)
  /\ f.fn \in VectorFns => f.i % 4 = 0

OKRealFrames == {f \in RealFrame : RealFrameOK(f)}

(* The call of a real transform that a frame serves.                        *)
RealServes(f) == [fn |-> f.fn, context |-> f.context, src |-> f.src, dst |-> f.dst,
                  tmpBuf |-> f.tmpBuf, count |-> f.count]

-----------------------------------------------------------------------------
LEMMA RealCounts ==
  ASSUME NEW n \in Nat, isPowerOfTwo(n), n >= 8
  PROVE  /\ n = 4 * (n \div 4) /\ n \div 2 = 2 * (n \div 4)
         /\ n \div 4 \in Nat /\ n \div 4 >= 2
         /\ n \div 4 = 2 \/ (n \div 4) % 4 = 0
         /\ isPowerOfTwo(n \div 2)
<1>1. n = 4 * (n \div 4) /\ n \div 4 \in Nat /\ isPowerOfTwo(n \div 4)
  BY PowerOfTwoQuarter
<1>2. isPowerOfTwo(n \div 2)
  BY PowerOfTwoEven
<1>3. n \div 4 > 2 => n \div 4 = 4 * ((n \div 4) \div 4) /\ (n \div 4) \div 4 \in Nat
  BY <1>1, PowerOfTwoQuarter
<1> DEFINE q == n \div 4
<1>4. q \in Nat /\ n = 4 * q /\ (q > 2 => q = 4 * (q \div 4) /\ q \div 4 \in Nat)
  BY <1>1, <1>3
<1>5. n \div 2 = 2 * q
  BY <1>1
<1> HIDE DEF q
<1>6. q >= 2 /\ (q = 2 \/ q % 4 = 0)
  BY <1>4
<1> QED BY <1>1, <1>2, <1>5, <1>6 DEF q

LEMMA RealFrameFields ==
  ASSUME NEW f \in OKRealFrames
  PROVE  /\ f \in RealFrame /\ RealFrameOK(f)
         /\ f.context \in Contexts /\ f.copied \in BOOLEAN
         /\ f.src \in Buffers /\ f.dst \in Buffers /\ f.tmpBuf \in Buffers
         /\ f.fn \in ForwardFns \cup InverseFns
         /\ f.count \in Nat /\ f.i \in Nat /\ f.count \div 2 \in Nat
         /\ BufLen[f.src] \in Nat /\ BufLen[f.dst] \in Nat /\ BufLen[f.tmpBuf] \in Nat
<1>1. /\ f \in RealFrame /\ RealFrameOK(f)
      /\ f.context \in Contexts /\ f.copied \in BOOLEAN
      /\ f.src \in Buffers /\ f.dst \in Buffers /\ f.tmpBuf \in Buffers
      /\ f.fn \in ForwardFns \cup InverseFns
      /\ f.count \in Nat /\ f.i \in Nat
  BY DEF OKRealFrames, RealFrame, ForwardFns, InverseFns
<1>2. BufLen[f.src] \in Nat /\ BufLen[f.dst] \in Nat /\ BufLen[f.tmpBuf] \in Nat
  BY <1>1, BufferAssumption
<1>3. f.count \div 2 \in Nat
  BY <1>1
<1> QED BY <1>1, <1>2, <1>3

(* Where the pointers p0 and p1 of the next iteration are.                  *)
LEMMA RealLoop ==
  ASSUME NEW f \in OKRealFrames
  PROVE  /\ f.i \in 0..(f.count \div 2)
         /\ f.count \div 4 \in 0..(f.count \div 2)
         /\ f.i < f.count \div 4 =>
              /\ f.fn \notin VectorFns => LoopInBounds([f EXCEPT !.i = @ + 1])
              /\ f.fn \in VectorFns =>
                   /\ f.i + 3 <= f.count \div 2
                   /\ LoopInBounds([f EXCEPT !.i = @ + 4])
                   /\ (f.i + 4) % 4 = 0
<1> DEFINE n == f.count
           q == n \div 4
           i == f.i
<1>1. /\ n \in Nat /\ i \in Nat /\ isPowerOfTwo(n) /\ n >= 8 /\ LoopInBounds(f)
      /\ f.fn \in VectorFns => i % 4 = 0
  BY RealFrameFields DEF RealFrameOK
<1>2. n = 4 * q /\ n \div 2 = 2 * q /\ q \in Nat /\ q >= 2 /\ (q = 2 \/ q % 4 = 0)
  BY <1>1, RealCounts
<1>3. i <= q \/ (f.fn \in VectorFns /\ n = 8 /\ i = 4)
  BY <1>1 DEF LoopInBounds, VectorFns
<1>4. \A s \in {1, 4} : /\ [f EXCEPT !.i = @ + s].fn = f.fn
                        /\ [f EXCEPT !.i = @ + s].count = n
                        /\ [f EXCEPT !.i = @ + s].i = i + s
  BY RealFrameFields DEF RealFrame
<1>5. LoopInBounds([f EXCEPT !.i = @ + 1]) <=>
        (i + 1 <= q \/ (f.fn \in VectorFns /\ n = 8 /\ i + 1 = 4))
  BY <1>4 DEF LoopInBounds, VectorFns
<1>6. LoopInBounds([f EXCEPT !.i = @ + 4]) <=>
        (i + 4 <= q \/ (f.fn \in VectorFns /\ n = 8 /\ i + 4 = 4))
  BY <1>4 DEF LoopInBounds, VectorFns
<1> HIDE DEF n, q, i
<1>7. i \in 0..(2 * q) /\ q \in 0..(2 * q)
  BY <1>1, <1>2, <1>3
<1>8. i < q => i + 1 <= q
  BY <1>1, <1>2
<1>9. i < q /\ i % 4 = 0 =>
        i + 3 <= 2 * q /\ (i + 4) % 4 = 0 /\ (i + 4 <= q \/ (n = 8 /\ i = 0))
  BY <1>1, <1>2
<1> QED BY <1>1, <1>2, <1>5, <1>6, <1>7, <1>8, <1>9 DEF n, q, i

-----------------------------------------------------------------------------
(* Untangling and tangling compute complex numbers from complex numbers.    *)
LEMMA ModFloat == \A x \in Int : x % P \in Float
  BY ModulusAssumption DEF Float

LEMMA ComplexParts ==
  ASSUME NEW a \in CkFftComplex
  PROVE  a.real \in Int /\ a.imag \in Int /\ a.real \in Float /\ a.imag \in Float
  BY ModulusAssumption DEF CkFftComplex, Float

LEMMA UntangleType ==
  ASSUME NEW z0 \in CkFftComplex, NEW z1 \in CkFftComplex,
         NEW exp0 \in CkFftComplex, NEW exp1 \in CkFftComplex, NEW inverse \in BOOLEAN
  PROVE  /\ Untangle(z0, z1, exp0, exp1, inverse)[1] \in CkFftComplex
         /\ Untangle(z0, z1, exp0, exp1, inverse)[2] \in CkFftComplex
<1> DEFINE sum == add(z0, conjugate(z1))
           diff == subtract(z0, conjugate(z1))
           negated == [diff EXCEPT !.real = Neg(@)]
           p0 == multiply(TimesI(exp0), diff)
           p1 == multiply(TimesI(exp1), negated)
           sum1 == conjugate(sum)
<1>1. sum \in CkFftComplex /\ diff \in CkFftComplex
  BY ComplexOps
<1>2. sum1 \in CkFftComplex
  <2> HIDE DEF sum
  <2> QED BY <1>1, ComplexOps
<1>3. TimesI(exp0) \in CkFftComplex /\ TimesI(exp1) \in CkFftComplex
  BY ComplexParts, ModFloat DEF TimesI, Neg, CkFftComplex
<1>4. negated \in CkFftComplex
  <2> HIDE DEF diff
  <2>1. Neg(diff.real) \in Float
    BY <1>1, ComplexParts, ModFloat DEF Neg
  <2> QED BY <1>1, <2>1 DEF CkFftComplex
<1>5. p0 \in CkFftComplex /\ p1 \in CkFftComplex
  <2> HIDE DEF negated, diff
  <2> QED BY <1>1, <1>3, <1>4, ComplexOps
<1>6. Untangle(z0, z1, exp0, exp1, inverse) =
        IF inverse THEN << add(sum, p0), add(sum1, p1) >>
                   ELSE << subtract(sum, p0), subtract(sum1, p1) >>
  BY DEF Untangle
<1> HIDE DEF sum, sum1, p0, p1
<1>7. /\ add(sum, p0) \in CkFftComplex /\ add(sum1, p1) \in CkFftComplex
      /\ subtract(sum, p0) \in CkFftComplex /\ subtract(sum1, p1) \in CkFftComplex
  BY <1>1, <1>2, <1>5, ComplexOps
<1>8. CASE inverse
  BY <1>6, <1>7, <1>8
<1>9. CASE ~inverse
  BY <1>6, <1>7, <1>9
<1> QED BY <1>8, <1>9

(* X is a buffer of complex numbers that differs from buf in R only.        *)
Updates(X, buf, D, R) ==
  X \in [D -> CkFftComplex] /\ \A j \in D : j \notin R => X[j] = buf[j]

LEMMA MiddleUpdates ==
  ASSUME NEW D, NEW E, NEW R, NEW from \in [D -> CkFftComplex],
         NEW to \in [E -> CkFftComplex], NEW m \in D \cap R
  PROVE  Updates(Middle(from, to, m), to, E, R)
<1> DEFINE z == [real |-> Twice(from[m].real), imag |-> Neg(Twice(from[m].imag))]
<1>1. from[m] \in CkFftComplex
  OBVIOUS
<1>2. Twice(from[m].real) \in Float /\ Twice(from[m].imag) \in Int
  BY <1>1, ComplexParts, ModFloat, ModulusAssumption DEF Twice
<1>3. Neg(Twice(from[m].imag)) \in Float
  BY <1>2, ModFloat DEF Neg
<1>4. z \in CkFftComplex
  BY <1>2, <1>3 DEF CkFftComplex
<1>5. Middle(from, to, m) = [to EXCEPT ![m] = z]
  BY DEF Middle
<1> HIDE DEF z
<1> QED BY <1>4, <1>5 DEF Updates

(* exp0 and exp1 are read inside the table.                                 *)
LEMMA RealExpTypes ==
  ASSUME NEW f \in OKRealFrames, NEW inverse \in BOOLEAN, HasTable(f.context, inverse),
         NEW table, table = TableOf(f.context, inverse)
  PROVE  \A i \in 0..(f.count \div 2) :
           Exp0(f, table, i) \in CkFftComplex /\ Exp1(f, table, i) \in CkFftComplex
<1> DEFINE max == context[f.context].maxCount
           n == f.count
           h == n \div 2
           e == max \div n
<1>1. /\ isPowerOfTwo(n) /\ n >= 8 /\ n <= max
      /\ n \in Nat /\ f.context \in Contexts
  BY RealFrameFields DEF RealFrameOK
<1>2. max \in Nat \ {0} /\ table \in [0..(max - 1) -> CkFftComplex]
  BY <1>1, TableType
<1>3. h \in Nat /\ n = 2 * h
  BY <1>1, RealCounts
<1>4. e \in Nat /\ n * e = max
  <2>1. isPowerOfTwo(max)
    BY DEF HasTable
  <2> HIDE DEF max
  <2> QED BY <1>1, <1>2, <2>1, PowerOfTwoQuotient
<1>5. ASSUME NEW j \in 0..h PROVE table[j * e] \in CkFftComplex
  <2> HIDE DEF max, n, h, e
  <2>1. j * e <= h * e /\ j * e \in Nat
    BY <1>3, <1>4, MulMonotone
  <2>2. n * e = h * e + h * e /\ h * e \in Nat
    BY <1>3, <1>4
  <2> DEFINE x == j * e
             y == h * e
  <2>3. x <= y /\ x \in Nat /\ y \in Nat /\ y + y <= max
    BY <1>4, <2>1, <2>2
  <2> HIDE DEF x, y
  <2>4. x \in 0..(max - 1)
    BY <1>2, <2>3
  <2> QED BY <1>2, <2>4 DEF x
<1>6. ASSUME NEW i \in 0..h
      PROVE  Exp0(f, table, i) \in CkFftComplex /\ Exp1(f, table, i) \in CkFftComplex
  <2>1. h - i \in 0..h
    BY <1>3
  <2>2. Exp0(f, table, i) = table[i * e] /\ Exp1(f, table, i) = table[(h - i) * e]
    BY DEF Exp0, Exp1
  <2> QED BY <1>5, <2>1, <2>2
<1> QED BY <1>6

(* An iteration, of one element from either end or of vectors of four,      *)
(* stores complex numbers among the first half + 1 elements.                *)
LEMMA IterationUpdates ==
  ASSUME NEW f, NEW half \in Nat, f.count \div 2 = half, f.i \in 0..half,
         NEW from, NEW table, NEW inverse \in BOOLEAN,
         \A j \in 0..half : /\ from[j] \in CkFftComplex
                            /\ Exp0(f, table, j) \in CkFftComplex
                            /\ Exp1(f, table, j) \in CkFftComplex,
         NEW D, NEW to \in [D -> CkFftComplex]
  PROVE  Updates(Iteration(f, from, to, table, inverse), to, D, 0..half)
<1> DEFINE last == half - f.i
           new == Untangle(from[f.i], from[last], Exp0(f, table, f.i), Exp1(f, table, f.i),
                           inverse)
<1>1. last \in 0..half
  OBVIOUS
<1>2. new[1] \in CkFftComplex /\ new[2] \in CkFftComplex
  <2> HIDE DEF last
  <2> QED BY <1>1, UntangleType
<1>3. Iteration(f, from, to, table, inverse) = [to EXCEPT ![f.i] = new[1], ![last] = new[2]]
  BY DEF Iteration
<1> HIDE DEF last, new
<1> QED BY <1>1, <1>2, <1>3 DEF Updates

LEMMA StoreType ==
  ASSUME NEW D \in SUBSET Int, NEW buf \in [D -> CkFftComplex], NEW at \in Int, NEW v,
         \A l \in Lanes : v[l] \in CkFftComplex /\ at + l \in D
  PROVE  /\ Store(buf, at, v) \in [D -> CkFftComplex]
         /\ \A j \in D : (\A l \in Lanes : j # at + l) => Store(buf, at, v)[j] = buf[j]
<1>1. DOMAIN buf \cup {at + l : l \in Lanes} = D
  OBVIOUS
<1>2. Store(buf, at, v) = [j \in D |-> IF j - at \in Lanes THEN v[j - at] ELSE buf[j]]
  BY <1>1 DEF Store
<1>3. \A j \in D : (IF j - at \in Lanes THEN v[j - at] ELSE buf[j]) \in CkFftComplex
  OBVIOUS
<1>4. ASSUME NEW j \in D, \A l \in Lanes : j # at + l PROVE Store(buf, at, v)[j] = buf[j]
  <2>1. j - at \notin Lanes
    BY <1>4 DEF Lanes
  <2> QED BY <1>2, <2>1
<1> QED BY <1>2, <1>3, <1>4

LEMMA VectorIterationUpdates ==
  ASSUME NEW f, NEW half \in Nat, f.count \div 2 = half, f.i \in Nat, f.i + 3 <= half,
         NEW from, NEW table, NEW inverse \in BOOLEAN,
         \A j \in 0..half : /\ from[j] \in CkFftComplex
                            /\ Exp0(f, table, j) \in CkFftComplex
                            /\ Exp1(f, table, j) \in CkFftComplex,
         NEW D \in SUBSET Int, 0..half \subseteq D, NEW to \in [D -> CkFftComplex]
  PROVE  Updates(VectorIteration(f, from, to, table, inverse), to, D, 0..half)
<1> DEFINE p1 == half - 3 - f.i
           z0 == Load(from, f.i)
           z1 == Reversed(Load(from, p1))
           new == [l \in Lanes |-> Untangle(z0[l], z1[l], Exp0(f, table, f.i + l),
                                            Exp1(f, table, f.i + l), inverse)]
           near == [l \in Lanes |-> new[l][1]]
           far == Reversed([l \in Lanes |-> new[l][2]])
           first == Store(to, f.i, near)
<1>1. \A l \in Lanes : f.i + l \in 0..half /\ p1 + (3 - l) \in 0..half /\ p1 + l \in 0..half
                       /\ 3 - l \in Lanes
  <2> DEFINE i == f.i
  <2>1. i \in Nat /\ i + 3 <= half
    OBVIOUS
  <2> HIDE DEF i
  <2>2. \A l \in 0..3 : /\ i + l \in 0..half /\ (half - 3 - i) + (3 - l) \in 0..half
                        /\ (half - 3 - i) + l \in 0..half /\ 3 - l \in 0..3
    BY <2>1
  <2> QED BY <2>2 DEF i, Lanes
<1>2. \A l \in Lanes : z0[l] = from[f.i + l] /\ z1[l] = from[p1 + (3 - l)]
  <2> HIDE DEF p1
  <2> QED BY <1>1 DEF Load, Reversed
<1>3. p1 \in Int /\ f.i \in Int
  OBVIOUS
<1> HIDE DEF p1, z0, z1
<1>4. ASSUME NEW l \in Lanes
      PROVE  new[l][1] \in CkFftComplex /\ new[l][2] \in CkFftComplex
  <2>1. z0[l] \in CkFftComplex /\ z1[l] \in CkFftComplex
    BY <1>1, <1>2
  <2>2. /\ Exp0(f, table, f.i + l) \in CkFftComplex
        /\ Exp1(f, table, f.i + l) \in CkFftComplex
    BY <1>1
  <2> QED BY <2>1, <2>2, UntangleType
<1> HIDE DEF new
<1>5. \A l \in Lanes : near[l] \in CkFftComplex /\ far[l] \in CkFftComplex
  BY <1>1, <1>4 DEF Reversed
<1> HIDE DEF near, far
<1>6. /\ first \in [D -> CkFftComplex]
      /\ \A j \in D : (\A l \in Lanes : j # f.i + l) => first[j] = to[j]
  BY <1>1, <1>3, <1>5, StoreType
<1> HIDE DEF first
<1>7. /\ Store(first, p1, far) \in [D -> CkFftComplex]
      /\ \A j \in D : (\A l \in Lanes : j # p1 + l) => Store(first, p1, far)[j] = first[j]
  BY <1>1, <1>3, <1>5, <1>6, StoreType
<1>8. VectorIteration(f, from, to, table, inverse) = Store(first, p1, far)
  BY DEF VectorIteration, first, p1, far, near, new, z0, z1
<1>9. ASSUME NEW j \in D, j \notin 0..half PROVE Store(first, p1, far)[j] = to[j]
  <2>1. \A l \in Lanes : j # f.i + l /\ j # p1 + l
    BY <1>1, <1>9
  <2> QED BY <1>6, <1>7, <2>1
<1>10. Updates(Store(first, p1, far), to, D, 0..half)
  BY <1>7, <1>9 DEF Updates
<1> QED BY <1>8, <1>10

-----------------------------------------------------------------------------
(* What a step writes is the buffer it works in, in which the elements      *)
(* after the first count/2 + 1 are what they were.                          *)
RealWrites(f, X) ==
  Updates(X, mem[f.tmpBuf], 0..(BufLen[f.tmpBuf] - 1), 0..(f.count \div 2))

LEMMA RealReads ==
  ASSUME MemOK, NEW f \in OKRealFrames
  PROVE  /\ mem[f.tmpBuf] \in BufferType(f.tmpBuf) /\ mem[f.src] \in BufferType(f.src)
         /\ 0..(f.count \div 2) \subseteq 0..(BufLen[f.tmpBuf] - 1)
         /\ f.fn \in InverseFns => 0..(f.count \div 2) \subseteq 0..(BufLen[f.src] - 1)
<1> DEFINE h == f.count \div 2
           to == BufLen[f.tmpBuf]
           from == BufLen[f.src]
<1>1. h \in Nat /\ to \in Nat /\ from \in Nat /\ h + 1 <= to
      /\ (f.fn \in InverseFns => h + 1 <= from)
  BY RealFrameFields DEF RealFrameOK, HalfSpectrum
<1>2. mem[f.tmpBuf] \in BufferType(f.tmpBuf) /\ mem[f.src] \in BufferType(f.src)
  BY RealFrameFields DEF MemOK
<1> HIDE DEF h, to, from
<1>3. 0..h \subseteq 0..(to - 1) /\ (f.fn \in InverseFns => 0..h \subseteq 0..(from - 1))
  BY <1>1
<1> QED BY <1>2, <1>3 DEF h, to, from

(* An iteration of a loop reads one buffer, and the table of its direction. *)
LEMMA LoopWrites ==
  ASSUME MemOK, NEW f \in OKRealFrames, f.i < f.count \div 4,
         NEW inverse \in BOOLEAN, HasTable(f.context, inverse),
         NEW b \in Buffers, 0..(f.count \div 2) \subseteq 0..(BufLen[b] - 1),
         NEW table, table = TableOf(f.context, inverse)
  PROVE  /\ f.fn \notin VectorFns =>
              RealWrites(f, Iteration(f, mem[b], mem[f.tmpBuf], table, inverse))
         /\ f.fn \in VectorFns =>
              RealWrites(f, VectorIteration(f, mem[b], mem[f.tmpBuf], table, inverse))
<1> DEFINE half == f.count \div 2
           D == 0..(BufLen[f.tmpBuf] - 1)
           from == mem[b]
           to == mem[f.tmpBuf]
<1>1. half \in Nat /\ f.i \in 0..half /\ f.i \in Nat
      /\ (f.fn \in VectorFns => f.i + 3 <= half) /\ f.count \div 2 = half
  BY RealLoop, RealFrameFields
<1>2. to \in [D -> CkFftComplex] /\ 0..half \subseteq D /\ D \in SUBSET Int
  BY RealReads DEF BufferType
<1>3. \A j \in 0..half : from[j] \in CkFftComplex
  BY DEF MemOK, BufferType
<1>4. \A j \in 0..half : Exp0(f, table, j) \in CkFftComplex /\ Exp1(f, table, j) \in CkFftComplex
  <2> HIDE DEF from, to, D
  <2> QED BY RealExpTypes, Zenon
<1> HIDE DEF half, D, from, to
<1>5. Updates(Iteration(f, from, to, table, inverse), to, D, 0..half)
  BY <1>1, <1>2, <1>3, <1>4, IterationUpdates
<1>6. f.fn \in VectorFns =>
        Updates(VectorIteration(f, from, to, table, inverse), to, D, 0..half)
  BY <1>1, <1>2, <1>3, <1>4, VectorIterationUpdates
<1> QED BY <1>5, <1>6 DEF RealWrites, from, to, D, half

LEMMA MiddleWrites ==
  ASSUME MemOK, NEW f \in OKRealFrames, NEW m \in 0..(f.count \div 2),
         NEW b \in Buffers, 0..(f.count \div 2) \subseteq 0..(BufLen[b] - 1)
  PROVE  RealWrites(f, Middle(mem[b], mem[f.tmpBuf], m))
<1> DEFINE D == 0..(BufLen[b] - 1)
           E == 0..(BufLen[f.tmpBuf] - 1)
           half == f.count \div 2
           X == Middle(mem[b], mem[f.tmpBuf], m)
<1>1. mem[b] \in [D -> CkFftComplex] /\ m \in D \cap (0..half)
  BY DEF MemOK, BufferType
<1>2. mem[f.tmpBuf] \in [E -> CkFftComplex]
  BY RealReads DEF BufferType
<1> HIDE DEF D, E, half
<1>3. Updates(X, mem[f.tmpBuf], E, 0..half)
  BY <1>1, <1>2, MiddleUpdates
<1> QED BY <1>3 DEF RealWrites, X, E, half

-----------------------------------------------------------------------------
(* The frame of the running call, as its steps update it.                   *)
LEMMA CopiedOK ==
  ASSUME NEW f \in OKRealFrames
  PROVE  /\ [f EXCEPT !.copied = TRUE] \in OKRealFrames
         /\ RealServes([f EXCEPT !.copied = TRUE]) = RealServes(f)
<1> DEFINE g == [f EXCEPT !.copied = TRUE]
<1>1. f \in RealFrame /\ RealFrameOK(f)
  BY RealFrameFields
<1>2. g \in RealFrame
  BY <1>1 DEF RealFrame
<1>3. /\ g.fn = f.fn /\ g.context = f.context /\ g.src = f.src /\ g.dst = f.dst
      /\ g.tmpBuf = f.tmpBuf /\ g.count = f.count /\ g.i = f.i
  BY <1>1 DEF RealFrame
<1>4. g.copied
  BY <1>1 DEF RealFrame
<1> HIDE DEF g
<1>5. LoopInBounds(g)
  BY <1>1, <1>3 DEF RealFrameOK, LoopInBounds
<1>6. RealFrameOK(g) /\ RealServes(g) = RealServes(f)
  BY <1>1, <1>3, <1>4, <1>5 DEF RealFrameOK, RealServes
<1>7. g \in OKRealFrames
  BY <1>2, <1>6 DEF OKRealFrames
<1> QED BY <1>6, <1>7 DEF g

LEMMA MovedOK ==
  ASSUME NEW f \in OKRealFrames, NEW s \in Nat, LoopInBounds([f EXCEPT !.i = @ + s]),
         f.fn \in VectorFns => (f.i + s) % 4 = 0
  PROVE  /\ [f EXCEPT !.i = @ + s] \in OKRealFrames
         /\ RealServes([f EXCEPT !.i = @ + s]) = RealServes(f)
<1> DEFINE g == [f EXCEPT !.i = @ + s]
<1>1. f \in RealFrame /\ RealFrameOK(f) /\ f.i \in Nat
  BY RealFrameFields
<1>2. g \in RealFrame
  <2>1. f.i + s \in Nat
    BY <1>1
  <2> QED BY <1>1, <2>1 DEF RealFrame
<1>3. /\ g.fn = f.fn /\ g.context = f.context /\ g.src = f.src /\ g.dst = f.dst
      /\ g.tmpBuf = f.tmpBuf /\ g.count = f.count /\ g.copied = f.copied /\ g.i = f.i + s
  BY <1>1 DEF RealFrame
<1>4. LoopInBounds(g)
  OBVIOUS
<1> HIDE DEF g
<1>5. RealFrameOK(g)
  BY <1>1, <1>3, <1>4 DEF RealFrameOK
<1>6. RealServes(g) = RealServes(f)
  BY <1>3 DEF RealServes
<1>7. g \in OKRealFrames
  BY <1>2, <1>5 DEF OKRealFrames
<1> QED BY <1>6, <1>7 DEF g

-----------------------------------------------------------------------------
(* The frames of one call of a real transform: S is closed when it holds,   *)
(* with a frame, all that the call may come to, and for an inverse          *)
(* transform the frames of the complex one that ends it.                    *)
InverseFft(f) == [context |-> f.context, src |-> f.tmpBuf, dst |-> f.dst,
                  count |-> f.count \div 2, inverse |-> TRUE]

RealClosed(S) ==
  /\ Closed(S)
  /\ \A f \in S : f.fn \notin {"fft_default", "fft_neon"} =>
       /\ f \in OKRealFrames
       /\ \A g \in OKRealFrames : RealServes(g) = RealServes(f) => g \in S
       /\ f.fn \in InverseFns => \A g \in OKFrames : Serves(g) = InverseFft(f) => g \in S

LEMMA ReplaceStack ==
  ASSUME NEW S, NEW t, stack[t] \in Seq(S), stack[t] # << >>, NEW g \in S,
         stack' = [stack EXCEPT ![t] = ReplaceTop(@, g)]
  PROVE  StackOf(t, S)
<1> DEFINE s == ReplaceTop(stack[t], g)
<1>1. s \in Seq(S)
  BY UpdateTop
<1>2. stack' = [stack EXCEPT ![t] = s]
  OBVIOUS
<1> HIDE DEF s
<1> QED BY <1>1, <1>2 DEF StackOf

LEMMA RealWritesStores ==
  ASSUME NEW f, NEW X, RealWrites(f, X), mem' = [mem EXCEPT ![f.tmpBuf] = X]
  PROVE  Stores(f.tmpBuf, 0..(f.count \div 2))
  BY DEF RealWrites, Updates, Stores, BufferType

LEMMA CopyOK ==
  ASSUME MemOK, NEW S, RealClosed(S), NEW t, stack[t] \in Seq(S), stack[t] # << >>,
         Top(t) \in OKRealFrames, NEW fn \in ForwardFns, Copy(t, fn)
  PROVE  /\ StackOf(t, S) /\ UNCHANGED context
         /\ Stores(Top(t).tmpBuf, 0..(Top(t).count \div 2))
<1> DEFINE f == Top(t)
           half == f.count \div 2
           X == [mem[f.dst] EXCEPT ![half] = mem[f.dst][0]]
           D == 0..(BufLen[f.tmpBuf] - 1)
           g == [f EXCEPT !.copied = TRUE]
<1>1. /\ f.fn = fn /\ UNCHANGED context
      /\ mem' = [mem EXCEPT ![f.dst] = X]
      /\ stack' = [stack EXCEPT ![t] = ReplaceTop(@, g)]
  BY DEF Copy, Running
<1>2. f \in S /\ f \in OKRealFrames
  BY TopInStack
<1> HIDE DEF f
<1>3. f.tmpBuf = f.dst
  BY <1>1, <1>2, RealFrameFields DEF RealFrameOK
<1>4. /\ mem[f.dst] \in [D -> CkFftComplex] /\ 0..half \subseteq D /\ half \in Nat
  BY <1>2, <1>3, RealReads, RealFrameFields DEF BufferType
<1>5. 0 \in 0..half /\ half \in 0..half
  <2> HIDE DEF half
  <2> QED BY <1>4
<1>6. RealWrites(f, X)
  <2> HIDE DEF half, D
  <2>1. Updates(X, mem[f.dst], D, 0..half)
    BY <1>4, <1>5 DEF Updates
  <2> QED BY <1>3, <2>1 DEF RealWrites, half, D
<1>7. Stores(f.tmpBuf, 0..half)
  <2> HIDE DEF X
  <2> QED BY <1>1, <1>3, <1>6, RealWritesStores
<1>8. g \in OKRealFrames /\ RealServes(g) = RealServes(f)
  BY <1>2, CopiedOK
<1>9. f.fn \notin {"fft_default", "fft_neon"}
  BY <1>1 DEF ForwardFns
<1> HIDE DEF g
<1>10. g \in S
  BY <1>2, <1>8, <1>9 DEF RealClosed
<1>11. StackOf(t, S)
  BY <1>1, <1>10, ReplaceStack
<1> QED BY <1>1, <1>7, <1>11 DEF f

LEMMA LoopStepOK ==
  ASSUME MemOK, NEW S, RealClosed(S), NEW t, stack[t] \in Seq(S), stack[t] # << >>,
         Top(t) \in OKRealFrames, NEW X, RealWrites(Top(t), X),
         NEW s \in Nat, LoopInBounds([Top(t) EXCEPT !.i = @ + s]),
         Top(t).fn \in VectorFns => (Top(t).i + s) % 4 = 0,
         LoopStep(t, Top(t).tmpBuf, X, s)
  PROVE  /\ StackOf(t, S) /\ UNCHANGED context
         /\ Stores(Top(t).tmpBuf, 0..(Top(t).count \div 2))
<1> DEFINE f == Top(t)
           g == [f EXCEPT !.i = @ + s]
<1>1. /\ UNCHANGED context /\ mem' = [mem EXCEPT ![f.tmpBuf] = X]
      /\ stack' = [stack EXCEPT ![t] = ReplaceTop(@, g)]
  BY DEF LoopStep
<1>2. f \in S /\ f \in OKRealFrames /\ RealWrites(f, X)
  BY TopInStack
<1>3. LoopInBounds(g) /\ (f.fn \in VectorFns => (f.i + s) % 4 = 0)
  OBVIOUS
<1> HIDE DEF f
<1>4. Stores(f.tmpBuf, 0..(f.count \div 2))
  BY <1>1, <1>2, RealWritesStores
<1>5. g \in OKRealFrames /\ RealServes(g) = RealServes(f)
  BY <1>2, <1>3, MovedOK
<1>6. f.fn \notin {"fft_default", "fft_neon"}
  BY <1>2, RealFrameFields DEF ForwardFns, InverseFns
<1> HIDE DEF g
<1>7. g \in S
  BY <1>2, <1>5, <1>6 DEF RealClosed
<1>8. StackOf(t, S)
  BY <1>1, <1>7, ReplaceStack
<1> QED BY <1>1, <1>4, <1>8 DEF f

LEMMA ForwardEndOK ==
  ASSUME NEW S, NEW t, stack[t] \in Seq(S), stack[t] # << >>,
         NEW X, RealWrites(Top(t), X), Top(t).dst = Top(t).tmpBuf, ForwardEnd(t, X)
  PROVE  /\ StackOf(t, S) /\ UNCHANGED context
         /\ Stores(Top(t).tmpBuf, 0..(Top(t).count \div 2))
<1>1. mem' = [mem EXCEPT ![Top(t).tmpBuf] = X] /\ Return(t) /\ UNCHANGED context
  BY DEF ForwardEnd
<1> QED BY <1>1, ReturnOK, RealWritesStores

(* The complex FFT of half the count that is part of every real transform.  *)
LEMMA HalfCallOK ==
  ASSUME NEW fn \in {"fft_default", "fft_neon"}, NEW c \in Contexts,
         NEW src \in Buffers, NEW dst \in Buffers, NEW count \in Nat,
         NEW inverse \in BOOLEAN, HasTable(c, inverse),
         isPowerOfTwo(count), count >= 8, count <= context[c].maxCount,
         count \div 2 <= BufLen[src], count \div 2 <= BufLen[dst]
  PROVE  /\ FftCall(fn, c, src, dst, count \div 2, inverse) \in OKFrames
         /\ Serves(FftCall(fn, c, src, dst, count \div 2, inverse)) =
              [context |-> c, src |-> src, dst |-> dst, count |-> count \div 2,
               inverse |-> inverse]
<1> DEFINE half == count \div 2
<1>1. isPowerOfTwo(half) /\ half \in Nat /\ count = 2 * half
  BY RealCounts
<1>2. context[c].maxCount \in Nat
  BY DEF HasTable
<1>3. half <= BufLen[src] /\ half <= BufLen[dst]
  OBVIOUS
<1> HIDE DEF half
<1>4. half \notin {1, 2} /\ half <= context[c].maxCount
  BY <1>1, <1>2
<1>5. /\ FftCall(fn, c, src, dst, half, inverse) \in OKFrames
      /\ Serves(FftCall(fn, c, src, dst, half, inverse)) =
           [context |-> c, src |-> src, dst |-> dst, count |-> half, inverse |-> inverse]
  BY <1>1, <1>3, <1>4, FftCallOK
<1> QED BY <1>5 DEF half

LEMMA InverseEndOK ==
  ASSUME NEW S, RealClosed(S), NEW t, stack[t] \in Seq(S), stack[t] # << >>,
         Top(t) \in OKRealFrames, Top(t).fn \in InverseFns,
         NEW X, RealWrites(Top(t), X), NEW fn \in {"fft_default", "fft_neon"},
         InverseEnd(t, X, fn)
  PROVE  /\ StackOf(t, S) /\ UNCHANGED context
         /\ Stores(Top(t).tmpBuf, 0..(Top(t).count \div 2))
<1> DEFINE f == Top(t)
           half == f.count \div 2
           g == FftCall(fn, f.context, f.tmpBuf, f.dst, half, TRUE)
<1>1. /\ UNCHANGED context /\ mem' = [mem EXCEPT ![f.tmpBuf] = X]
      /\ stack' = [stack EXCEPT ![t] = ReplaceTop(@, g)]
  BY DEF InverseEnd
<1>2. f \in S /\ f \in OKRealFrames /\ RealWrites(f, X) /\ f.fn \in InverseFns
  BY TopInStack
<1> HIDE DEF f
<1>3. Stores(f.tmpBuf, 0..half)
  BY <1>1, <1>2, RealWritesStores
<1>4. /\ f.context \in Contexts /\ f.tmpBuf \in Buffers /\ f.dst \in Buffers
      /\ f.count \in Nat /\ half \in Nat /\ isPowerOfTwo(f.count) /\ f.count >= 8
      /\ HasTable(f.context, TRUE)
      /\ BufLen[f.tmpBuf] \in Nat /\ BufLen[f.dst] \in Nat
      /\ half + 1 <= BufLen[f.tmpBuf] /\ half <= BufLen[f.dst]
      /\ f.count <= context[f.context].maxCount
  BY <1>2, RealFrameFields DEF RealFrameOK, HalfSpectrum
<1>5. /\ half \in Nat /\ BufLen[f.tmpBuf] \in Nat /\ half <= BufLen[f.tmpBuf]
  BY <1>4
<1>8. ASSUME NEW c \in Contexts, NEW src \in Buffers, NEW dst \in Buffers, NEW count \in Nat,
             c = f.context, src = f.tmpBuf, dst = f.dst, count = f.count
      PROVE  /\ FftCall(fn, c, src, dst, count \div 2, TRUE) \in OKFrames
             /\ Serves(FftCall(fn, c, src, dst, count \div 2, TRUE)) =
                  [context |-> c, src |-> src, dst |-> dst, count |-> count \div 2,
                   inverse |-> TRUE]
  <2>1. /\ HasTable(c, TRUE) /\ isPowerOfTwo(count) /\ count >= 8
        /\ count <= context[c].maxCount /\ count \div 2 = half
        /\ half <= BufLen[src] /\ half <= BufLen[dst]
    BY <1>4, <1>5, <1>8
  <2> HIDE DEF half
  <2> QED BY <2>1, HalfCallOK
<1>9. g \in OKFrames /\ Serves(g) = InverseFft(f)
  BY <1>4, <1>8 DEF InverseFft, half
<1>10. f.fn \notin {"fft_default", "fft_neon"}
  BY <1>2 DEF InverseFns
<1> HIDE DEF g
<1>11. g \in S
  BY <1>2, <1>9, <1>10 DEF RealClosed
<1>12. StackOf(t, S)
  BY <1>1, <1>11, ReplaceStack
<1> QED BY <1>1, <1>3, <1>12 DEF f, half

LEMMA StepRealDefault ==
  ASSUME MemOK, NEW S, RealClosed(S), NEW t, stack[t] \in Seq(S), RealDefaultStep(t)
  PROVE  /\ stack[t] # << >> /\ Top(t) \in S \cap OKRealFrames
         /\ StackOf(t, S) /\ UNCHANGED context
         /\ Stores(Top(t).tmpBuf, 0..(Top(t).count \div 2))
<1> DEFINE f == Top(t)
           half == f.count \div 2
           Safe == /\ StackOf(t, S) /\ UNCHANGED context
                   /\ Stores(f.tmpBuf, 0..half)
<1>1. stack[t] # << >> /\ f.fn \in {"fft_real_default", "fft_real_inverse_default"}
  BY DEF RealDefaultStep, RealForwardCopy, RealForwardLoop, RealForwardMiddle,
         RealInverseLoop, RealInverseMiddle, Copy, Looping, Looped, Running
<1>2. f \in S /\ f \in OKRealFrames
  BY <1>1, TopInStack DEF RealClosed
<1>3. /\ RealFrameOK(f) /\ f.fn \notin VectorFns /\ f.src \in Buffers /\ f.tmpBuf \in Buffers
      /\ 0..half \subseteq 0..(BufLen[f.tmpBuf] - 1)
      /\ f.fn \in InverseFns => 0..half \subseteq 0..(BufLen[f.src] - 1)
      /\ f.count \div 4 \in 0..half
  BY <1>1, <1>2, RealFrameFields, RealReads, RealLoop DEF VectorFns
<1>4. f.i < f.count \div 4 => LoopInBounds([f EXCEPT !.i = @ + 1])
  BY <1>2, <1>3, RealLoop
<1>5. ASSUME f.fn \in ForwardFns
      PROVE  /\ f.tmpBuf = f.dst /\ HasTable(f.context, FALSE)
             /\ TableOf(f.context, FALSE) = context[f.context].fwdExpTable
  BY <1>3, <1>5 DEF RealFrameOK, TableOf
<1>6. ASSUME f.fn \in InverseFns
      PROVE  /\ HasTable(f.context, TRUE)
             /\ TableOf(f.context, TRUE) = context[f.context].invExpTable
  BY <1>3, <1>6 DEF RealFrameOK, TableOf
<1> SUFFICES Safe
  BY <1>1, <1>2
<1>7. CASE RealForwardCopy(t)
  <2>1. "fft_real_default" \in ForwardFns /\ Copy(t, "fft_real_default")
    BY <1>7 DEF RealForwardCopy, ForwardFns
  <2> QED BY <1>1, <1>2, <2>1, CopyOK
<1>8. CASE RealForwardLoop(t)
  <2> DEFINE X == Iteration(f, mem[f.dst], mem[f.dst], context[f.context].fwdExpTable, FALSE)
  <2>1. f.fn \in ForwardFns /\ f.i < f.count \div 4 /\ LoopStep(t, f.dst, X, 1)
    BY <1>8 DEF RealForwardLoop, Looping, Running, ForwardFns
  <2>2. RealWrites(f, X)
    <3> HIDE DEF f
    <3> QED BY <1>2, <1>3, <1>5, <2>1, LoopWrites
  <2> HIDE DEF X
  <2> QED BY <1>1, <1>2, <1>3, <1>4, <1>5, <2>1, <2>2, LoopStepOK
<1>9. CASE RealForwardMiddle(t)
  <2> DEFINE X == Middle(mem[f.dst], mem[f.dst], f.count \div 4)
  <2>1. f.fn \in ForwardFns /\ ForwardEnd(t, X)
    BY <1>9 DEF RealForwardMiddle, Looped, Running, ForwardFns
  <2>2. RealWrites(f, X)
    <3> HIDE DEF f
    <3> QED BY <1>2, <1>3, <1>5, <2>1, MiddleWrites
  <2> HIDE DEF X
  <2> QED BY <1>1, <1>2, <1>5, <2>1, <2>2, ForwardEndOK
<1>10. CASE RealInverseLoop(t)
  <2> DEFINE X == Iteration(f, mem[f.src], mem[f.tmpBuf], context[f.context].invExpTable, TRUE)
  <2>1. f.fn \in InverseFns /\ f.i < f.count \div 4 /\ LoopStep(t, f.tmpBuf, X, 1)
    BY <1>10 DEF RealInverseLoop, Looping, Running, InverseFns
  <2>2. RealWrites(f, X)
    <3> HIDE DEF f
    <3> QED BY <1>2, <1>3, <1>6, <2>1, LoopWrites
  <2> HIDE DEF X
  <2> QED BY <1>1, <1>2, <1>3, <1>4, <2>1, <2>2, LoopStepOK
<1>11. CASE RealInverseMiddle(t)
  <2> DEFINE X == Middle(mem[f.src], mem[f.tmpBuf], f.count \div 4)
  <2>1. f.fn \in InverseFns /\ InverseEnd(t, X, "fft_default")
    BY <1>11 DEF RealInverseMiddle, Looped, Running, InverseFns
  <2>2. RealWrites(f, X)
    <3> HIDE DEF f
    <3> QED BY <1>2, <1>3, <2>1, MiddleWrites
  <2> HIDE DEF X
  <2> QED BY <1>1, <1>2, <2>1, <2>2, InverseEndOK
<1> QED BY <1>7, <1>8, <1>9, <1>10, <1>11 DEF RealDefaultStep

LEMMA StepRealNeon ==
  ASSUME MemOK, NEW S, RealClosed(S), NEW t, stack[t] \in Seq(S), RealNeonStep(t)
  PROVE  /\ stack[t] # << >> /\ Top(t) \in S \cap OKRealFrames
         /\ StackOf(t, S) /\ UNCHANGED context
         /\ Stores(Top(t).tmpBuf, 0..(Top(t).count \div 2))
<1> DEFINE f == Top(t)
           half == f.count \div 2
           Safe == /\ StackOf(t, S) /\ UNCHANGED context
                   /\ Stores(f.tmpBuf, 0..half)
<1>1. stack[t] # << >> /\ f.fn \in {"fft_real_neon", "fft_real_inverse_neon"}
  BY DEF RealNeonStep, NeonForwardCopy, NeonForwardLoop, NeonForwardMiddle,
         NeonInverseLoop, NeonInverseMiddle, Copy, Looping, Looped, Running
<1>2. f \in S /\ f \in OKRealFrames
  BY <1>1, TopInStack DEF RealClosed
<1>3. /\ RealFrameOK(f) /\ f.fn \in VectorFns /\ f.src \in Buffers /\ f.tmpBuf \in Buffers
      /\ 0..half \subseteq 0..(BufLen[f.tmpBuf] - 1)
      /\ f.fn \in InverseFns => 0..half \subseteq 0..(BufLen[f.src] - 1)
      /\ f.i \in 0..half
  BY <1>1, <1>2, RealFrameFields, RealReads, RealLoop DEF VectorFns
<1>4. f.i < f.count \div 4 => LoopInBounds([f EXCEPT !.i = @ + 4]) /\ (f.i + 4) % 4 = 0
  BY <1>2, <1>3, RealLoop
<1>5. ASSUME f.fn \in ForwardFns
      PROVE  /\ f.tmpBuf = f.dst /\ HasTable(f.context, FALSE)
             /\ TableOf(f.context, FALSE) = context[f.context].fwdExpTable
  BY <1>3, <1>5 DEF RealFrameOK, TableOf
<1>6. ASSUME f.fn \in InverseFns
      PROVE  /\ HasTable(f.context, TRUE)
             /\ TableOf(f.context, TRUE) = context[f.context].invExpTable
  BY <1>3, <1>6 DEF RealFrameOK, TableOf
<1> SUFFICES Safe
  BY <1>1, <1>2
<1>7. CASE NeonForwardCopy(t)
  <2>1. "fft_real_neon" \in ForwardFns /\ Copy(t, "fft_real_neon")
    BY <1>7 DEF NeonForwardCopy, ForwardFns
  <2> QED BY <1>1, <1>2, <2>1, CopyOK
<1>8. CASE NeonForwardLoop(t)
  <2> DEFINE X == VectorIteration(f, mem[f.dst], mem[f.dst],
                                  context[f.context].fwdExpTable, FALSE)
  <2>1. f.fn \in ForwardFns /\ f.i < f.count \div 4 /\ LoopStep(t, f.dst, X, 4)
    BY <1>8 DEF NeonForwardLoop, Looping, Running, ForwardFns
  <2>2. RealWrites(f, X)
    <3> HIDE DEF f
    <3> QED BY <1>2, <1>3, <1>5, <2>1, LoopWrites
  <2> HIDE DEF X
  <2> QED BY <1>1, <1>2, <1>3, <1>4, <1>5, <2>1, <2>2, LoopStepOK
<1>9. CASE NeonForwardMiddle(t)
  <2> DEFINE X == IF f.count > 8 THEN Middle(mem[f.dst], mem[f.dst], f.i) ELSE mem[f.dst]
  <2>1. f.fn \in ForwardFns /\ ForwardEnd(t, X)
    BY <1>9 DEF NeonForwardMiddle, Looped, Running, ForwardFns
  <2>2. RealWrites(f, X)
    <3> HIDE DEF f
    <3>1. RealWrites(f, Middle(mem[f.dst], mem[f.dst], f.i))
      BY <1>2, <1>3, <1>5, <2>1, MiddleWrites
    <3>2. RealWrites(f, mem[f.dst])
      BY <1>2, <1>5, <2>1, RealReads DEF RealWrites, Updates, BufferType
    <3> QED BY <3>1, <3>2
  <2> HIDE DEF X
  <2> QED BY <1>1, <1>2, <1>5, <2>1, <2>2, ForwardEndOK
<1>10. CASE NeonInverseLoop(t)
  <2> DEFINE X == VectorIteration(f, mem[f.src], mem[f.tmpBuf],
                                  context[f.context].invExpTable, TRUE)
  <2>1. f.fn \in InverseFns /\ f.i < f.count \div 4 /\ LoopStep(t, f.tmpBuf, X, 4)
    BY <1>10 DEF NeonInverseLoop, Looping, Running, InverseFns
  <2>2. RealWrites(f, X)
    <3> HIDE DEF f
    <3> QED BY <1>2, <1>3, <1>6, <2>1, LoopWrites
  <2> HIDE DEF X
  <2> QED BY <1>1, <1>2, <1>3, <1>4, <2>1, <2>2, LoopStepOK
<1>11. CASE NeonInverseMiddle(t)
  <2> DEFINE X == Middle(mem[f.src], mem[f.tmpBuf], f.i)
  <2>1. f.fn \in InverseFns /\ InverseEnd(t, X, "fft_neon")
    BY <1>11 DEF NeonInverseMiddle, Looped, Running, InverseFns
  <2>2. RealWrites(f, X)
    <3> HIDE DEF f
    <3> QED BY <1>2, <1>3, <2>1, MiddleWrites
  <2> HIDE DEF X
  <2> QED BY <1>1, <1>2, <2>1, <2>2, InverseEndOK
<1> QED BY <1>7, <1>8, <1>9, <1>10, <1>11 DEF RealNeonStep

(***************************************************************************)
(* A step inside a transform, real or complex, on any thread of any caller: *)
(* it leaves the contexts alone, stays with the call it works for, and      *)
(* stores complex numbers in the elements that are its call's only.         *)
(***************************************************************************)
THEOREM FftRealStepOK ==
  ASSUME MemOK, NEW S, RealClosed(S), NEW t, stack[t] \in Seq(S), FftRealStep(t)
  PROVE  /\ stack[t] # << >> /\ Top(t) \in S
         /\ StackOf(t, S) /\ UNCHANGED context
         /\ \/ /\ Top(t) \in OKFrames
               /\ Stores(Top(t).dst, 0..(Total(Top(t)) - 1))
            \/ /\ Top(t) \in OKRealFrames
               /\ Stores(Top(t).tmpBuf, 0..(Top(t).count \div 2))
<1>1. Closed(S)
  BY DEF RealClosed
<1> QED BY <1>1, StepRealDefault, StepRealNeon, FftStepOK DEF FftRealStep

-----------------------------------------------------------------------------
(* The results of the trivial counts, and the elements they are stored in.  *)
RealShare(count) == IF count = 4 THEN 0..3 ELSE 0..(count \div 2)

LEMMA NothingUpdates ==
  ASSUME NEW D, NEW R, NEW y \in [D -> CkFftComplex]
  PROVE  Updates(y, y, D, R)
  BY DEF Updates

LEMMA PutUpdates ==
  ASSUME NEW D, NEW R, NEW y, NEW w, Updates(w, y, D, R), NEW i \in R, NEW z \in CkFftComplex
  PROVE  Updates([w EXCEPT ![i] = z], y, D, R)
  BY DEF Updates

LEMMA PutOne ==
  ASSUME NEW D, NEW y \in [D -> CkFftComplex], NEW z0 \in CkFftComplex
  PROVE  Updates([y EXCEPT ![0] = z0], y, D, 0..0)
<1>1. Updates(y, y, D, 0..0) /\ 0 \in 0..0
  BY NothingUpdates
<1> DEFINE R == 0..0
<1>2. Updates(y, y, D, R) /\ 0 \in R
  BY <1>1
<1> HIDE DEF R
<1>3. Updates([y EXCEPT ![0] = z0], y, D, R)
  BY <1>2, PutUpdates
<1> QED BY <1>3 DEF R

LEMMA PutTwo ==
  ASSUME NEW D, NEW y \in [D -> CkFftComplex],
         NEW z0 \in CkFftComplex, NEW z1 \in CkFftComplex
  PROVE  Updates([y EXCEPT ![0] = z0, ![1] = z1], y, D, 0..1)
<1> DEFINE R == 0..1
           w0 == [y EXCEPT ![0] = z0]
           w1 == [w0 EXCEPT ![1] = z1]
<1>1. Updates(y, y, D, R) /\ 0 \in R /\ 1 \in R
  BY NothingUpdates
<1> HIDE DEF R
<1>2. Updates(w0, y, D, R)
  BY <1>1, PutUpdates
<1> HIDE DEF w0
<1>3. Updates(w1, y, D, R)
  BY <1>1, <1>2, PutUpdates
<1>4. w1 = [y EXCEPT ![0] = z0, ![1] = z1]
  BY DEF w0
<1> HIDE DEF w1
<1> QED BY <1>3, <1>4 DEF R

LEMMA PutFour ==
  ASSUME NEW D, NEW y \in [D -> CkFftComplex],
         NEW z0 \in CkFftComplex, NEW z1 \in CkFftComplex,
         NEW z2 \in CkFftComplex, NEW z3 \in CkFftComplex
  PROVE  Updates([y EXCEPT ![0] = z0, ![1] = z1, ![2] = z2, ![3] = z3], y, D, 0..3)
<1> DEFINE R == 0..3
           w0 == [y EXCEPT ![0] = z0]
           w1 == [w0 EXCEPT ![1] = z1]
           w2 == [w1 EXCEPT ![2] = z2]
           w3 == [w2 EXCEPT ![3] = z3]
<1>1. Updates(y, y, D, R) /\ 0 \in R /\ 1 \in R /\ 2 \in R /\ 3 \in R
  BY NothingUpdates
<1> HIDE DEF R
<1>2. Updates(w0, y, D, R)
  BY <1>1, PutUpdates
<1> HIDE DEF w0
<1>3. Updates(w1, y, D, R)
  BY <1>1, <1>2, PutUpdates
<1> HIDE DEF w1
<1>4. Updates(w2, y, D, R)
  BY <1>1, <1>3, PutUpdates
<1> HIDE DEF w2
<1>5. Updates(w3, y, D, R)
  BY <1>1, <1>4, PutUpdates
<1>6. w3 = [y EXCEPT ![0] = z0, ![1] = z1, ![2] = z2, ![3] = z3]
  BY DEF w0, w1, w2
<1> HIDE DEF w3
<1> QED BY <1>5, <1>6 DEF R

LEMMA FloatType ==
  ASSUME MemOK, NEW b \in Buffers, NEW count \in Nat, Pairs(count) <= BufLen[b],
         NEW j \in 0..(count - 1)
  PROVE  float(b, j) \in Float /\ float(b, j) \in Int
<1>1. j \div 2 \in 0..(BufLen[b] - 1)
  BY BufferAssumption DEF Pairs
<1>2. mem[b][j \div 2] \in CkFftComplex
  BY <1>1 DEF MemOK, BufferType
<1> QED BY <1>2, ComplexParts DEF float

LEMMA RealTrivialOK ==
  ASSUME MemOK, NEW src \in Buffers, NEW dst \in Buffers, NEW count \in {1, 2, 4},
         Pairs(count) <= BufLen[src]
  PROVE  Updates(RealTrivial(src, dst, count), mem[dst], 0..(BufLen[dst] - 1), RealShare(count))
<1> DEFINE D == 0..(BufLen[dst] - 1)
           x(j) == float(src, j)
           y == mem[dst]
           re(r) == [real |-> Twice(r), imag |-> 0]
<1>1. y \in [D -> CkFftComplex]
  BY DEF MemOK, BufferType
<1>2. ASSUME NEW j \in 0..(count - 1) PROVE x(j) \in Int
  BY FloatType
<1>3. ASSUME NEW r \in Int PROVE Twice(r) \in Float /\ Twice(r) \in Int /\ Neg(r) \in Float
  <2>1. Twice(r) \in Float /\ Neg(r) \in Float
    BY ModFloat DEF Twice, Neg
  <2>2. Float \subseteq Int
    BY ModulusAssumption DEF Float
  <2> QED BY <2>1, <2>2
<1>4. \A r \in Int : re(r) \in CkFftComplex
  BY <1>3, ModulusAssumption DEF CkFftComplex, Float
<1> HIDE DEF D, y
<1>5. ASSUME count = 1
      PROVE  Updates([y EXCEPT ![0] = re(x(0))], y, D, 0..0)
  <2>1. x(0) \in Int
    BY <1>2, <1>5
  <2> HIDE DEF x, re
  <2>2. re(x(0)) \in CkFftComplex
    BY <1>4, <2>1
  <2> QED BY <1>1, <2>2, PutOne
<1>6. ASSUME count = 2
      PROVE  Updates([y EXCEPT ![0] = re(x(0) + x(1)), ![1] = re(x(0) - x(1))], y, D, 0..1)
  <2>1. x(0) \in Int /\ x(1) \in Int
    BY <1>2, <1>6
  <2> HIDE DEF x, re
  <2>2. re(x(0) + x(1)) \in CkFftComplex /\ re(x(0) - x(1)) \in CkFftComplex
    BY <1>4, <2>1
  <2> QED BY <1>1, <2>2, PutTwo
<1>7. ASSUME count = 4
      PROVE  Updates([y EXCEPT
                        ![0] = re(x(0) + x(2) + x(1) + x(3)),
                        ![1] = [real |-> Twice(x(0) - x(2)), imag |-> Neg(Twice(x(1) - x(3)))],
                        ![2] = re(x(0) + x(2) - x(1) - x(3)),
                        ![3] = [real |-> Twice(x(0) - x(2)), imag |-> Twice(x(1) - x(3))]],
                     y, D, 0..3)
  <2>1. x(0) \in Int /\ x(1) \in Int /\ x(2) \in Int /\ x(3) \in Int
    BY <1>2, <1>7
  <2> HIDE DEF x
  <2>2. re(x(0) + x(2) + x(1) + x(3)) \in CkFftComplex
        /\ re(x(0) + x(2) - x(1) - x(3)) \in CkFftComplex
    <3> HIDE DEF re
    <3> QED BY <1>4, <2>1
  <2>3. /\ Twice(x(0) - x(2)) \in Float /\ Twice(x(1) - x(3)) \in Float
        /\ Neg(Twice(x(1) - x(3))) \in Float
    BY <1>3, <2>1
  <2> DEFINE z1 == [real |-> Twice(x(0) - x(2)), imag |-> Neg(Twice(x(1) - x(3)))]
             z3 == [real |-> Twice(x(0) - x(2)), imag |-> Twice(x(1) - x(3))]
  <2>4. z1 \in CkFftComplex /\ z3 \in CkFftComplex
    BY <2>3 DEF CkFftComplex
  <2> HIDE DEF re, z1, z3
  <2>5. Updates([y EXCEPT ![0] = re(x(0) + x(2) + x(1) + x(3)), ![1] = z1,
                          ![2] = re(x(0) + x(2) - x(1) - x(3)), ![3] = z3], y, D, 0..3)
    BY <1>1, <2>2, <2>4, PutFour
  <2> QED BY <2>5 DEF z1, z3
<1>8. CASE count = 1
  <2>1. RealTrivial(src, dst, count) = [y EXCEPT ![0] = re(x(0))] /\ RealShare(count) = 0..0
    BY <1>8 DEF RealTrivial, RealShare, y
  <2> QED BY <1>5, <1>8, <2>1 DEF y, D
<1>9. CASE count = 2
  <2>1. /\ RealTrivial(src, dst, count) =
             [y EXCEPT ![0] = re(x(0) + x(1)), ![1] = re(x(0) - x(1))]
        /\ RealShare(count) = 0..1
    BY <1>9 DEF RealTrivial, RealShare, y
  <2> QED BY <1>6, <1>9, <2>1 DEF y, D
<1>10. CASE count = 4
  <2>1. RealShare(count) = 0..3
    BY <1>10 DEF RealShare
  <2>2. RealTrivial(src, dst, count) =
          [y EXCEPT
             ![0] = re(x(0) + x(2) + x(1) + x(3)),
             ![1] = [real |-> Twice(x(0) - x(2)), imag |-> Neg(Twice(x(1) - x(3)))],
             ![2] = re(x(0) + x(2) - x(1) - x(3)),
             ![3] = [real |-> Twice(x(0) - x(2)), imag |-> Twice(x(1) - x(3))]]
    BY <1>10 DEF RealTrivial, y
  <2> QED BY <1>7, <1>10, <2>1, <2>2 DEF y, D
<1> QED BY <1>8, <1>9, <1>10

LEMMA RealInverseTrivialOK ==
  ASSUME MemOK, NEW src \in Buffers, NEW dst \in Buffers, NEW count \in {1, 2, 4},
         HalfSpectrum(count) <= BufLen[src]
  PROVE  Updates(RealInverseTrivial(src, dst, count), mem[dst],
                 0..(BufLen[dst] - 1), 0..(Pairs(count) - 1))
<1> DEFINE D == 0..(BufLen[dst] - 1)
           X == mem[src]
           y == mem[dst]
<1>1. y \in [D -> CkFftComplex] /\ D \in SUBSET Int
  BY DEF MemOK, BufferType
<1>2. \A j \in 0..(count \div 2) : X[j] \in CkFftComplex
  <2>1. 0..(count \div 2) \subseteq 0..(BufLen[src] - 1)
    BY BufferAssumption DEF HalfSpectrum
  <2> QED BY <2>1 DEF MemOK, BufferType
<1>3. \A j \in 0..(count \div 2) : X[j].real \in Int /\ X[j].imag \in Int /\ X[j].real \in Float
  BY <1>2, ComplexParts
<1> HIDE DEF D, X, y
<1>4. CASE count = 1
  <2>1. RealInverseTrivial(src, dst, count) = [y EXCEPT ![0].real = X[0].real]
        /\ 0..(Pairs(count) - 1) = 0..0
    BY <1>4 DEF RealInverseTrivial, Pairs, X, y
  <2>2. X[0].real \in Float
    BY <1>3, <1>4
  <2>3. Updates([y EXCEPT ![0].real = X[0].real], y, D, 0..0)
    <3> DEFINE z == [y[0] EXCEPT !.real = X[0].real]
    <3>1. [y EXCEPT ![0].real = X[0].real] = [y EXCEPT ![0] = z]
      OBVIOUS
    <3>2. CASE 0 \in D
      <4>1. z \in CkFftComplex
        BY <1>1, <2>2, <3>2 DEF CkFftComplex
      <4> HIDE DEF z
      <4> QED BY <1>1, <3>1, <4>1, PutOne
    <3>3. CASE 0 \notin D
      <4>1. [y EXCEPT ![0] = z] = y
        <5> HIDE DEF z
        <5> QED BY <1>1, <3>3
      <4> QED BY <1>1, <3>1, <4>1, NothingUpdates
    <3> QED BY <3>2, <3>3
  <2> QED BY <2>1, <2>3 DEF y, D
<1>5. CASE count = 2
  <2> DEFINE z == [real |-> (X[0].real + X[1].real) % P, imag |-> (X[0].real - X[1].real) % P]
  <2>1. RealInverseTrivial(src, dst, count) = [y EXCEPT ![0] = z]
        /\ 0..(Pairs(count) - 1) = 0..0
    BY <1>5 DEF RealInverseTrivial, Pairs, X, y
  <2>2. X[0].real \in Int /\ X[1].real \in Int
    BY <1>3, <1>5
  <2>3. z \in CkFftComplex
    BY <2>2, ModFloat DEF CkFftComplex
  <2> HIDE DEF z
  <2>4. Updates([y EXCEPT ![0] = z], y, D, 0..0)
    BY <1>1, <2>3, PutOne
  <2> QED BY <2>1, <2>4 DEF y, D
<1>6. CASE count = 4
  <2> DEFINE sum02 == X[0].real + X[2].real
             sum13 == 2 * X[1].real
             diff02 == X[0].real - X[2].real
             diff13 == 2 * X[1].imag
             z0 == [real |-> (sum02 + sum13) % P, imag |-> (diff02 - diff13) % P]
             z1 == [real |-> (sum02 - sum13) % P, imag |-> (diff02 + diff13) % P]
  <2>1. RealInverseTrivial(src, dst, count) = [y EXCEPT ![0] = z0, ![1] = z1]
        /\ 0..(Pairs(count) - 1) = 0..1
    BY <1>6 DEF RealInverseTrivial, Pairs, X, y
  <2>2. X[0].real \in Int /\ X[1].real \in Int /\ X[2].real \in Int /\ X[1].imag \in Int
    BY <1>3, <1>6
  <2>3. sum02 \in Int /\ sum13 \in Int /\ diff02 \in Int /\ diff13 \in Int
    BY <2>2
  <2> HIDE DEF sum02, sum13, diff02, diff13
  <2>4. z0 \in CkFftComplex /\ z1 \in CkFftComplex
    BY <2>3, ModFloat DEF CkFftComplex
  <2> HIDE DEF z0, z1
  <2>5. Updates([y EXCEPT ![0] = z0, ![1] = z1], y, D, 0..1)
    BY <1>1, <2>4, PutTwo
  <2> QED BY <2>1, <2>5 DEF y, D
<1> QED BY <1>4, <1>5, <1>6

-----------------------------------------------------------------------------
(* The counts that are not trivial, and the frames that start a transform   *)
(* of such a count: they are good ones.                                     *)
LEMMA LongCounts ==
  ASSUME NEW count \in Nat, isPowerOfTwo(count), count \notin {1, 2, 4}
  PROVE  /\ count >= 8 /\ count \div 4 \in Nat
         /\ Pairs(count) = count \div 2 /\ HalfSpectrum(count) = count \div 2 + 1
<1>1. count >= 8
  <2>1. count # 0 /\ count # 3 /\ count # 5 /\ count # 6 /\ count # 7
    BY DEF isPowerOfTwo
  <2> QED BY <2>1
<1> QED BY <1>1, RealCounts DEF Pairs, HalfSpectrum

StartFrames(fn, c, src, dst, tmpBuf, count) ==
  {f \in OKRealFrames : RealServes(f) = [fn |-> fn, context |-> c, src |-> src, dst |-> dst,
                                         tmpBuf |-> tmpBuf, count |-> count]}

LEMMA ForwardCallOK ==
  ASSUME NEW fn \in ForwardFns, NEW c \in Contexts,
         NEW src \in Buffers, NEW dst \in Buffers, NEW count \in Nat,
         HasTable(c, FALSE), isPowerOfTwo(count), count \notin {1, 2, 4},
         count <= context[c].maxCount,
         Pairs(count) <= BufLen[src], HalfSpectrum(count) <= BufLen[dst]
  PROVE  RealCall(fn, c, src, dst, dst, count) \in StartFrames(fn, c, src, dst, dst, count)
<1> DEFINE f == RealCall(fn, c, src, dst, dst, count)
<1>1. /\ count >= 8 /\ Pairs(count) = count \div 2 /\ count \div 4 \in Nat
  BY LongCounts
<1>2. f = [fn |-> fn, context |-> c, src |-> src, dst |-> dst, tmpBuf |-> dst,
           count |-> count, copied |-> FALSE, i |-> 0]
  <2>1. (fn \in {"fft_real_inverse_default", "fft_real_inverse_neon"}) = FALSE
    BY DEF ForwardFns
  <2> QED BY <2>1, Zenon DEF RealCall
<1> HIDE DEF f
<1>3. f \in RealFrame
  BY <1>2 DEF RealFrame, ForwardFns
<1>4. /\ f.fn = fn /\ f.context = c /\ f.src = src /\ f.dst = dst /\ f.tmpBuf = dst
      /\ f.count = count /\ f.i = 0
  BY <1>2
<1>5. LoopInBounds(f) /\ f.i % 4 = 0 /\ f.fn \notin InverseFns
  BY <1>1, <1>4 DEF LoopInBounds, ForwardFns, InverseFns
<1>6. RealFrameOK(f)
  BY <1>1, <1>4, <1>5 DEF RealFrameOK
<1>7. RealServes(f) = [fn |-> fn, context |-> c, src |-> src, dst |-> dst,
                       tmpBuf |-> dst, count |-> count]
  BY <1>4 DEF RealServes
<1> QED BY <1>3, <1>6, <1>7 DEF OKRealFrames, StartFrames, f

LEMMA InverseCallOK ==
  ASSUME NEW fn \in InverseFns, NEW c \in Contexts,
         NEW src \in Buffers, NEW dst \in Buffers, NEW tmpBuf \in Buffers, NEW count \in Nat,
         HasTable(c, TRUE), isPowerOfTwo(count), count \notin {1, 2, 4},
         count <= context[c].maxCount,
         HalfSpectrum(count) <= BufLen[src], Pairs(count) <= BufLen[dst],
         HalfSpectrum(count) <= BufLen[tmpBuf]
  PROVE  RealCall(fn, c, src, dst, tmpBuf, count)
           \in StartFrames(fn, c, src, dst, tmpBuf, count)
<1> DEFINE f == RealCall(fn, c, src, dst, tmpBuf, count)
<1>1. /\ count >= 8 /\ Pairs(count) = count \div 2 /\ count \div 4 \in Nat
      /\ HalfSpectrum(count) = count \div 2 + 1
  BY LongCounts
<1>2. f = [fn |-> fn, context |-> c, src |-> src, dst |-> dst, tmpBuf |-> tmpBuf,
           count |-> count, copied |-> TRUE, i |-> 0]
  BY DEF RealCall, InverseFns
<1> HIDE DEF f
<1>3. f \in RealFrame
  BY <1>2 DEF RealFrame, InverseFns
<1>4. /\ f.fn = fn /\ f.context = c /\ f.src = src /\ f.dst = dst /\ f.tmpBuf = tmpBuf
      /\ f.count = count /\ f.i = 0 /\ f.copied
  BY <1>2
<1>5. LoopInBounds(f) /\ f.i % 4 = 0 /\ f.fn \notin ForwardFns
  BY <1>1, <1>4 DEF LoopInBounds, ForwardFns, InverseFns
<1>6. Pairs(count) <= BufLen[src]
  <2>1. BufLen[src] \in Nat /\ count \div 2 \in Nat
    BY BufferAssumption
  <2> QED BY <1>1, <2>1
<1>7. RealFrameOK(f)
  BY <1>1, <1>4, <1>5, <1>6 DEF RealFrameOK
<1>8. RealServes(f) = [fn |-> fn, context |-> c, src |-> src, dst |-> dst,
                       tmpBuf |-> tmpBuf, count |-> count]
  BY <1>4 DEF RealServes
<1> QED BY <1>3, <1>7, <1>8 DEF OKRealFrames, StartFrames, f

LEMMA UpdatesStores ==
  ASSUME NEW b \in Buffers, NEW X, NEW R,
         Updates(X, mem[b], 0..(BufLen[b] - 1), R), mem' = [mem EXCEPT ![b] = X]
  PROVE  Stores(b, R)
  BY DEF Updates, Stores, BufferType

(* fft_real() and fft_real_inverse() themselves: the trivial results, or    *)
(* the frames of a transform.                                               *)
THEOREM FftRealOK ==
  ASSUME MemOK, NEW S, NEW t, stack[t] = << >>,
         NEW c \in Contexts, NEW src \in Buffers, NEW dst \in Buffers, NEW count \in Nat,
         HasTable(c, FALSE), isPowerOfTwo(count), count <= context[c].maxCount,
         Pairs(count) <= BufLen[src], HalfSpectrum(count) <= BufLen[dst],
         \A fn \in ForwardFns : StartFrames(fn, c, src, dst, dst, count) \subseteq S,
         \A g \in OKFrames :
           Serves(g) = [context |-> c, src |-> src, dst |-> dst,
                        count |-> count \div 2, inverse |-> FALSE] => g \in S,
         fft_real(t, c, src, dst, count)
  PROVE  StackOf(t, S) /\ UNCHANGED context /\ Stores(dst, RealShare(count))
<1>1. UNCHANGED context
  BY DEF fft_real
<1>2. CASE /\ count \in {1, 2, 4} /\ mem' = [mem EXCEPT ![dst] = RealTrivial(src, dst, count)]
           /\ UNCHANGED stack
  <2>1. Updates(RealTrivial(src, dst, count), mem[dst], 0..(BufLen[dst] - 1), RealShare(count))
    BY <1>2, RealTrivialOK
  <2>2. Stores(dst, RealShare(count))
    BY <1>2, <2>1, UpdatesStores
  <2> QED BY <1>1, <1>2, <2>2 DEF StackOf
<1>3. ASSUME NEW fn \in ForwardFns, NEW fftFn \in {"fft_default", "fft_neon"},
             count \notin {1, 2, 4},
             stack' = [stack EXCEPT ![t] = Forwards(fn, fftFn, c, src, dst, count)]
      PROVE  StackOf(t, S)
  <2> DEFINE half == count \div 2
             f == RealCall(fn, c, src, dst, dst, count)
             g == FftCall(fftFn, c, src, dst, half, FALSE)
  <2>1. count >= 8 /\ Pairs(count) = half
    BY <1>3, LongCounts
  <2>2. count \notin {1, 2, 4}
    BY <1>3
  <2>3. f \in S
    <3>1. f \in StartFrames(fn, c, src, dst, dst, count)
      BY <2>2, ForwardCallOK
    <3> HIDE DEF f
    <3> QED BY <3>1
  <2>5. half <= BufLen[src] /\ half <= BufLen[dst]
    <3>1. half \in Nat /\ BufLen[dst] \in Nat /\ HalfSpectrum(count) = half + 1
      BY BufferAssumption DEF HalfSpectrum
    <3> HIDE DEF half
    <3> QED BY <2>1, <3>1
  <2>7. g \in OKFrames /\ Serves(g) = [context |-> c, src |-> src, dst |-> dst,
                                       count |-> half, inverse |-> FALSE]
    BY <2>1, <2>5, HalfCallOK
  <2>8. g \in S
    <3> HIDE DEF g
    <3> QED BY <2>7
  <2>9. stack' = [stack EXCEPT ![t] = << f, g >>]
    BY <1>3 DEF Forwards
  <2> HIDE DEF f, g
  <2>10. << f, g >> \in Seq(S)
    BY <2>3, <2>8
  <2> QED BY <2>9, <2>10 DEF StackOf
<1>4. CASE count \notin {1, 2, 4} /\ UNCHANGED mem
           /\ (fft_real_neon(t, c, src, dst, count) \/ fft_real_default(t, c, src, dst, count))
  <2>1. Stores(dst, RealShare(count))
    BY <1>4 DEF Stores
  <2>2. "fft_real_default" \in ForwardFns /\ "fft_real_neon" \in ForwardFns
    BY DEF ForwardFns
  <2>3. CASE fft_real_default(t, c, src, dst, count)
    BY <1>1, <1>3, <1>4, <2>1, <2>2, <2>3 DEF fft_real_default
  <2>4. CASE fft_real_neon(t, c, src, dst, count)
    BY <1>1, <1>3, <1>4, <2>1, <2>2, <2>4 DEF fft_real_neon, StackOf
  <2> QED BY <1>4, <2>3, <2>4
<1> QED BY <1>2, <1>4 DEF fft_real

THEOREM FftRealInverseOK ==
  ASSUME MemOK, NEW S, NEW t, stack[t] = << >>,
         NEW c \in Contexts, NEW src \in Buffers, NEW dst \in Buffers,
         NEW tmpBuf \in Buffers, NEW count \in Nat,
         HasTable(c, TRUE), isPowerOfTwo(count), count <= context[c].maxCount,
         HalfSpectrum(count) <= BufLen[src], Pairs(count) <= BufLen[dst],
         HalfSpectrum(count) <= BufLen[tmpBuf],
         \A fn \in InverseFns : StartFrames(fn, c, src, dst, tmpBuf, count) \subseteq S,
         fft_real_inverse(t, c, src, dst, count, tmpBuf)
  PROVE  StackOf(t, S) /\ UNCHANGED context /\ Stores(dst, 0..(Pairs(count) - 1))
<1>1. UNCHANGED context
  BY DEF fft_real_inverse
<1>2. CASE /\ count \in {1, 2, 4}
           /\ mem' = [mem EXCEPT ![dst] = RealInverseTrivial(src, dst, count)]
           /\ UNCHANGED stack
  <2>1. Updates(RealInverseTrivial(src, dst, count), mem[dst],
                0..(BufLen[dst] - 1), 0..(Pairs(count) - 1))
    BY <1>2, RealInverseTrivialOK
  <2>2. Stores(dst, 0..(Pairs(count) - 1))
    BY <1>2, <2>1, UpdatesStores
  <2> QED BY <1>1, <1>2, <2>2 DEF StackOf
<1>3. ASSUME NEW fn \in InverseFns, count \notin {1, 2, 4},
             stack' = [stack EXCEPT ![t] = << RealCall(fn, c, src, dst, tmpBuf, count) >>]
      PROVE  StackOf(t, S)
  <2> DEFINE f == RealCall(fn, c, src, dst, tmpBuf, count)
  <2>1. count \notin {1, 2, 4}
    BY <1>3
  <2>2. f \in StartFrames(fn, c, src, dst, tmpBuf, count)
    BY <2>1, InverseCallOK
  <2>3. f \in S
    <3> HIDE DEF f
    <3> QED BY <2>2
  <2>4. stack' = [stack EXCEPT ![t] = << f >>]
    BY <1>3
  <2> HIDE DEF f
  <2>5. << f >> \in Seq(S)
    BY <2>3
  <2> QED BY <2>4, <2>5 DEF StackOf
<1>4. CASE count \notin {1, 2, 4} /\ UNCHANGED mem
           /\ (fft_real_inverse_neon(t, c, src, dst, count, tmpBuf)
               \/ fft_real_inverse_default(t, c, src, dst, count, tmpBuf))
  <2>1. Stores(dst, 0..(Pairs(count) - 1))
    BY <1>4 DEF Stores
  <2>2. "fft_real_inverse_default" \in InverseFns /\ "fft_real_inverse_neon" \in InverseFns
    BY DEF InverseFns
  <2>3. CASE fft_real_inverse_default(t, c, src, dst, count, tmpBuf)
    BY <1>1, <1>3, <1>4, <2>1, <2>2, <2>3 DEF fft_real_inverse_default
  <2>4. CASE fft_real_inverse_neon(t, c, src, dst, count, tmpBuf)
    BY <1>1, <1>3, <1>4, <2>1, <2>2, <2>4 DEF fft_real_inverse_neon, StackOf
  <2> QED BY <1>4, <2>3, <2>4
<1> QED BY <1>2, <1>4 DEF fft_real_inverse

-----------------------------------------------------------------------------
(***************************************************************************)
(* The frames of a call of a real transform, with the arguments a: those of *)
(* the real transform, and those of the complex one of half its size.       *)
(***************************************************************************)
FnsOf(a) == IF a.op = "forward" THEN ForwardFns ELSE InverseFns

HalfFft(a) ==
  IF a.op = "forward"
  THEN [context |-> a.context, src |-> a.src, dst |-> a.dst,
        count |-> a.count \div 2, inverse |-> FALSE]
  ELSE [context |-> a.context, src |-> a.tmpBuf, dst |-> a.dst,
        count |-> a.count \div 2, inverse |-> TRUE]

RealFramesOf(a) ==
  UNION {StartFrames(fn, a.context, a.src, a.dst, a.tmpBuf, a.count) : fn \in FnsOf(a)}

FramesOf(a) == RealFramesOf(a) \cup {f \in OKFrames : Serves(f) = HalfFft(a)}

LEMMA StartFrameFields ==
  ASSUME NEW fn, NEW c, NEW src, NEW dst, NEW tmpBuf, NEW count,
         NEW f \in StartFrames(fn, c, src, dst, tmpBuf, count)
  PROVE  /\ f \in OKRealFrames /\ f.fn = fn /\ f.context = c /\ f.src = src
         /\ f.dst = dst /\ f.tmpBuf = tmpBuf /\ f.count = count
<1>1. f \in OKRealFrames
      /\ RealServes(f) = [fn |-> fn, context |-> c, src |-> src, dst |-> dst,
                          tmpBuf |-> tmpBuf, count |-> count]
  BY DEF StartFrames
<1> QED BY <1>1 DEF RealServes

LEMMA RealFramesFields ==
  ASSUME NEW a, NEW f \in RealFramesOf(a)
  PROVE  /\ f \in OKRealFrames /\ f.fn \in FnsOf(a) /\ f.context = a.context
         /\ f.src = a.src /\ f.dst = a.dst /\ f.tmpBuf = a.tmpBuf /\ f.count = a.count
<1>1. PICK fn \in FnsOf(a) :
        f \in StartFrames(fn, a.context, a.src, a.dst, a.tmpBuf, a.count)
  BY DEF RealFramesOf
<1> QED BY <1>1, StartFrameFields

LEMMA RealFramesServe ==
  ASSUME NEW a, NEW f \in RealFramesOf(a), NEW g \in OKRealFrames,
         RealServes(g) = RealServes(f)
  PROVE  g \in RealFramesOf(a)
<1>1. PICK fn \in FnsOf(a) :
        f \in StartFrames(fn, a.context, a.src, a.dst, a.tmpBuf, a.count)
  BY DEF RealFramesOf
<1>2. g \in StartFrames(fn, a.context, a.src, a.dst, a.tmpBuf, a.count)
  BY <1>1 DEF StartFrames
<1> QED BY <1>2 DEF RealFramesOf

(* Of frames of both kinds, the function tells which kind it is.            *)
LEMMA FrameKinds ==
  /\ \A f \in OKFrames : f \in Frame /\ f.fn \in {"fft_default", "fft_neon"}
  /\ \A f \in OKRealFrames : f \in RealFrame /\ f.fn \notin {"fft_default", "fft_neon"}
  BY DEF OKFrames, OKRealFrames, Frame, RealFrame

LEMMA FramesClosed ==
  ASSUME NEW a
  PROVE  RealClosed(FramesOf(a)) /\ FramesOf(a) \subseteq Frame \cup RealFrame
<1> DEFINE S == FramesOf(a)
<1>1. S \subseteq OKFrames \cup OKRealFrames
  BY RealFramesFields DEF FramesOf
<1>2. Closed(S)
  <2>1. ASSUME NEW f \in S, f.fn \in {"fft_default", "fft_neon"}
        PROVE  f \in OKFrames /\ Serves(f) = HalfFft(a)
    BY <2>1, RealFramesFields, FrameKinds DEF FramesOf
  <2> QED BY <2>1 DEF Closed, FramesOf
<1>3. ASSUME NEW f \in S, f.fn \notin {"fft_default", "fft_neon"}
      PROVE  /\ f \in OKRealFrames
             /\ \A g \in OKRealFrames : RealServes(g) = RealServes(f) => g \in S
             /\ f.fn \in InverseFns =>
                  \A g \in OKFrames : Serves(g) = InverseFft(f) => g \in S
  <2>1. f \in RealFramesOf(a)
    BY <1>3, FrameKinds DEF FramesOf
  <2>2. /\ f \in OKRealFrames /\ f.fn \in FnsOf(a) /\ f.context = a.context
        /\ f.dst = a.dst /\ f.tmpBuf = a.tmpBuf /\ f.count = a.count
    BY <2>1, RealFramesFields
  <2>3. f.fn \in InverseFns => InverseFft(f) = HalfFft(a)
    BY <2>2 DEF InverseFft, HalfFft, FnsOf, ForwardFns, InverseFns
  <2>4. \A g \in OKRealFrames : RealServes(g) = RealServes(f) => g \in S
    BY <2>1, RealFramesServe DEF FramesOf
  <2> QED BY <2>2, <2>3, <2>4 DEF FramesOf
<1> QED BY <1>1, <1>2, <1>3, FrameKinds DEF RealClosed

LEMMA SeqFrames ==
  ASSUME NEW a, NEW s \in Seq(FramesOf(a))
  PROVE  s \in Seq(Frame \cup RealFrame)
  BY FramesClosed

(* Good frames stay good as long as the contexts are what they are.         *)
LEMMA FramesUnchanged ==
  ASSUME UNCHANGED context, NEW a
  PROVE  FramesOf(a)' = FramesOf(a)
<1>1. OKFrames' = OKFrames
  BY DEF OKFrames, FrameOK, HasTable, TableOf
<1>2. OKRealFrames' = OKRealFrames
  BY DEF OKRealFrames, RealFrameOK, HasTable, TableOf
<1> QED BY <1>1, <1>2 DEF FramesOf, RealFramesOf, StartFrames

-----------------------------------------------------------------------------
(***************************************************************************)
(* The results of the real transforms.  First the arithmetic: what an       *)
(* iteration makes of two opposite elements is an element of the spectrum,  *)
(* or four times one of the complex transform.                              *)
(***************************************************************************)

(* A number four times.                                                     *)
Four(z) == add(add(z, z), add(z, z))

(* The conversions that an iteration makes.                                 *)
LEMMA ConjugateFacts ==
  ASSUME NEW a \in CkFftComplex
  PROVE  /\ conjugate(a) \in CkFftComplex /\ conjugate(conjugate(a)) = a
         /\ conjugate(Minus(a)) = Minus(conjugate(a))
         /\ [a EXCEPT !.real = Neg(@)] = Minus(conjugate(a))
         /\ TimesI(a) = multiply(I, a)
         /\ [real |-> Twice(a.real), imag |-> Neg(Twice(a.imag))] = conjugate(add(a, a))
<1>1. conjugate(a) \in CkFftComplex /\ conjugate(conjugate(a)) = a
  BY ComplexOps, ConjugateTwice
<1>2. P \in Nat \ {0}
  BY ModulusAssumption
<1>3. a.real \in Float /\ a.imag \in Float /\ a = [real |-> a.real, imag |-> a.imag]
      /\ a.real \in Int /\ a.imag \in Int
  BY <1>2 DEF CkFftComplex, Float
<1>4. conjugate(a) = [real |-> a.real, imag |-> (-a.imag) % P]
  BY DEF conjugate
<1>5. \A b \in CkFftComplex : Minus(b) = [real |-> (-b.real) % P, imag |-> (-b.imag) % P]
  BY TimesHalfTurn DEF Minus
<1>6. (-((-a.imag) % P)) % P = a.imag
  BY <1>3, NegTwice, FloatMod
<1>7. conjugate(Minus(a)) = Minus(conjugate(a))
  <2>1. conjugate(Minus(a)) = [real |-> (-a.real) % P, imag |-> (-((-a.imag) % P)) % P]
    BY <1>5 DEF conjugate
  <2>2. Minus(conjugate(a)) = [real |-> (-a.real) % P, imag |-> (-((-a.imag) % P)) % P]
    BY <1>1, <1>4, <1>5
  <2> QED BY <2>1, <2>2
<1>8. [a EXCEPT !.real = Neg(@)] = Minus(conjugate(a))
  <2>1. [a EXCEPT !.real = Neg(@)] = [real |-> (-a.real) % P, imag |-> a.imag]
    BY <1>3 DEF Neg
  <2>2. Minus(conjugate(a)) = [real |-> (-a.real) % P, imag |-> (-((-a.imag) % P)) % P]
    BY <1>1, <1>4, <1>5
  <2> QED BY <1>6, <2>1, <2>2
<1>9. TimesI(a) = multiply(I, a)
  <2>1. \A inverse \in BOOLEAN :
          multiply(Root(1, 4, inverse), a) =
           IF inverse THEN [real |-> (-a.imag) % P, imag |-> a.real]
                      ELSE [real |-> a.imag, imag |-> (-a.real) % P]
    BY TimesQuarterTurn
  <2> QED BY <2>1 DEF TimesI, Neg, I
<1>10. [real |-> Twice(a.real), imag |-> Neg(Twice(a.imag))] = conjugate(add(a, a))
  <2>1. a.real + a.real = 2 * a.real /\ a.imag + a.imag = 2 * a.imag
    BY <1>3
  <2> QED BY <2>1 DEF Twice, Neg, conjugate, add
<1> QED BY <1>1, <1>7, <1>8, <1>9, <1>10

(* The second element of an iteration is the first one of the iteration that *)
(* takes the elements in the other order.                                   *)
LEMMA UntangleSwap ==
  ASSUME NEW z0 \in CkFftComplex, NEW z1 \in CkFftComplex,
         NEW e0 \in CkFftComplex, NEW e1 \in CkFftComplex, NEW inverse \in BOOLEAN
  PROVE  Untangle(z0, z1, e0, e1, inverse)[2] = Untangle(z1, z0, e1, e0, inverse)[1]
<1> DEFINE sum == add(z0, conjugate(z1))
           diff == subtract(z0, conjugate(z1))
<1>1. /\ conjugate(z0) \in CkFftComplex /\ conjugate(z1) \in CkFftComplex
      /\ conjugate(conjugate(z0)) = z0 /\ conjugate(conjugate(z1)) = z1
  BY ConjugateFacts
<1>2. sum \in CkFftComplex /\ diff \in CkFftComplex
  BY <1>1, ComplexOps
<1>3. conjugate(sum) = add(z1, conjugate(z0))
  <2>1. conjugate(sum) = add(conjugate(z0), z1)
    BY <1>1, ConjugateAdd
  <2> QED BY <1>1, <2>1, AddCommutes
<1>4. Minus(conjugate(diff)) = subtract(z1, conjugate(z0))
  <2>1. diff = add(z0, Minus(conjugate(z1))) /\ Minus(conjugate(z1)) \in CkFftComplex
    BY <1>1, MinusFacts
  <2>2. conjugate(Minus(conjugate(z1))) = Minus(z1)
    BY <1>1, ConjugateFacts
  <2>3. conjugate(diff) = add(conjugate(z0), Minus(z1))
    BY <2>1, <2>2, ConjugateAdd
  <2>4. Minus(z1) \in CkFftComplex /\ Minus(Minus(z1)) = z1 /\ Minus(conjugate(z0)) \in CkFftComplex
    BY <1>1, MinusFacts
  <2>5. Minus(add(conjugate(z0), Minus(z1))) = add(Minus(conjugate(z0)), Minus(Minus(z1)))
    BY <1>1, <2>4, MinusFacts
  <2>6. add(Minus(conjugate(z0)), z1) = add(z1, Minus(conjugate(z0)))
    BY <2>4, AddCommutes
  <2>7. subtract(z1, conjugate(z0)) = add(z1, Minus(conjugate(z0)))
    BY <1>1, MinusFacts
  <2> QED BY <2>3, <2>4, <2>5, <2>6, <2>7
<1>5. [diff EXCEPT !.real = Neg(@)] = Minus(conjugate(diff))
  BY <1>2, ConjugateFacts
<1> DEFINE p1 == multiply(TimesI(e1), subtract(z1, conjugate(z0)))
           s1 == add(z1, conjugate(z0))
<1>6. Untangle(z0, z1, e0, e1, inverse)[2] = IF inverse THEN add(s1, p1) ELSE subtract(s1, p1)
  <2>1. Untangle(z0, z1, e0, e1, inverse)[2] =
          IF inverse
          THEN add(conjugate(sum), multiply(TimesI(e1), [diff EXCEPT !.real = Neg(@)]))
          ELSE subtract(conjugate(sum), multiply(TimesI(e1), [diff EXCEPT !.real = Neg(@)]))
    BY DEF Untangle
  <2> HIDE DEF sum, diff
  <2> QED BY <1>3, <1>4, <1>5, <2>1
<1>7. Untangle(z1, z0, e1, e0, inverse)[1] = IF inverse THEN add(s1, p1) ELSE subtract(s1, p1)
  BY DEF Untangle
<1> QED BY <1>6, <1>7

(* The first element of an iteration, in either direction.                  *)
Untangled(z0, z1, exp0, exp1) == Untangle(z0, z1, exp0, exp1, FALSE)[1]
Tangled(z0, z1, exp0, exp1) == Untangle(z0, z1, exp0, exp1, TRUE)[1]

(* Forward, an iteration makes the doubled element of the spectrum.         *)
LEMMA UntangleForward ==
  ASSUME NEW A, NEW B, NEW w, NEW z0, NEW z1, NEW X0, NEW X1,
         Halves(A, B, w, z0, z1, X0, X1), NEW e1 \in CkFftComplex
  PROVE  Untangled(z0, z1, w, e1) = add(X0, X0)
<1> DEFINE b == multiply(I, B)
           c == multiply(w, B)
           sum == add(A, A)
           p0 == multiply(TimesI(w), add(b, b))
<1>1. /\ A \in CkFftComplex /\ B \in CkFftComplex /\ w \in CkFftComplex
      /\ z0 = add(A, b) /\ conjugate(z1) = subtract(A, b) /\ X0 = add(A, c)
  BY DEF Halves
<1>2. b \in CkFftComplex /\ c \in CkFftComplex /\ I \in CkFftComplex
      /\ multiply(I, w) \in CkFftComplex
  BY <1>1, QuarterTurnFacts, ComplexOps
<1>3. add(z0, conjugate(z1)) = sum /\ subtract(z0, conjugate(z1)) = add(b, b)
  <2> HIDE DEF b
  <2> QED BY <1>1, <1>2, SumDifference
<1>4. Untangled(z0, z1, w, e1) = subtract(sum, p0)
  <2>1. Untangled(z0, z1, w, e1) =
          subtract(add(z0, conjugate(z1)), multiply(TimesI(w), subtract(z0, conjugate(z1))))
    BY DEF Untangled, Untangle
  <2> HIDE DEF b
  <2> QED BY <1>3, <2>1
<1>5. multiply(TimesI(w), b) = Minus(c)
  <2>1. TimesI(w) = multiply(I, w)
    BY <1>1, ConjugateFacts
  <2>2. multiply(multiply(I, w), b) = multiply(I, multiply(w, b))
    BY <1>1, <1>2, MultiplyAssociates
  <2>3. multiply(w, multiply(I, B)) = multiply(multiply(w, I), B)
    BY <1>1, <1>2, MultiplyAssociates
  <2>4. multiply(w, I) = multiply(I, w)
    BY <1>1, <1>2, MultiplyCommutes
  <2>5. multiply(multiply(I, w), B) = multiply(I, c)
    BY <1>1, <1>2, MultiplyAssociates
  <2>6. multiply(I, multiply(I, c)) = Minus(c)
    <3> HIDE DEF c
    <3> QED BY <1>2, QuarterTurnFacts
  <2> QED BY <2>1, <2>2, <2>3, <2>4, <2>5, <2>6
<1>6. p0 = add(Minus(c), Minus(c))
  <2>1. TimesI(w) = multiply(I, w)
    BY <1>1, ConjugateFacts
  <2> HIDE DEF b, c
  <2>2. multiply(TimesI(w), add(b, b)) = add(multiply(TimesI(w), b), multiply(TimesI(w), b))
    BY <1>2, <2>1, MultiplyDistributes
  <2> QED BY <1>5, <2>2
<1> HIDE DEF b, c
<1>7. Minus(c) \in CkFftComplex /\ Minus(Minus(c)) = c
  BY <1>2, MinusFacts
<1>8. p0 \in CkFftComplex /\ Minus(p0) = add(c, c)
  <2> HIDE DEF p0
  <2>1. add(Minus(c), Minus(c)) \in CkFftComplex
    BY <1>7, ComplexOps
  <2>2. Minus(add(Minus(c), Minus(c))) = add(Minus(Minus(c)), Minus(Minus(c)))
    BY <1>7, MinusFacts
  <2> QED BY <1>6, <1>7, <2>1, <2>2
<1> HIDE DEF p0
<1>9. subtract(sum, p0) = add(add(A, A), add(c, c))
  <2>1. sum \in CkFftComplex
    BY <1>1, ComplexOps
  <2>2. subtract(sum, p0) = add(sum, Minus(p0))
    BY <1>8, <2>1, MinusFacts
  <2> QED BY <1>8, <2>2
<1>10. add(add(A, A), add(c, c)) = add(add(A, c), add(A, c))
  BY <1>1, <1>2, AddFour
<1> QED BY <1>1, <1>4, <1>9, <1>10

(* And backward it makes four times the element of the complex transform.   *)
LEMMA UntangleInverse ==
  ASSUME NEW A, NEW B, NEW w, NEW z0, NEW z1, NEW X0, NEW X1,
         Halves(A, B, w, z0, z1, X0, X1),
         NEW v \in CkFftComplex, multiply(v, w) = One, NEW e1 \in CkFftComplex
  PROVE  Tangled(add(X0, X0), add(X1, X1), v, e1) = Four(z0)
<1> DEFINE b == multiply(I, B)
           c == multiply(w, B)
           x == add(X0, X0)
           y == conjugate(add(X1, X1))
           d == conjugate(X1)
<1>1. /\ A \in CkFftComplex /\ B \in CkFftComplex /\ w \in CkFftComplex
      /\ X0 \in CkFftComplex /\ X1 \in CkFftComplex
      /\ z0 = add(A, b) /\ X0 = add(A, c) /\ d = subtract(A, c)
  BY DEF Halves
<1>2. b \in CkFftComplex /\ c \in CkFftComplex /\ I \in CkFftComplex
      /\ multiply(I, v) \in CkFftComplex
  BY <1>1, QuarterTurnFacts, ComplexOps
<1>3. y = add(d, d) /\ d \in CkFftComplex
  BY <1>1, ConjugateAdd, ConjugateFacts
<1>4. add(X0, d) = add(A, A) /\ subtract(X0, d) = add(c, c)
  <2> HIDE DEF c, d
  <2> QED BY <1>1, <1>2, SumDifference
<1>5. add(x, y) = Four(A)
  <2>1. add(add(X0, X0), add(d, d)) = add(add(X0, d), add(X0, d))
    BY <1>1, <1>3, AddFour
  <2> HIDE DEF d
  <2> QED BY <1>3, <1>4, <2>1 DEF Four
<1>6. subtract(x, y) = Four(c)
  <2> HIDE DEF d, c
  <2>1. x \in CkFftComplex /\ add(d, d) \in CkFftComplex /\ Minus(d) \in CkFftComplex
        /\ add(Minus(d), Minus(d)) = Minus(add(d, d))
    BY <1>1, <1>3, ComplexOps, MinusFacts
  <2>2. subtract(x, add(d, d)) = add(x, Minus(add(d, d)))
    BY <2>1, MinusFacts
  <2>3. add(add(X0, X0), add(Minus(d), Minus(d))) = add(add(X0, Minus(d)), add(X0, Minus(d)))
    BY <1>1, <2>1, AddFour
  <2>4. subtract(X0, d) = add(X0, Minus(d))
    BY <1>1, <1>3, MinusFacts
  <2> QED BY <1>3, <1>4, <2>1, <2>2, <2>3, <2>4 DEF Four
<1>7. multiply(TimesI(v), c) = b
  <2>1. TimesI(v) = multiply(I, v)
    BY ConjugateFacts
  <2>2. multiply(multiply(I, v), c) = multiply(I, multiply(v, c))
    BY <1>1, <1>2, MultiplyAssociates
  <2>3. multiply(v, multiply(w, B)) = multiply(multiply(v, w), B)
    BY <1>1, MultiplyAssociates
  <2>4. multiply(One, B) = B
    BY <1>1, MultiplyOne
  <2> QED BY <2>1, <2>2, <2>3, <2>4
<1>8. TimesI(v) \in CkFftComplex
  BY <1>2, ConjugateFacts
<1> HIDE DEF b, c
<1>9. multiply(TimesI(v), Four(c)) = Four(b)
  <2>1. add(c, c) \in CkFftComplex
    BY <1>2, ComplexOps
  <2>2. multiply(TimesI(v), add(c, c)) = add(b, b)
    BY <1>2, <1>7, <1>8, MultiplyDistributes
  <2> QED BY <1>8, <2>1, <2>2, MultiplyDistributes DEF Four
<1>10. Tangled(x, add(X1, X1), v, e1) = add(Four(A), Four(b))
  <2>1. Tangled(x, add(X1, X1), v, e1) =
          add(add(x, y), multiply(TimesI(v), subtract(x, y)))
    BY DEF Tangled, Untangle
  <2> HIDE DEF x, y
  <2> QED BY <1>5, <1>6, <1>9, <2>1
<1>11. add(Four(A), Four(b)) = Four(add(A, b))
  <2>1. add(A, A) \in CkFftComplex /\ add(b, b) \in CkFftComplex
    BY <1>1, <1>2, ComplexOps
  <2>2. add(add(add(A, A), add(A, A)), add(add(b, b), add(b, b)))
          = add(add(add(A, A), add(b, b)), add(add(A, A), add(b, b)))
    BY <2>1, AddFour
  <2>3. add(add(A, A), add(b, b)) = add(add(A, b), add(A, b))
    BY <1>1, <1>2, AddFour
  <2> QED BY <2>2, <2>3 DEF Four
<1> QED BY <1>1, <1>10, <1>11

(* The middle element, whose factor is a quarter of a turn.                 *)
LEMMA MiddleHalves ==
  ASSUME NEW A, NEW B, NEW z, NEW X, Halves(A, B, Root(1, 4, FALSE), z, z, X, X)
  PROVE  conjugate(z) = X /\ conjugate(X) = z
<1> DEFINE b == multiply(I, B)
<1>1. /\ A \in CkFftComplex /\ B \in CkFftComplex /\ z \in CkFftComplex
      /\ conjugate(z) = subtract(A, b) /\ X = add(A, multiply(Root(1, 4, FALSE), B))
  BY DEF Halves
<1>2. b \in CkFftComplex /\ multiply(Root(1, 4, FALSE), B) = Minus(b)
  BY <1>1, QuarterTurnFacts, ComplexOps
<1> HIDE DEF b
<1>3. subtract(A, b) = add(A, Minus(b))
  BY <1>1, <1>2, MinusFacts
<1>4. conjugate(z) = X
  BY <1>1, <1>2, <1>3
<1> QED BY <1>1, <1>4, ConjugateFacts

(* Contents of buffers: the floats of y, the transform of its h pairs, that *)
(* of n floats, scaled by 2, and y when it holds n/2 + 1 elements of it.    *)
FloatAt(y, j) == IF j % 2 = 0 THEN y[j \div 2].real ELSE y[j \div 2].imag
RealInput(y, n) == [j \in 0..(n - 1) |-> [real |-> FloatAt(y, j), imag |-> 0]]
PairTransform(y, h) == DFT([j \in 0..(h - 1) |-> y[j]], h, FALSE)
SpectrumOf(y, n) ==
  LET X == DFT(RealInput(y, n), n, FALSE)
  IN  [k \in 0..(n - 1) |-> add(X[k], X[k])]
HoldsPairs(y, h) == \A j \in 0..(h - 1) : y[j] \in CkFftComplex

(* The floats of a buffer are the real and imaginary parts of its elements. *)
LEMMA InputPairs ==
  ASSUME NEW h \in Nat \ {0}, NEW y, HoldsPairs(y, h)
  PROVE  PairsOf([j \in 0..(h - 1) |-> y[j]], RealInput(y, 2 * h), h)
<1> SUFFICES ASSUME NEW j \in 0..(h - 1)
             PROVE  /\ y[j] \in CkFftComplex
                    /\ RealInput(y, 2 * h)[2 * j] = [real |-> y[j].real, imag |-> 0]
                    /\ RealInput(y, 2 * h)[2 * j + 1] = [real |-> y[j].imag, imag |-> 0]
  BY DEF PairsOf
<1>1. y[j] \in CkFftComplex
  BY DEF HoldsPairs
<1>2. /\ 2 * j \in 0..(2 * h - 1) /\ 2 * j + 1 \in 0..(2 * h - 1)
      /\ (2 * j) % 2 = 0 /\ (2 * j + 1) % 2 # 0
      /\ (2 * j) \div 2 = j /\ (2 * j + 1) \div 2 = j
  OBVIOUS
<1>3. FloatAt(y, 2 * j) = y[j].real /\ FloatAt(y, 2 * j + 1) = y[j].imag
  BY <1>2 DEF FloatAt
<1> QED BY <1>1, <1>2, <1>3 DEF RealInput

(* A quarter of any table is a quarter turn.                                *)
LEMMA RootFourth ==
  ASSUME NEW m \in Nat \ {0}, Divisor(4 * m), NEW inverse \in BOOLEAN
  PROVE  Root(m, 4 * m, inverse) = Root(1, 4, inverse)
<1>1. Root(1 * m, 4 * m, inverse) = Root(1, 4, inverse)
  <2>1. 4 \in Nat \ {0} /\ 1 \in Nat
    OBVIOUS
  <2> QED BY <2>1, RootScale
<1> QED BY <1>1

(* The numbers of element k again, with those of the scaled spectrum.       *)
ElementOf(w, z0, z1, S0, S1) ==
  \E A, B, X0, X1 : /\ Halves(A, B, w, z0, z1, X0, X1)
                    /\ S0 = add(X0, X0) /\ S1 = add(X1, X1)

(* An iteration makes one of the other.                                     *)
LEMMA HalvesUntangle ==
  ASSUME NEW w, NEW z0, NEW z1, NEW S0, NEW S1, ElementOf(w, z0, z1, S0, S1),
         NEW v \in CkFftComplex, multiply(v, w) = One, NEW e \in CkFftComplex
  PROVE  /\ z0 \in CkFftComplex /\ S0 \in CkFftComplex
         /\ Untangled(z0, z1, w, e) = S0
         /\ Tangled(S0, S1, v, e) = Four(z0)
<1>1. PICK A, B, X0, X1 : /\ Halves(A, B, w, z0, z1, X0, X1)
                          /\ S0 = add(X0, X0) /\ S1 = add(X1, X1)
  BY DEF ElementOf
<1>2. z0 \in CkFftComplex /\ X0 \in CkFftComplex
  BY <1>1 DEF Halves
<1>3. S0 \in CkFftComplex
  BY <1>1, <1>2, ComplexOps
<1>4. Untangled(z0, z1, w, e) = add(X0, X0)
  BY <1>1, UntangleForward
<1>5. Tangled(add(X0, X0), add(X1, X1), v, e) = Four(z0)
  BY <1>1, UntangleInverse
<1> QED BY <1>1, <1>2, <1>3, <1>4, <1>5

(* So does the middle element, without any table.                           *)
LEMMA HalvesMiddle ==
  ASSUME NEW z, NEW X, NEW S, \E A, B : Halves(A, B, Root(1, 4, FALSE), z, z, X, X),
         S = add(X, X)
  PROVE  conjugate(add(z, z)) = S /\ conjugate(add(S, S)) = Four(z)
<1>1. PICK A, B : Halves(A, B, Root(1, 4, FALSE), z, z, X, X)
  OBVIOUS
<1>2. z \in CkFftComplex /\ X \in CkFftComplex
  BY <1>1 DEF Halves
<1>3. conjugate(z) = X /\ conjugate(X) = z
  BY <1>1, MiddleHalves
<1>4. conjugate(add(z, z)) = S
  BY <1>2, <1>3, ConjugateAdd
<1>5. conjugate(S) = add(z, z) /\ S \in CkFftComplex
  BY <1>2, <1>3, ConjugateAdd, ComplexOps
<1>6. conjugate(add(S, S)) = add(add(z, z), add(z, z))
  BY <1>5, ConjugateAdd
<1> QED BY <1>4, <1>6 DEF Four

(* What an iteration makes of elements k and h - k, in both directions.     *)
Untangles(h, Z, S, k) ==
  /\ Z[k % h] \in CkFftComplex /\ S[k] \in CkFftComplex
  /\ \A e \in CkFftComplex :
       /\ Untangled(Z[k % h], Z[(h - k) % h], Root(k, 2 * h, FALSE), e) = S[k]
       /\ Tangled(S[k], S[h - k], Root(k, 2 * h, TRUE), e) = Four(Z[k % h])
  /\ 2 * k = h => /\ conjugate(add(Z[k % h], Z[k % h])) = S[k]
                  /\ conjugate(add(S[k], S[k])) = Four(Z[k % h])

(* Every element of the spectrum of real data is untangled that way.        *)
LEMMA ElementUntangles ==
  ASSUME NEW h \in Nat \ {0}, Divisor(2 * h), NEW y, HoldsPairs(y, h), NEW k \in 0..h
  PROVE  Untangles(h, PairTransform(y, h), SpectrumOf(y, 2 * h), k)
<1> DEFINE z == [j \in 0..(h - 1) |-> y[j]]
           x == RealInput(y, 2 * h)
           Z == DFT(z, h, FALSE)
           X == DFT(x, 2 * h, FALSE)
           S == SpectrumOf(y, 2 * h)
           w == Root(k, 2 * h, FALSE)
           v == Root(k, 2 * h, TRUE)
           z0 == Z[k % h]
           z1 == Z[(h - k) % h]
<1>1. \E A, B : Halves(A, B, w, z0, z1, X[k], X[h - k])
  <2>1. PairsOf(z, x, h)
    BY InputPairs
  <2> HIDE DEF z, x
  <2> QED BY <2>1, DftPairs
<1>2. S[k] = add(X[k], X[k]) /\ S[h - k] = add(X[h - k], X[h - k])
  <2>1. k \in 0..(2 * h - 1) /\ h - k \in 0..(2 * h - 1)
    OBVIOUS
  <2> QED BY <2>1 DEF SpectrumOf
<1>3. k \in Nat /\ 2 * h \in Nat \ {0}
  OBVIOUS
<1>4. v \in CkFftComplex
  <2>1. \A inverse \in BOOLEAN : Root(k, 2 * h, inverse) \in CkFftComplex
    BY <1>3, RootType
  <2> QED BY <2>1
<1>5. multiply(v, w) = One
  BY <1>3, RootUnit
<1>6. 2 * k = h => w = Root(1, 4, FALSE)
  <2> SUFFICES ASSUME 2 * k = h PROVE w = Root(1, 4, FALSE)
    OBVIOUS
  <2>1. k \in Nat \ {0} /\ 2 * h = 4 * k
    OBVIOUS
  <2>2. ASSUME NEW inverse \in BOOLEAN
        PROVE  Root(k, 4 * k, inverse) = Root(1, 4, inverse)
    BY <2>1, RootFourth
  <2> QED BY <2>1, <2>2
<1>7. 2 * k = h => z0 = z1 /\ X[k] = X[h - k]
  <2> SUFFICES ASSUME 2 * k = h PROVE z0 = z1 /\ X[k] = X[h - k]
    OBVIOUS
  <2>1. h - k = k
    OBVIOUS
  <2> QED BY <2>1
<1> DEFINE X0 == X[k]
           X1 == X[h - k]
           S0 == S[k]
           S1 == S[h - k]
<1>8. /\ \E A, B : Halves(A, B, w, z0, z1, X0, X1)
      /\ S0 = add(X0, X0) /\ S1 = add(X1, X1)
  BY <1>1, <1>2
<1>9. 2 * k = h => \E A, B : Halves(A, B, Root(1, 4, FALSE), z0, z0, X0, X0)
  <2> HIDE DEF w, z0, z1
  <2> QED BY <1>6, <1>7, <1>8
<1> HIDE DEF w, v, S, z0, z1, X0, X1, S0, S1
<1>10. ASSUME NEW e \in CkFftComplex
       PROVE  /\ z0 \in CkFftComplex /\ S0 \in CkFftComplex
              /\ Untangled(z0, z1, w, e) = S0
              /\ Tangled(S0, S1, v, e) = Four(z0)
  <2>1. ElementOf(w, z0, z1, S0, S1)
    BY <1>8 DEF ElementOf
  <2> QED BY <1>4, <1>5, <2>1, HalvesUntangle
<1>11. z0 \in CkFftComplex /\ S0 \in CkFftComplex
  BY <1>10, ZeroOne
<1>13. 2 * k = h => /\ conjugate(add(z0, z0)) = S0
                    /\ conjugate(add(S0, S0)) = Four(z0)
  BY <1>8, <1>9, HalvesMiddle
<1>14. Z = PairTransform(y, h)
  BY DEF PairTransform
<1> HIDE DEF Z, X
<1>15. Untangles(h, Z, S, k)
  BY ONLY <1>10, <1>11, <1>13 DEF Untangles, z0, z1, w, v, S0, S1
<1> QED BY <1>14, <1>15 DEF S

-----------------------------------------------------------------------------
(***************************************************************************)
(* The counts that fft_real and fft_real_inverse do themselves.             *)
(***************************************************************************)

(* y holds n/2 + 1 elements of the scaled spectrum of the floats of x; the  *)
(* floats of y are those of x times 2*n.                                    *)
HasFloats(y, n) == \A j \in 0..(n - 1) : FloatAt(y, j) \in Float
HasSpectrum(n, x, y) == \A k \in 0..(n \div 2) : y[k] = SpectrumOf(x, n)[k]
ScaledBack(n, x, y) == \A j \in 0..(n - 1) : FloatAt(y, j) = (2 * n * FloatAt(x, j)) % P

(* An inverse transform is given a spectrum.  The shortcuts do not read the *)
(* imaginary parts of its first and its last element, which should be 0.    *)
SpectrumGiven(n, x, y) ==
  \A k \in 0..(n \div 2) :
    /\ y[k].real = SpectrumOf(x, n)[k].real
    /\ n >= 8 \/ (k # 0 /\ 2 * k # n) => y[k] = SpectrumOf(x, n)[k]

(* A complex number from two integers.                                      *)
Cx(a, b) == [real |-> a % P, imag |-> b % P]

(* Sums and differences.                                                    *)
LEMMA CxOps ==
  ASSUME NEW a \in Int, NEW b \in Int, NEW c \in Int, NEW d \in Int
  PROVE  /\ Cx(a, b) \in CkFftComplex
         /\ add(Cx(a, b), Cx(c, d)) = Cx(a + c, b + d)
         /\ subtract(Cx(a, b), Cx(c, d)) = Cx(a - c, b - d)
<1>1. a % P \in Float /\ b % P \in Float /\ c % P \in Float /\ d % P \in Float
  BY ModOf
<1>2. P \in Nat \ {0} /\ \A x \in Float : x \in Int
  BY ModulusAssumption DEF Float
<1>3. Cx(a, b) \in CkFftComplex
  BY <1>1 DEF Cx, CkFftComplex
<1>4. \A x, y \in Int : /\ ((x % P) + (y % P)) % P = (x + y) % P
                        /\ ((x % P) - (y % P)) % P = (x - y) % P
  <2> SUFFICES ASSUME NEW x \in Int, NEW y \in Int
               PROVE  /\ ((x % P) + (y % P)) % P = (x + y) % P
                      /\ ((x % P) - (y % P)) % P = (x - y) % P
    OBVIOUS
  <2>1. x % P \in Int
    BY <1>2, ModOf
  <2> DEFINE u == x % P
  <2> HIDE DEF u
  <2>2. (u + (y % P)) % P = (u + y) % P /\ (u - (y % P)) % P = (u - y) % P
    BY <2>1, ModSum DEF u
  <2>3. (u + y) % P = (x + y) % P /\ (u - y) % P = (x - y) % P
    BY ModSum DEF u
  <2> QED BY <2>2, <2>3 DEF u
<1> QED BY <1>3, <1>4 DEF Cx, add, subtract

(* Real and imaginary ones.                                                 *)
Re(a) == Cx(a, 0)
Im(b) == Cx(0, b)

(* Sums, differences and quarter turns of real ones.                        *)
LEMMA ReOps ==
  ASSUME NEW a \in Int, NEW b \in Int
  PROVE  /\ Re(a) \in CkFftComplex
         /\ Re(a) = [real |-> a % P, imag |-> 0]
         /\ add(Re(a), Re(b)) = Re(a + b)
         /\ subtract(Re(a), Re(b)) = Re(a - b)
         /\ multiply(Root(1, 4, FALSE), Re(b)) = Im(-b)
         /\ add(Re(a), Im(b)) = Cx(a, b)
         /\ add(Cx(a, b), Cx(a, b)) = Cx(2 * a, 2 * b)
         /\ add(Re(a), Re(a)) = Re(2 * a)
<1>1. 0 % P = 0
  <2>1. P \in Nat \ {0} /\ 0 \in Float
    BY ModulusAssumption DEF Float
  <2> QED BY <2>1, FloatMod
<1>2. 0 \in Int /\ 0 + 0 = 0 /\ 0 - 0 = 0 /\ a + 0 = a /\ 0 + b = b /\ -b \in Int
      /\ a + a = 2 * a /\ b + b = 2 * b
  OBVIOUS
<1>3. ASSUME NEW z, z = 0
      PROVE  /\ Cx(a, z) \in CkFftComplex
             /\ add(Cx(a, z), Cx(b, z)) = Cx(a + b, z)
             /\ subtract(Cx(a, z), Cx(b, z)) = Cx(a - b, z)
             /\ add(Cx(a, z), Cx(z, b)) = Cx(a, b)
             /\ add(Cx(a, z), Cx(a, z)) = Cx(2 * a, z)
  <2>1. z \in Int /\ z + z = z /\ z - z = z /\ a + z = a /\ z + b = b
    BY <1>3
  <2> HIDE <1>3
  <2>2. /\ Cx(a, z) \in CkFftComplex
        /\ add(Cx(a, z), Cx(b, z)) = Cx(a + b, z + z)
        /\ subtract(Cx(a, z), Cx(b, z)) = Cx(a - b, z - z)
    BY <2>1, CxOps
  <2>3. add(Cx(a, z), Cx(z, b)) = Cx(a + z, z + b)
    BY <2>1, CxOps
  <2>4. add(Cx(a, z), Cx(a, z)) = Cx(a + a, z + z)
    BY <2>1, CxOps
  <2> QED BY <1>2, <2>1, <2>2, <2>3, <2>4
<1>4. add(Cx(a, b), Cx(a, b)) = Cx(2 * a, 2 * b)
  <2>1. add(Cx(a, b), Cx(a, b)) = Cx(a + a, b + b)
    BY CxOps
  <2> QED BY <1>2, <2>1
<1>5. multiply(Root(1, 4, FALSE), Re(b)) = Im(-b)
  <2>1. Re(b) \in CkFftComplex
    BY <1>2, CxOps DEF Re
  <2>2. \A z \in CkFftComplex :
          multiply(Root(1, 4, FALSE), z) = [real |-> z.imag, imag |-> (-z.real) % P]
    <3>1. ASSUME NEW inverse \in BOOLEAN, NEW z \in CkFftComplex
          PROVE  multiply(Root(1, 4, inverse), z) =
                   IF inverse THEN [real |-> (-z.imag) % P, imag |-> z.real]
                              ELSE [real |-> z.imag, imag |-> (-z.real) % P]
      BY TimesQuarterTurn
    <3> QED BY <3>1
  <2>3. (-(b % P)) % P = (-b) % P
    <3>1. b % P \in Int
      <4>1. \A x \in Float : x \in Int
        BY ModulusAssumption DEF Float
      <4> QED BY <4>1, ModOf
    <3>2. ASSUME NEW z \in Int, z = 0
          PROVE  (z - (b % P)) % P = (z - b) % P
      BY ModSum
    <3>3. (0 - (b % P)) % P = (0 - b) % P
      BY <1>2, <3>2
    <3>4. \A x \in Int : -x = 0 - x
      OBVIOUS
    <3>5. -(b % P) = 0 - (b % P) /\ -b = 0 - b
      BY <3>1, <3>4
    <3> QED BY <3>3, <3>5
  <2> QED BY <1>1, <2>1, <2>2, <2>3 DEF Re, Im, Cx
<1>6. Re(a) = [real |-> a % P, imag |-> 0]
  BY <1>1 DEF Re, Cx
<1> QED BY <1>3, <1>4, <1>5, <1>6 DEF Re, Im

(* The input of the transform, as real numbers.                             *)
LEMMA InputFloats ==
  ASSUME NEW n \in Nat, NEW y, HasFloats(y, n)
  PROVE  \A j \in 0..(n - 1) : /\ FloatAt(y, j) \in Int /\ FloatAt(y, j) % P = FloatAt(y, j)
                               /\ RealInput(y, n)[j] = Re(FloatAt(y, j))
                               /\ RealInput(y, n)[j] \in CkFftComplex
<1> SUFFICES ASSUME NEW j \in 0..(n - 1)
             PROVE  /\ FloatAt(y, j) \in Int /\ FloatAt(y, j) % P = FloatAt(y, j)
                    /\ RealInput(y, n)[j] = Re(FloatAt(y, j))
                    /\ RealInput(y, n)[j] \in CkFftComplex
  OBVIOUS
<1>1. P \in Nat \ {0} /\ 0 \in Float /\ \A x \in Float : x \in Int
  BY ModulusAssumption DEF Float
<1>2. FloatAt(y, j) \in Float
  BY DEF HasFloats
<1>3. FloatAt(y, j) % P = FloatAt(y, j) /\ 0 % P = 0
  BY <1>1, <1>2, FloatMod
<1>4. RealInput(y, n)[j] = Re(FloatAt(y, j))
  BY <1>3 DEF RealInput, Re, Cx
<1> QED BY <1>1, <1>2, <1>3, <1>4, ReOps

(* The scaled spectra of one, two and four floats.                          *)
LEMMA SpectrumOne ==
  ASSUME NEW y, HasFloats(y, 1)
  PROVE  SpectrumOf(y, 1)[0] = Re(2 * FloatAt(y, 0))
<1> DEFINE x == RealInput(y, 1)
           X == DFT(x, 1, FALSE)
<1>1. FloatAt(y, 0) \in Int /\ x[0] = Re(FloatAt(y, 0)) /\ x[0] \in CkFftComplex
  <2>1. 0 \in 0..(1 - 1) /\ 1 \in Nat
    OBVIOUS
  <2> QED BY <2>1, InputFloats
<1>2. X[0] = x[0]
  <2>1. \A inverse \in BOOLEAN : DFT(x, 1, inverse)[0] = x[0]
    <3> HIDE DEF x
    <3> QED BY <1>1, DftOne
  <2> QED BY <2>1
<1>3. SpectrumOf(y, 1)[0] = add(X[0], X[0])
  BY DEF SpectrumOf
<1> HIDE DEF x, X
<1> QED BY <1>1, <1>2, <1>3, ReOps

LEMMA SpectrumTwo ==
  ASSUME NEW y, HasFloats(y, 2), NEW a, a = FloatAt(y, 0), NEW b, b = FloatAt(y, 1)
  PROVE  /\ SpectrumOf(y, 2)[0] = Re(2 * (a + b))
         /\ SpectrumOf(y, 2)[1] = Re(2 * (a - b))
<1> DEFINE x == RealInput(y, 2)
           X == DFT(x, 2, FALSE)
<1>1. /\ a \in Int /\ x[0] = Re(a) /\ x[0] \in CkFftComplex
      /\ b \in Int /\ x[1] = Re(b) /\ x[1] \in CkFftComplex
  <2>1. 0 \in 0..(2 - 1) /\ 1 \in 0..(2 - 1) /\ 2 \in Nat
    OBVIOUS
  <2> QED BY <2>1, InputFloats
<1>2. X[0] = add(x[0], x[1]) /\ X[1] = subtract(x[0], x[1])
  <2>1. \A inverse \in BOOLEAN : /\ DFT(x, 2, inverse)[0] = add(x[0], x[1])
                                 /\ DFT(x, 2, inverse)[1] = subtract(x[0], x[1])
    <3> HIDE DEF x
    <3> QED BY <1>1, DftTwo
  <2> QED BY <2>1
<1>3. SpectrumOf(y, 2)[0] = add(X[0], X[0]) /\ SpectrumOf(y, 2)[1] = add(X[1], X[1])
  BY DEF SpectrumOf
<1> HIDE DEF x, X
<1>4. X[0] = Re(a + b) /\ X[1] = Re(a - b)
  BY <1>1, <1>2, ReOps
<1>5. a + b \in Int /\ a - b \in Int
  BY <1>1
<1> QED BY <1>3, <1>4, <1>5, ReOps

LEMMA SpectrumFour ==
  ASSUME NEW y, HasFloats(y, 4), NEW a, a = FloatAt(y, 0), NEW b, b = FloatAt(y, 1),
         NEW c, c = FloatAt(y, 2), NEW d, d = FloatAt(y, 3)
  PROVE  /\ SpectrumOf(y, 4)[0] = Re(2 * ((a + c) + (b + d)))
         /\ SpectrumOf(y, 4)[1] = Cx(2 * (a - c), 2 * (-(b - d)))
         /\ SpectrumOf(y, 4)[2] = Re(2 * ((a + c) - (b + d)))
<1> DEFINE x == RealInput(y, 4)
           e == [j \in 0..1 |-> x[2 * j]]
           o == [j \in 0..1 |-> x[2 * j + 1]]
           X == DFT(x, 4, FALSE)
           E == DFT(e, 2, FALSE)
           O == DFT(o, 2, FALSE)
<1>1. /\ a \in Int /\ x[0] = Re(a) /\ x[0] \in CkFftComplex
      /\ b \in Int /\ x[1] = Re(b) /\ x[1] \in CkFftComplex
      /\ c \in Int /\ x[2] = Re(c) /\ x[2] \in CkFftComplex
      /\ d \in Int /\ x[3] = Re(d) /\ x[3] \in CkFftComplex
  <2>1. 0 \in 0..(4 - 1) /\ 1 \in 0..(4 - 1) /\ 2 \in 0..(4 - 1) /\ 3 \in 0..(4 - 1) /\ 4 \in Nat
    OBVIOUS
  <2> QED BY <2>1, InputFloats
<1>13. /\ SpectrumOf(y, 4)[0] = add(X[0], X[0]) /\ SpectrumOf(y, 4)[1] = add(X[1], X[1])
       /\ SpectrumOf(y, 4)[2] = add(X[2], X[2])
  BY DEF SpectrumOf
<1> HIDE DEF x
<1>2. e[0] = x[0] /\ e[1] = x[2] /\ o[0] = x[1] /\ o[1] = x[3]
  OBVIOUS
<1>3. EvenOdd(x, e, o, 2)
  <2>1. \A j \in 0..(2 * 2 - 1) : j = 0 \/ j = 1 \/ j = 2 \/ j = 3
    OBVIOUS
  <2>2. \A j \in 0..(2 * 2 - 1) : x[j] \in CkFftComplex
    BY <1>1, <2>1
  <2>3. \A j \in 0..(2 - 1) : e[j] = x[2 * j] /\ o[j] = x[2 * j + 1]
    OBVIOUS
  <2> QED BY <2>2, <2>3 DEF EvenOdd
<1> HIDE DEF e, o
<1>4. /\ E[0] = add(x[0], x[2]) /\ E[1] = subtract(x[0], x[2])
      /\ O[0] = add(x[1], x[3]) /\ O[1] = subtract(x[1], x[3])
  <2>1. \A inverse \in BOOLEAN : /\ DFT(e, 2, inverse)[0] = add(e[0], e[1])
                                 /\ DFT(e, 2, inverse)[1] = subtract(e[0], e[1])
    BY <1>1, <1>2, DftTwo
  <2>2. \A inverse \in BOOLEAN : /\ DFT(o, 2, inverse)[0] = add(o[0], o[1])
                                 /\ DFT(o, 2, inverse)[1] = subtract(o[0], o[1])
    BY <1>1, <1>2, DftTwo
  <2> QED BY <1>2, <2>1, <2>2
<1>5. /\ X[0] = add(E[0], multiply(Root(0, 4, FALSE), O[0]))
      /\ X[1] = add(E[1], multiply(Root(1, 4, FALSE), O[1]))
      /\ X[2] = add(E[0], multiply(Root(2, 4, FALSE), O[0]))
  <2>1. ASSUME NEW inverse \in BOOLEAN, NEW h \in Nat \ {0}, Divisor(2 * h), EvenOdd(x, e, o, h),
               NEW k \in 0..(2 * h - 1), NEW l \in 0..(h - 1), k = l \/ k = l + h
        PROVE  DFT(x, 2 * h, inverse)[k] =
                 add(DFT(e, h, inverse)[l],
                     multiply(Root(k, 2 * h, inverse), DFT(o, h, inverse)[l]))
    BY <2>1, DftHalves
  <2>2. ASSUME NEW inverse \in BOOLEAN, NEW h, h = 2, NEW n, n = 4,
               NEW k \in 0..3, NEW l \in 0..1, k = l \/ k = l + 2
        PROVE  DFT(x, n, inverse)[k] =
                 add(DFT(e, h, inverse)[l], multiply(Root(k, n, inverse), DFT(o, h, inverse)[l]))
    <3>1. /\ h \in Nat \ {0} /\ n = 2 * h /\ k \in 0..(2 * h - 1) /\ l \in 0..(h - 1)
      BY <2>2
    <3>2. Divisor(n) /\ EvenOdd(x, e, o, h)
      <4>1. Divisor(4)
        BY RootQuarter
      <4> QED BY <1>3, <2>2, <4>1
    <3>3. k = l \/ k = l + h
      BY <2>2
    <3> HIDE <2>2
    <3> QED BY <2>1, <3>1, <3>2, <3>3
  <2> DEFINE Q(h, n) == \A k \in 0..3 : \A l \in 0..1 : (k = l \/ k = l + 2) =>
             DFT(x, n, FALSE)[k] =
                 add(DFT(e, h, FALSE)[l], multiply(Root(k, n, FALSE), DFT(o, h, FALSE)[l]))
  <2>3. ASSUME NEW h, h = 2, NEW n, n = 4
        PROVE  Q(h, n)
    <3> SUFFICES ASSUME NEW k \in 0..3, NEW l \in 0..1, k = l \/ k = l + 2
                 PROVE  DFT(x, n, FALSE)[k] =
                          add(DFT(e, h, FALSE)[l],
                              multiply(Root(k, n, FALSE), DFT(o, h, FALSE)[l]))
      OBVIOUS
    <3>1. \A inverse \in BOOLEAN :
            DFT(x, n, inverse)[k] =
              add(DFT(e, h, inverse)[l], multiply(Root(k, n, inverse), DFT(o, h, inverse)[l]))
      BY <2>2, <2>3
    <3> QED BY <3>1
  <2> HIDE DEF Q
  <2>4. Q(2, 4)
    BY <2>3
  <2>5. \A k \in 0..3 : \A l \in 0..1 : (k = l \/ k = l + 2) =>
             DFT(x, 4, FALSE)[k] =
                 add(DFT(e, 2, FALSE)[l], multiply(Root(k, 4, FALSE), DFT(o, 2, FALSE)[l]))
    BY ONLY <2>4 DEF Q
  <2>6. \A k \in 0..3 : \A l \in 0..1 : (k = l \/ k = l + 2) =>
             X[k] = add(E[l], multiply(Root(k, 4, FALSE), O[l]))
    BY ONLY <2>5 DEF X, E, O
  <2> HIDE DEF X, E, O
  <2>7. 0 \in 0..3 /\ 1 \in 0..3 /\ 2 \in 0..3 /\ 0 \in 0..1 /\ 1 \in 0..1 /\ 2 = 0 + 2
    OBVIOUS
  <2> QED BY ONLY <2>6, <2>7
<1> HIDE DEF X, E, O
<1>6. ASSUME NEW s \in Int, NEW u \in Int, NEW t \in Int, NEW v \in Int,
             s = a + c, u = a - c, t = b + d, v = b - d
      PROVE  /\ SpectrumOf(y, 4)[0] = Re(2 * (s + t))
             /\ SpectrumOf(y, 4)[1] = Cx(2 * u, 2 * (-v))
             /\ SpectrumOf(y, 4)[2] = Re(2 * (s - t))
  <2>1. E[0] = Re(s) /\ E[1] = Re(u) /\ O[0] = Re(t) /\ O[1] = Re(v)
    <3>1. /\ E[0] = add(Re(a), Re(c)) /\ E[1] = subtract(Re(a), Re(c))
          /\ O[0] = add(Re(b), Re(d)) /\ O[1] = subtract(Re(b), Re(d))
      BY ONLY <1>1, <1>4
    <3>2. /\ E[0] = Re(a + c) /\ E[1] = Re(a - c)
          /\ O[0] = Re(b + d) /\ O[1] = Re(b - d)
      BY <1>1, <3>1, ReOps
    <3> QED BY ONLY <1>6, <3>2
  <2>2. O[0] \in CkFftComplex /\ E[0] \in CkFftComplex
    BY ONLY <2>1, ReOps, s \in Int, t \in Int
  <2> HIDE <1>6
  <2>3. X[0] = Re(s + t)
    <3>1. multiply(Root(0, 4, FALSE), O[0]) = O[0]
      <4>1. \A inverse \in BOOLEAN : Root(0, 4, inverse) = One
        BY RootZero, RootQuarter
      <4> QED BY <2>2, <4>1, MultiplyOne
    <3>2. X[0] = add(Re(s), Re(t))
      BY ONLY <1>5, <2>1, <3>1
    <3> QED BY <3>2, ReOps
  <2>4. X[1] = Cx(u, -v)
    <3>1. multiply(Root(1, 4, FALSE), O[1]) = Im(-v)
      BY <2>1, ReOps
    <3>2. ASSUME NEW m \in Int
          PROVE  add(Re(u), Im(m)) = Cx(u, m)
      BY ReOps
    <3>3. add(Re(u), Im(-v)) = Cx(u, -v)
      <4>1. \A w \in Int : -w \in Int
        OBVIOUS
      <4> QED BY <3>2, <4>1
    <3> QED BY ONLY <1>5, <2>1, <3>1, <3>3
  <2>5. X[2] = Re(s - t)
    <3>1. add(E[0], multiply(Root(2, 4, FALSE), O[0])) = subtract(E[0], O[0])
      <4>1. \A inverse \in BOOLEAN :
              subtract(E[0], O[0]) = add(E[0], multiply(Root(2, 4, inverse), O[0]))
        BY <2>2, SubtractIsAdd
      <4> QED BY <4>1
    <3>2. X[2] = subtract(Re(s), Re(t))
      BY ONLY <1>5, <2>1, <3>1
    <3> QED BY <3>2, ReOps
  <2>6. ASSUME NEW p \in Int, NEW q \in Int
        PROVE  add(Re(p), Re(p)) = Re(2 * p) /\ add(Cx(p, q), Cx(p, q)) = Cx(2 * p, 2 * q)
    BY ReOps
  <2>7. s + t \in Int /\ s - t \in Int /\ -v \in Int
    OBVIOUS
  <2> QED BY <1>13, <2>3, <2>4, <2>5, <2>6, <2>7
<1>7. a + c \in Int /\ a - c \in Int /\ b + d \in Int /\ b - d \in Int
  BY <1>1
<1> HIDE <1>1, <1>2, <1>3, <1>4, <1>5
<1> QED BY <1>6, <1>7

(* Rests may be taken early or late.                                        *)
LEMMA ModMixed ==
  ASSUME NEW p \in Int, NEW q \in Int, NEW r \in Int
  PROVE  /\ ((p % P) + (q % P)) % P = (p + q) % P
         /\ ((p % P) - (q % P)) % P = (p - q) % P
         /\ ((p % P) + (q % P) + 2 * (r % P)) % P = (p + q + 2 * r) % P
         /\ ((p % P) + (q % P) - 2 * (r % P)) % P = (p + q - 2 * r) % P
         /\ ((p % P) - (q % P) + 2 * (r % P)) % P = (p - q + 2 * r) % P
         /\ ((p % P) - (q % P) - 2 * (r % P)) % P = (p - q - 2 * r) % P
         /\ (-(p % P)) % P = (-p) % P
<1>1. PICK i \in Int, j \in Int, k \in Int :
        p % P = p + i * P /\ q % P = q + j * P /\ r % P = r + k * P
  BY ModOf
<1>2. P \in Nat \ {0}
  BY ModulusAssumption
<1> DEFINE u == p % P
           v == q % P
           w == r % P
<1>3. u \in Int /\ v \in Int /\ w \in Int /\ u = p + i * P /\ v = q + j * P /\ w = r + k * P
  BY <1>1, <1>2
<1> HIDE DEF u, v, w
<1>4. /\ u + v = (p + q) + (i + j) * P /\ u - v = (p - q) + (i - j) * P
      /\ u + v + 2 * w = (p + q + 2 * r) + (i + j + 2 * k) * P
      /\ u + v - 2 * w = (p + q - 2 * r) + (i + j - 2 * k) * P
      /\ u - v + 2 * w = (p - q + 2 * r) + (i - j + 2 * k) * P
      /\ u - v - 2 * w = (p - q - 2 * r) + (i - j - 2 * k) * P
      /\ -u = (-p) + (-i) * P
  BY <1>2, <1>3
<1>5. \A a, b, c \in Int : a = b + c * P => a % P = b % P
  BY ModSame
<1>6. /\ (u + v) % P = (p + q) % P /\ (u - v) % P = (p - q) % P
      /\ (u + v + 2 * w) % P = (p + q + 2 * r) % P
      /\ (u + v - 2 * w) % P = (p + q - 2 * r) % P
  <2>1. /\ u + v \in Int /\ p + q \in Int /\ i + j \in Int
        /\ u - v \in Int /\ p - q \in Int /\ i - j \in Int
        /\ u + v + 2 * w \in Int /\ p + q + 2 * r \in Int /\ i + j + 2 * k \in Int
        /\ u + v - 2 * w \in Int /\ p + q - 2 * r \in Int /\ i + j - 2 * k \in Int
    BY <1>3
  <2> QED BY ONLY <1>4, <1>5, <2>1
<1>7. /\ (u - v + 2 * w) % P = (p - q + 2 * r) % P
      /\ (u - v - 2 * w) % P = (p - q - 2 * r) % P
      /\ (-u) % P = (-p) % P
  <2>1. /\ u - v + 2 * w \in Int /\ p - q + 2 * r \in Int /\ i - j + 2 * k \in Int
        /\ u - v - 2 * w \in Int /\ p - q - 2 * r \in Int /\ i - j - 2 * k \in Int
        /\ -u \in Int /\ -p \in Int /\ -i \in Int
    BY <1>3
  <2> QED BY ONLY <1>4, <1>5, <2>1
<1> QED BY <1>6, <1>7 DEF u, v, w

(* The parts of such a number.                                              *)
LEMMA CxFields ==
  ASSUME NEW a \in Int, NEW b \in Int
  PROVE  /\ Re(a) = [real |-> a % P, imag |-> 0]
         /\ Re(a).real = a % P /\ Re(a).imag = 0
         /\ Cx(a, b).real = a % P /\ Cx(a, b).imag = b % P
<1>1. Re(a) = [real |-> a % P, imag |-> 0]
  BY ReOps
<1> QED BY <1>1 DEF Cx

(* A buffer that is long enough holds the floats.                           *)
LEMMA HasFloatsOf ==
  ASSUME MemOK, NEW b \in Buffers, NEW count \in Nat, Pairs(count) <= BufLen[b]
  PROVE  /\ HasFloats(mem[b], count)
         /\ \A j \in 0..(count - 1) : /\ float(b, j) = FloatAt(mem[b], j)
                                      /\ FloatAt(mem[b], j) \in Int
BY FloatType DEF HasFloats, float, FloatAt

(* The trivial counts, right.                                               *)
LEMMA RealTrivialRight ==
  ASSUME MemOK, NEW src \in Buffers, NEW dst \in Buffers, NEW count \in {1, 2, 4},
         Pairs(count) <= BufLen[src], HalfSpectrum(count) <= BufLen[dst]
  PROVE  HasSpectrum(count, mem[src], RealTrivial(src, dst, count))
<1> DEFINE x == mem[src]
           y == mem[dst]
           S == SpectrumOf(x, count)
<1>1. /\ HasFloats(x, count)
      /\ \A j \in 0..(count - 1) : float(src, j) = FloatAt(x, j) /\ FloatAt(x, j) \in Int
  BY HasFloatsOf
<1>2. y \in [0..(BufLen[dst] - 1) -> CkFftComplex] /\ BufLen[dst] \in Nat
  BY BufferAssumption DEF MemOK, BufferType
<1>3. CASE count = 1
  <2>1. PICK a \in Int : a = FloatAt(x, 0) /\ a = float(src, 0)
    BY <1>1, <1>3
  <2>2. S[0] = Re(2 * a)
    BY <1>1, <1>3, <2>1, SpectrumOne
  <2>3. Re(2 * a) = [real |-> Twice(a), imag |-> 0]
    BY CxFields DEF Twice
  <2>4. 0 \in DOMAIN y
    BY <1>2, <1>3 DEF HalfSpectrum
  <2>5. RealTrivial(src, dst, count)[0] = [real |-> Twice(a), imag |-> 0]
    BY <1>3, <2>1, <2>4 DEF RealTrivial
  <2>6. \A k \in 0..(count \div 2) : k = 0
    BY <1>3
  <2> QED BY <2>2, <2>3, <2>5, <2>6 DEF HasSpectrum
<1>4. CASE count = 2
  <2>1. PICK a \in Int, b \in Int : /\ a = FloatAt(x, 0) /\ a = float(src, 0)
                                    /\ b = FloatAt(x, 1) /\ b = float(src, 1)
    BY <1>1, <1>4
  <2>2. S[0] = Re(2 * (a + b)) /\ S[1] = Re(2 * (a - b))
    BY <1>1, <1>4, <2>1, SpectrumTwo
  <2>3. /\ Re(2 * (a + b)) = [real |-> Twice(a + b), imag |-> 0]
        /\ Re(2 * (a - b)) = [real |-> Twice(a - b), imag |-> 0]
    BY CxFields DEF Twice
  <2>4. 0 \in DOMAIN y /\ 1 \in DOMAIN y
    BY <1>2, <1>4 DEF HalfSpectrum
  <2>5. /\ RealTrivial(src, dst, count)[0] = [real |-> Twice(a + b), imag |-> 0]
        /\ RealTrivial(src, dst, count)[1] = [real |-> Twice(a - b), imag |-> 0]
    BY <1>4, <2>1, <2>4 DEF RealTrivial
  <2>6. \A k \in 0..(count \div 2) : k = 0 \/ k = 1
    BY <1>4
  <2> QED BY <2>2, <2>3, <2>5, <2>6 DEF HasSpectrum
<1>5. CASE count = 4
  <2>1. PICK a \in Int, b \in Int, c \in Int, d \in Int :
          /\ a = FloatAt(x, 0) /\ a = float(src, 0) /\ b = FloatAt(x, 1) /\ b = float(src, 1)
          /\ c = FloatAt(x, 2) /\ c = float(src, 2) /\ d = FloatAt(x, 3) /\ d = float(src, 3)
    BY <1>1, <1>5
  <2>2. /\ S[0] = Re(2 * ((a + c) + (b + d))) /\ S[1] = Cx(2 * (a - c), 2 * (-(b - d)))
        /\ S[2] = Re(2 * ((a + c) - (b + d)))
    BY <1>1, <1>5, <2>1, SpectrumFour
  <2>3. /\ S[0] = [real |-> Twice(a + c + b + d), imag |-> 0]
        /\ S[2] = [real |-> Twice(a + c - b - d), imag |-> 0]
    <3>1. (a + c) + (b + d) = a + c + b + d /\ (a + c) - (b + d) = a + c - b - d
      OBVIOUS
    <3>2. \A p \in Int : Re(2 * p) = [real |-> Twice(p), imag |-> 0]
      BY CxFields DEF Twice
    <3>3. (a + c) + (b + d) \in Int /\ (a + c) - (b + d) \in Int
      OBVIOUS
    <3>4. /\ Re(2 * ((a + c) + (b + d))) = [real |-> Twice((a + c) + (b + d)), imag |-> 0]
          /\ Re(2 * ((a + c) - (b + d))) = [real |-> Twice((a + c) - (b + d)), imag |-> 0]
      BY <3>2, <3>3
    <3> HIDE DEF S
    <3> QED BY <2>2, <3>1, <3>4
  <2>4. S[1] = [real |-> Twice(a - c), imag |-> Neg(Twice(b - d))]
    <3>1. \A p \in Int : (-(p % P)) % P = (-p) % P
      BY ModMixed
    <3>2. (-((2 * (b - d)) % P)) % P = (-(2 * (b - d))) % P
      BY <3>1
    <3>3. -(2 * (b - d)) = 2 * (-(b - d))
      OBVIOUS
    <3> QED BY <2>2, <3>2, <3>3 DEF Cx, Twice, Neg
  <2>5. 0 \in DOMAIN y /\ 1 \in DOMAIN y /\ 2 \in DOMAIN y
    BY <1>2, <1>5 DEF HalfSpectrum
  <2>6. /\ RealTrivial(src, dst, count)[0] = [real |-> Twice(a + c + b + d), imag |-> 0]
        /\ RealTrivial(src, dst, count)[1] = [real |-> Twice(a - c), imag |-> Neg(Twice(b - d))]
        /\ RealTrivial(src, dst, count)[2] = [real |-> Twice(a + c - b - d), imag |-> 0]
    BY <1>5, <2>1, <2>5 DEF RealTrivial
  <2>7. \A k \in 0..(count \div 2) : k = 0 \/ k = 1 \/ k = 2
    BY <1>5
  <2> QED BY <2>3, <2>4, <2>6, <2>7 DEF HasSpectrum
<1> QED BY <1>3, <1>4, <1>5

LEMMA RealInverseTrivialRight ==
  ASSUME MemOK, NEW src \in Buffers, NEW dst \in Buffers, NEW count \in {1, 2, 4},
         Pairs(count) <= BufLen[dst],
         NEW x, HasFloats(x, count), SpectrumGiven(count, x, mem[src])
  PROVE  ScaledBack(count, x, RealInverseTrivial(src, dst, count))
<1> DEFINE X == mem[src]
           y == mem[dst]
           S == SpectrumOf(x, count)
           new == RealInverseTrivial(src, dst, count)
<1>1. \A j \in 0..(count - 1) : FloatAt(x, j) \in Int
  <2>1. count \in Nat
    OBVIOUS
  <2> QED BY <2>1, InputFloats
<1>2. y \in [0..(BufLen[dst] - 1) -> CkFftComplex] /\ BufLen[dst] \in Nat
  BY BufferAssumption DEF MemOK, BufferType
<1>3. \A k \in 0..(count \div 2) :
        X[k].real = S[k].real /\ (k # 0 /\ 2 * k # count => X[k] = S[k])
  BY DEF SpectrumGiven
<1>4. CASE count = 1
  <2>1. PICK a \in Int : a = FloatAt(x, 0)
    BY <1>1, <1>4
  <2>2. S[0] = Re(2 * a)
    BY <1>4, <2>1, SpectrumOne
  <2>3. X[0].real = (2 * a) % P
    BY <1>3, <1>4, <2>2, CxFields
  <2>4. 0 \in DOMAIN y /\ "real" \in DOMAIN y[0]
    BY <1>2, <1>4 DEF Pairs, CkFftComplex
  <2>5. new[0].real = X[0].real
    BY <1>4, <2>4 DEF RealInverseTrivial
  <2>6. FloatAt(new, 0) = new[0].real
    BY DEF FloatAt
  <2>7. \A j \in 0..(count - 1) : j = 0
    BY <1>4
  <2>8. 2 * count * a = 2 * a
    BY <1>4
  <2> HIDE DEF new
  <2> QED BY <2>1, <2>3, <2>5, <2>6, <2>7, <2>8 DEF ScaledBack, new
<1>5. CASE count = 2
  <2>1. PICK a \in Int, b \in Int : a = FloatAt(x, 0) /\ b = FloatAt(x, 1)
    BY <1>1, <1>5
  <2>2. S[0] = Re(2 * (a + b)) /\ S[1] = Re(2 * (a - b))
    BY <1>5, <2>1, SpectrumTwo
  <2>3. X[0].real = (2 * (a + b)) % P /\ X[1].real = (2 * (a - b)) % P
    BY <1>3, <1>5, <2>2, CxFields
  <2>4. 0 \in DOMAIN y
    BY <1>2, <1>5 DEF Pairs
  <2>5. new[0] = [real |-> (X[0].real + X[1].real) % P, imag |-> (X[0].real - X[1].real) % P]
    BY <1>5, <2>4 DEF RealInverseTrivial
  <2>6. /\ (X[0].real + X[1].real) % P = (4 * a) % P
        /\ (X[0].real - X[1].real) % P = (4 * b) % P
    <3>1. \A p, q \in Int : /\ ((p % P) + (q % P)) % P = (p + q) % P
                            /\ ((p % P) - (q % P)) % P = (p - q) % P
      BY ModMixed
    <3>2. 2 * (a + b) \in Int /\ 2 * (a - b) \in Int
      OBVIOUS
    <3>3. 2 * (a + b) + 2 * (a - b) = 4 * a /\ 2 * (a + b) - 2 * (a - b) = 4 * b
      OBVIOUS
    <3>4. /\ (((2 * (a + b)) % P) + ((2 * (a - b)) % P)) % P = (2 * (a + b) + 2 * (a - b)) % P
          /\ (((2 * (a + b)) % P) - ((2 * (a - b)) % P)) % P = (2 * (a + b) - 2 * (a - b)) % P
      BY ONLY <3>1, <3>2
    <3> QED BY ONLY <2>3, <3>3, <3>4
  <2>7. FloatAt(new, 0) = new[0].real /\ FloatAt(new, 1) = new[0].imag
    BY DEF FloatAt
  <2>8. \A j \in 0..(count - 1) : j = 0 \/ j = 1
    BY <1>5
  <2>9. 2 * count * a = 4 * a /\ 2 * count * b = 4 * b
    BY <1>5
  <2> HIDE DEF new
  <2> QED BY <2>1, <2>5, <2>6, <2>7, <2>8, <2>9 DEF ScaledBack, new
<1>6. CASE count = 4
  <2>1. PICK a \in Int, b \in Int, c \in Int, d \in Int :
          a = FloatAt(x, 0) /\ b = FloatAt(x, 1) /\ c = FloatAt(x, 2) /\ d = FloatAt(x, 3)
    BY <1>1, <1>6
  <2>2. /\ S[0] = Re(2 * ((a + c) + (b + d))) /\ S[1] = Cx(2 * (a - c), 2 * (-(b - d)))
        /\ S[2] = Re(2 * ((a + c) - (b + d)))
    BY <1>6, <2>1, SpectrumFour
  <2> DEFINE p == 2 * ((a + c) + (b + d))
             q == 2 * ((a + c) - (b + d))
             r == 2 * (a - c)
             s == 2 * (-(b - d))
  <2>3. p \in Int /\ q \in Int /\ r \in Int /\ s \in Int
    OBVIOUS
  <2>4. /\ p + q + 2 * r = 8 * a /\ p + q - 2 * r = 8 * c
        /\ p - q - 2 * s = 8 * b /\ p - q + 2 * s = 8 * d
    OBVIOUS
  <2> HIDE DEF p, q, r, s
  <2>5. S[0] = Re(p) /\ S[1] = Cx(r, s) /\ S[2] = Re(q)
    BY <2>2 DEF p, q, r, s
  <2>6. X[0].real = p % P /\ X[2].real = q % P /\ X[1].real = r % P /\ X[1].imag = s % P
    <3>1. X[0].real = S[0].real /\ X[2].real = S[2].real /\ X[1] = S[1]
      BY <1>3, <1>6
    <3> QED BY <2>3, <2>5, <3>1, CxFields
  <2>7. 0 \in DOMAIN y /\ 1 \in DOMAIN y
    BY <1>2, <1>6 DEF Pairs
  <2>8. /\ new[0] = [real |-> (X[0].real + X[2].real + 2 * X[1].real) % P,
                     imag |-> (X[0].real - X[2].real - 2 * X[1].imag) % P]
        /\ new[1] = [real |-> (X[0].real + X[2].real - 2 * X[1].real) % P,
                     imag |-> (X[0].real - X[2].real + 2 * X[1].imag) % P]
    <3> DEFINE U == [real |-> (X[0].real + X[2].real + 2 * X[1].real) % P,
                     imag |-> (X[0].real - X[2].real - 2 * X[1].imag) % P]
               V == [real |-> (X[0].real + X[2].real - 2 * X[1].real) % P,
                     imag |-> (X[0].real - X[2].real + 2 * X[1].imag) % P]
    <3>1. new = [y EXCEPT ![0] = U, ![1] = V]
      <4>1. /\ X[0].real \in Int /\ X[1].real \in Int /\ X[2].real \in Int
            /\ X[1].imag \in Int /\ P \in Int
        BY <2>3, <2>6, ModOf, ModulusAssumption DEF Float
      <4> QED BY <1>6, <4>1 DEF RealInverseTrivial
    <3> HIDE DEF U, V, new, y
    <3>2. new[0] = U /\ new[1] = V
      BY ONLY <2>7, <3>1
    <3> HIDE DEF X
    <3> QED BY ONLY <3>2, Zenon DEF U, V
  <2>9. /\ ((p % P) + (q % P) + 2 * (r % P)) % P = (8 * a) % P
        /\ ((p % P) + (q % P) - 2 * (r % P)) % P = (8 * c) % P
    <3>1. ((p % P) + (q % P) + 2 * (r % P)) % P = (p + q + 2 * r) % P
      BY ONLY <2>3, ModMixed
    <3>2. ((p % P) + (q % P) - 2 * (r % P)) % P = (p + q - 2 * r) % P
      BY ONLY <2>3, ModMixed
    <3> QED BY ONLY <2>4, <3>1, <3>2, Zenon
  <2>10. /\ ((p % P) - (q % P) - 2 * (s % P)) % P = (8 * b) % P
         /\ ((p % P) - (q % P) + 2 * (s % P)) % P = (8 * d) % P
    <3>1. ((p % P) - (q % P) - 2 * (s % P)) % P = (p - q - 2 * s) % P
      BY ONLY <2>3, ModMixed
    <3>2. ((p % P) - (q % P) + 2 * (s % P)) % P = (p - q + 2 * s) % P
      BY ONLY <2>3, ModMixed
    <3> QED BY ONLY <2>4, <3>1, <3>2, Zenon
  <2>11. /\ new[0].real = (8 * a) % P /\ new[0].imag = (8 * b) % P
         /\ new[1].real = (8 * c) % P /\ new[1].imag = (8 * d) % P
    BY ONLY <2>6, <2>8, <2>9, <2>10
  <2>12. /\ FloatAt(new, 0) = new[0].real /\ FloatAt(new, 1) = new[0].imag
         /\ FloatAt(new, 2) = new[1].real /\ FloatAt(new, 3) = new[1].imag
    BY DEF FloatAt
  <2>13. \A j \in 0..(count - 1) : j = 0 \/ j = 1 \/ j = 2 \/ j = 3
    BY <1>6
  <2>14. /\ 2 * count * a = 8 * a /\ 2 * count * b = 8 * b
         /\ 2 * count * c = 8 * c /\ 2 * count * d = 8 * d
    BY <1>6
  <2> HIDE DEF new
  <2> QED BY <2>1, <2>11, <2>12, <2>13, <2>14 DEF ScaledBack, new
<1> QED BY <1>4, <1>5, <1>6

-----------------------------------------------------------------------------
(***************************************************************************)
(* The loops: what an iteration replaces, scalar or vector, in place or     *)
(* not, and how far it brings the loop; then the middle element.            *)
(***************************************************************************)

(* exp0 and exp1 are the roots of a transform of 2*h elements.              *)
TableRoots(f, h, table, inverse) ==
  /\ h \in Nat \ {0} /\ f.count = 2 * h /\ Divisor(2 * h)
  /\ \A k \in 0..h : /\ Exp0(f, table, k) = Root(k, 2 * h, inverse)
                     /\ Exp1(f, table, k) = Root(h - k, 2 * h, inverse)

(* An exact table gives an iteration the roots it wants.                    *)
LEMMA RealExpRoot ==
  ASSUME NEW f \in OKRealFrames, ExactTable(f), NEW inverse \in BOOLEAN,
         HasTable(f.context, inverse), NEW table, table = TableOf(f.context, inverse),
         NEW h, h = f.count \div 2
  PROVE  TableRoots(f, h, table, inverse)
<1> DEFINE max == context[f.context].maxCount
           n == f.count
           e == max \div n
<1>1. /\ isPowerOfTwo(n) /\ n >= 8 /\ n <= max
      /\ n \in Nat /\ f.context \in Contexts
  BY RealFrameFields DEF RealFrameOK
<1>2. max \in Nat \ {0} /\ Divisor(max)
  BY <1>1, TableType DEF ExactTable
<1>3. h \in Nat \ {0} /\ n = 2 * h
  BY <1>1, RealCounts
<1>4. e \in Nat \ {0} /\ n * e = max
  <2>1. isPowerOfTwo(max)
    BY DEF HasTable
  <2> HIDE DEF max
  <2> QED BY <1>1, <1>2, <2>1, PowerOfTwoQuotient
<1>5. table = [j \in 0..(max - 1) |-> Root(j, max, inverse)]
  BY DEF HasTable
<1>6. \A k \in 0..h : Exp0(f, table, k) = table[k * e] /\ Exp1(f, table, k) = table[(h - k) * e]
  BY DEF Exp0, Exp1
<1> HIDE DEF max, n, e
<1>7. ASSUME NEW j \in 0..h
      PROVE  table[j * e] = Root(j, n, inverse) /\ Divisor(n)
  <2>1. j * e <= h * e /\ j * e \in Nat
    BY <1>3, <1>4, MulMonotone
  <2>2. n * e = h * e + h * e /\ h * e \in Nat
    BY <1>3, <1>4
  <2> DEFINE x == j * e
             y == h * e
  <2>3. x <= y /\ x \in Nat /\ y \in Nat /\ y + y = max
    BY <1>4, <2>1, <2>2
  <2> HIDE DEF x, y
  <2>4. x \in 0..(max - 1)
    BY <1>2, <2>3
  <2>5. table[x] = Root(x, max, inverse)
    BY <1>5, <2>4
  <2>6. Root(j * e, n * e, inverse) = Root(j, n, inverse) /\ Divisor(n)
    <3>1. n \in Nat \ {0} /\ j \in Nat
      BY <1>1
    <3>2. Divisor(n * e)
      BY <1>2, <1>4
    <3> QED BY <1>4, <3>1, <3>2, RootScale
  <2> QED BY <1>4, <2>5, <2>6 DEF x
<1>8. Divisor(n)
  <2>1. 0 \in 0..h
    BY <1>3
  <2> QED BY <1>7, <2>1
<1>9. ASSUME NEW k \in 0..h
      PROVE  /\ Exp0(f, table, k) = Root(k, n, inverse)
             /\ Exp1(f, table, k) = Root(h - k, n, inverse)
  <2>1. h - k \in 0..h
    BY <1>3
  <2> QED BY <1>6, <1>7, <2>1
<1> QED BY <1>3, <1>8, <1>9 DEF TableRoots, n

(* What an iteration stores for element k, and the elements that it and     *)
(* nothing else replaces.                                                   *)
Goes(f, h, from, table, inverse, V, k) ==
  LET new == Untangle(from[k], from[h - k], Exp0(f, table, k), Exp1(f, table, k), inverse)
  IN  new[1] = V[k] /\ new[2] = V[h - k]

Filled(X, y, D, V, R) == \A j \in D : X[j] = IF j \in R THEN V[j] ELSE y[j]

(* A scalar iteration replaces two elements.                                *)
LEMMA IterationFills ==
  ASSUME NEW f, NEW h \in Nat, f.count \div 2 = h, f.i \in 0..h,
         NEW from, NEW table, NEW inverse \in BOOLEAN, NEW V,
         Goes(f, h, from, table, inverse, V, f.i),
         NEW D, NEW to \in [D -> CkFftComplex]
  PROVE  Filled(Iteration(f, from, to, table, inverse), to, D, V, {f.i, h - f.i})
<1> DEFINE last == h - f.i
           new == Untangle(from[f.i], from[last], Exp0(f, table, f.i), Exp1(f, table, f.i),
                           inverse)
<1>1. Iteration(f, from, to, table, inverse) = [to EXCEPT ![f.i] = new[1], ![last] = new[2]]
  BY DEF Iteration
<1>2. new[1] = V[f.i] /\ new[2] = V[last]
  BY DEF Goes
<1> HIDE DEF new
<1> SUFFICES ASSUME NEW j \in D
             PROVE  Iteration(f, from, to, table, inverse)[j] =
                      IF j \in {f.i, last} THEN V[j] ELSE to[j]
  BY DEF Filled
<1> HIDE DEF last
<1> QED BY <1>1, <1>2

(* A vector replaces four.                                                  *)
LEMMA StoreLane ==
  ASSUME NEW D \in SUBSET Int, NEW buf, DOMAIN buf = D, NEW at \in Int, NEW v,
         \A l \in Lanes : at + l \in D
  PROVE  /\ DOMAIN Store(buf, at, v) = D
         /\ \A j \in D : Store(buf, at, v)[j] = IF j \in at..(at + 3) THEN v[j - at] ELSE buf[j]
<1>1. DOMAIN buf \cup {at + l : l \in Lanes} = D
  OBVIOUS
<1>2. Store(buf, at, v) = [j \in D |-> IF j - at \in Lanes THEN v[j - at] ELSE buf[j]]
  BY <1>1 DEF Store
<1>3. \A j \in D : j - at \in Lanes <=> j \in at..(at + 3)
  BY DEF Lanes
<1> QED BY <1>2, <1>3

(* A vector iteration replaces two vectors, both loaded before either is    *)
(* stored.                                                                  *)
LEMMA VectorIterationFills ==
  ASSUME NEW f, NEW h \in Nat, f.count \div 2 = h, f.i \in Nat, f.i + 3 <= h,
         NEW from, NEW table, NEW inverse \in BOOLEAN, NEW V,
         \A k \in (f.i)..(f.i + 3) : Goes(f, h, from, table, inverse, V, k),
         NEW D \in SUBSET Int, 0..h \subseteq D, NEW to \in [D -> CkFftComplex]
  PROVE  Filled(VectorIteration(f, from, to, table, inverse), to, D, V,
                ((f.i)..(f.i + 3)) \cup ((h - f.i - 3)..(h - f.i)))
<1> DEFINE i == f.i
           p1 == h - 3 - f.i
           z0 == Load(from, f.i)
           z1 == Reversed(Load(from, p1))
           new == [l \in Lanes |-> Untangle(z0[l], z1[l], Exp0(f, table, f.i + l),
                                            Exp1(f, table, f.i + l), inverse)]
           near == [l \in Lanes |-> new[l][1]]
           far == Reversed([l \in Lanes |-> new[l][2]])
           first == Store(to, f.i, near)
           final == Store(first, p1, far)
<1>1. i \in Nat /\ i + 3 <= h /\ p1 = h - 3 - i /\ p1 \in Int
  OBVIOUS
<1>2. VectorIteration(f, from, to, table, inverse) = final
  BY DEF VectorIteration
<1>3. \A l \in Lanes : z0[l] = from[i + l] /\ z1[l] = from[h - (i + l)]
  <2>1. \A l \in Lanes : 3 - l \in Lanes /\ (h - 3 - i) + (3 - l) = h - (i + l)
    BY <1>1 DEF Lanes
  <2> QED BY <2>1 DEF Load, Reversed
<1>4. \A l \in Lanes : new[l][1] = V[i + l] /\ new[l][2] = V[h - (i + l)]
  <2> SUFFICES ASSUME NEW l \in Lanes
               PROVE  new[l][1] = V[i + l] /\ new[l][2] = V[h - (i + l)]
    OBVIOUS
  <2>1. Goes(f, h, from, table, inverse, V, i + l)
    <3>1. i + l \in i..(i + 3)
      BY <1>1 DEF Lanes
    <3> QED BY <3>1
  <2>2. new[l] = Untangle(from[i + l], from[h - (i + l)], Exp0(f, table, i + l),
                          Exp1(f, table, i + l), inverse)
    BY <1>3
  <2> QED BY <2>1, <2>2 DEF Goes
<1> HIDE DEF new, z0, z1
<1>5. \A j \in i..(i + 3) : near[j - i] = V[j]
  <2> SUFFICES ASSUME NEW j \in i..(i + 3)
               PROVE  near[j - i] = V[j]
    OBVIOUS
  <2>1. j - i \in Lanes /\ i + (j - i) = j
    BY <1>1 DEF Lanes
  <2> QED BY <1>4, <2>1
<1>6. \A j \in p1..(p1 + 3) : far[j - p1] = V[j]
  <2> SUFFICES ASSUME NEW j \in p1..(p1 + 3)
               PROVE  far[j - p1] = V[j]
    OBVIOUS
  <2>1. j - p1 \in Lanes /\ 3 - (j - p1) \in Lanes /\ h - (i + (3 - (j - p1))) = j
    BY <1>1 DEF Lanes
  <2>2. far[j - p1] = new[3 - (j - p1)][2]
    BY <2>1 DEF Reversed
  <2> QED BY <1>4, <2>1, <2>2
<1>7. \A l \in Lanes : i + l \in D /\ p1 + l \in D
  <2>1. \A l \in 0..3 : i + l \in 0..h /\ (h - 3 - i) + l \in 0..h
    BY <1>1
  <2> QED BY <2>1 DEF Lanes
<1> HIDE DEF near, far
<1>8. /\ DOMAIN first = D
      /\ \A j \in D : first[j] = IF j \in i..(i + 3) THEN near[j - i] ELSE to[j]
  BY <1>1, <1>7, StoreLane
<1> HIDE DEF first
<1>9. \A j \in D : final[j] = IF j \in p1..(p1 + 3) THEN far[j - p1] ELSE first[j]
  BY <1>1, <1>7, <1>8, StoreLane
<1> HIDE DEF final
<1>10. ASSUME NEW j \in D
       PROVE  final[j] = IF j \in (i..(i + 3)) \cup (p1..(p1 + 3)) THEN V[j] ELSE to[j]
  BY <1>5, <1>6, <1>8, <1>9
<1>11. p1 = h - i - 3 /\ p1 + 3 = h - i
  BY <1>1
<1>12. \A j \in D : final[j] =
           IF j \in (i..(i + 3)) \cup ((h - i - 3)..(h - i)) THEN V[j] ELSE to[j]
  BY <1>10, <1>11
<1> QED BY <1>2, <1>12 DEF Filled

AllUntangle(h, Z, S) == \A k \in 0..h : Untangles(h, Z, S, k)

FourOf(h, Z) == [k \in 0..h |-> Four(Z[k % h])]

(* Both results of an iteration are the first result, of the elements in    *)
(* either order.                                                            *)
EitherOrder(z0, z1, e0, e1) ==
  /\ Untangle(z0, z1, e0, e1, FALSE)[1] = Untangled(z0, z1, e0, e1)
  /\ Untangle(z0, z1, e0, e1, FALSE)[2] = Untangled(z1, z0, e1, e0)
  /\ Untangle(z0, z1, e0, e1, TRUE)[1] = Tangled(z0, z1, e0, e1)
  /\ Untangle(z0, z1, e0, e1, TRUE)[2] = Tangled(z1, z0, e1, e0)

LEMMA UntangleBoth ==
  ASSUME NEW z0 \in CkFftComplex, NEW z1 \in CkFftComplex,
         NEW e0 \in CkFftComplex, NEW e1 \in CkFftComplex
  PROVE  EitherOrder(z0, z1, e0, e1)
<1>1. \A inverse \in BOOLEAN :
        Untangle(z0, z1, e0, e1, inverse)[2] = Untangle(z1, z0, e1, e0, inverse)[1]
  BY UntangleSwap
<1>2. /\ Untangle(z0, z1, e0, e1, FALSE)[2] = Untangle(z1, z0, e1, e0, FALSE)[1]
      /\ Untangle(z0, z1, e0, e1, TRUE)[2] = Untangle(z1, z0, e1, e0, TRUE)[1]
  BY <1>1
<1> QED BY <1>2 DEF EitherOrder, Untangled, Tangled

(* Elements k and h - k of the two scaled transforms, and their roots.      *)
PairUntangles(h, k, l, z0, z1, S0, S1) ==
  /\ l \in 0..h /\ z0 \in CkFftComplex /\ z1 \in CkFftComplex
  /\ S0 \in CkFftComplex /\ S1 \in CkFftComplex
  /\ \A e \in CkFftComplex :
       /\ Untangled(z0, z1, Root(k, 2 * h, FALSE), e) = S0
       /\ Untangled(z1, z0, Root(l, 2 * h, FALSE), e) = S1
       /\ Tangled(S0, S1, Root(k, 2 * h, TRUE), e) = Four(z0)
       /\ Tangled(S1, S0, Root(l, 2 * h, TRUE), e) = Four(z1)

(* What is known of two opposite elements.                                  *)
LEMMA ElementPair ==
  ASSUME NEW h \in Nat \ {0}, NEW Z, NEW S, AllUntangle(h, Z, S),
         NEW k \in 0..h, NEW l, l = h - k
  PROVE  PairUntangles(h, k, l, Z[k % h], Z[l % h], S[k], S[l])
<1>1. l \in 0..h /\ h - l = k /\ k \in Nat /\ l \in Nat
  OBVIOUS
<1>2. Untangles(h, Z, S, k) /\ Untangles(h, Z, S, l)
  BY <1>1 DEF AllUntangle
<1> QED BY <1>1, <1>2 DEF Untangles, PairUntangles

(* What an iteration makes of element k, when the two it reads are still    *)
(* there.                                                                   *)
LEMMA ElementGoes ==
  ASSUME NEW f, NEW h \in Nat \ {0}, NEW Z, NEW S, AllUntangle(h, Z, S),
         NEW k \in 0..h, NEW l, l = h - k, NEW from, NEW table, NEW inverse \in BOOLEAN,
         Exp0(f, table, k) = Root(k, 2 * h, inverse),
         Exp1(f, table, k) = Root(l, 2 * h, inverse)
  PROVE  /\ inverse = FALSE /\ from[k] = Z[k % h] /\ from[l] = Z[l % h]
              => Goes(f, h, from, table, inverse, S, k)
         /\ inverse = TRUE /\ from[k] = S[k] /\ from[l] = S[l]
              => Goes(f, h, from, table, inverse, FourOf(h, Z), k)
<1> DEFINE z0 == Z[k % h]
           z1 == Z[l % h]
<1>1. PairUntangles(h, k, l, z0, z1, S[k], S[l])
  BY ElementPair
<1>2. /\ Root(k, 2 * h, inverse) \in CkFftComplex /\ Root(l, 2 * h, inverse) \in CkFftComplex
  <2>1. 2 * h \in Nat \ {0} /\ k \in Nat /\ l \in Nat
    OBVIOUS
  <2> QED BY <2>1, RootType
<1>6. l \in 0..h
  OBVIOUS
<1>3. FourOf(h, Z)[k] = Four(z0) /\ FourOf(h, Z)[l] = Four(z1)
  BY <1>6 DEF FourOf
<1> HIDE DEF z0, z1
<1>4. CASE inverse = FALSE /\ from[k] = z0 /\ from[l] = z1
  <2> DEFINE w0 == Root(k, 2 * h, FALSE)
             w1 == Root(l, 2 * h, FALSE)
  <2>1. /\ w0 \in CkFftComplex /\ w1 \in CkFftComplex
        /\ Exp0(f, table, k) = w0 /\ Exp1(f, table, k) = w1
    BY <1>2, <1>4
  <2>2. Untangled(z0, z1, w0, w1) = S[k] /\ Untangled(z1, z0, w1, w0) = S[l]
    BY <1>1, <2>1 DEF PairUntangles
  <2>3. /\ z0 \in CkFftComplex /\ z1 \in CkFftComplex
        /\ S[k] \in CkFftComplex /\ S[l] \in CkFftComplex
    BY <1>1 DEF PairUntangles
  <2> HIDE DEF w0, w1
  <2>4. EitherOrder(z0, z1, w0, w1)
    BY <2>1, <2>3, UntangleBoth
  <2>5. Untangle(z0, z1, w0, w1, FALSE)[1] = S[k] /\ Untangle(z0, z1, w0, w1, FALSE)[2] = S[l]
    BY ONLY <2>2, <2>4 DEF EitherOrder
  <2>6. Goes(f, h, from, table, FALSE, S, k)
    BY <1>4, <2>1, <2>5 DEF Goes
  <2> QED BY <1>4, <2>6
<1>5. CASE inverse = TRUE /\ from[k] = S[k] /\ from[l] = S[l]
  <2> DEFINE w0 == Root(k, 2 * h, TRUE)
             w1 == Root(l, 2 * h, TRUE)
  <2>1. /\ w0 \in CkFftComplex /\ w1 \in CkFftComplex
        /\ Exp0(f, table, k) = w0 /\ Exp1(f, table, k) = w1
    BY <1>2, <1>5
  <2>2. Tangled(S[k], S[l], w0, w1) = Four(z0) /\ Tangled(S[l], S[k], w1, w0) = Four(z1)
    BY <1>1, <2>1 DEF PairUntangles
  <2>3. /\ z0 \in CkFftComplex /\ z1 \in CkFftComplex
        /\ S[k] \in CkFftComplex /\ S[l] \in CkFftComplex
    BY <1>1 DEF PairUntangles
  <2> HIDE DEF w0, w1
  <2>4. EitherOrder(S[k], S[l], w0, w1)
    BY <2>1, <2>3, UntangleBoth
  <2>5. /\ Untangle(S[k], S[l], w0, w1, TRUE)[1] = Four(z0)
        /\ Untangle(S[k], S[l], w0, w1, TRUE)[2] = Four(z1)
    BY ONLY <2>2, <2>4 DEF EitherOrder
  <2>6. Goes(f, h, from, table, TRUE, FourOf(h, Z), k)
    BY <1>3, <1>5, <2>1, <2>5 DEF Goes
  <2> QED BY <1>5, <2>6
<1> QED BY <1>4, <1>5 DEF z0, z1

(* How far the loops are: between i and h - i the elements are still those  *)
(* of the complex transform, in place, or not yet those to transform.       *)
UntangledSoFar(h, i, Z, S, y) ==
  \A k \in 0..h : y[k] = IF k \in i..(h - i) THEN Z[k % h] ELSE S[k]

TangledSoFar(h, i, V, y) == \A k \in 0..h : k \notin i..(h - i) => y[k] = V[k]

(* What an iteration fills brings the loop further.                         *)
LEMMA FilledFurther ==
  ASSUME NEW h \in Nat, NEW D, 0..h \subseteq D, NEW i \in Nat, NEW s \in {1, 4},
         NEW V, NEW X, NEW y, NEW R,
         R = IF s = 1 THEN {i, h - i} ELSE (i..(i + 3)) \cup ((h - i - 3)..(h - i)),
         i <= h, Filled(X, y, D, V, R)
  PROVE  /\ \A Z : UntangledSoFar(h, i, Z, V, y) => UntangledSoFar(h, i + s, Z, V, X)
         /\ TangledSoFar(h, i, V, y) => TangledSoFar(h, i + s, V, X)
<1>1. ASSUME NEW k \in 0..h
      PROVE  /\ X[k] = IF k \in R THEN V[k] ELSE y[k]
             /\ k \in (i + s)..(h - (i + s)) => k \in i..(h - i) /\ k \notin R
             /\ k \notin (i + s)..(h - (i + s)) => k \notin i..(h - i) \/ k \in R
  <2>1. X[k] = IF k \in R THEN V[k] ELSE y[k]
    BY DEF Filled
  <2>2. CASE s = 1
    BY <2>1, <2>2
  <2>3. CASE s = 4
    BY <2>1, <2>3
  <2> QED BY <2>2, <2>3
<1>2. ASSUME NEW Z, UntangledSoFar(h, i, Z, V, y)
      PROVE  UntangledSoFar(h, i + s, Z, V, X)
  BY <1>1, <1>2 DEF UntangledSoFar
<1>3. ASSUME TangledSoFar(h, i, V, y)
      PROVE  TangledSoFar(h, i + s, V, X)
  BY <1>1, <1>3 DEF TangledSoFar
<1> QED BY <1>2, <1>3

(* Where an iteration is: the elements and vectors it works on do not       *)
(* overlap, but for count 8, where the vectors meet in the middle.          *)
LEMMA LoopHalf ==
  ASSUME NEW f \in OKRealFrames, NEW h, h = f.count \div 2
  PROVE  /\ h \in Nat \ {0} /\ f.i \in Nat /\ f.i <= h
         /\ f.count \div 4 \in Nat /\ h = 2 * (f.count \div 4)
         /\ f.i < f.count \div 4 =>
              /\ f.i + f.i < h
              /\ f.fn \in VectorFns => f.i + f.i + 3 <= h /\ f.i + 3 <= h
<1> DEFINE n == f.count
           q == n \div 4
           i == f.i
<1>1. /\ n \in Nat /\ i \in Nat /\ isPowerOfTwo(n) /\ n >= 8 /\ LoopInBounds(f)
      /\ f.fn \in VectorFns => i % 4 = 0
  BY RealFrameFields DEF RealFrameOK
<1>2. n = 4 * q /\ h = 2 * q /\ q \in Nat /\ q >= 2 /\ (q = 2 \/ q % 4 = 0)
  BY <1>1, RealCounts
<1>3. i \in 0..h
  BY RealLoop
<1> HIDE DEF n, q, i
<1>4. h \in Nat \ {0} /\ i <= h
  BY <1>2, <1>3
<1>5. ASSUME i < q
      PROVE  i + i < h /\ (f.fn \in VectorFns => i + i + 3 <= h /\ i + 3 <= h)
  <2>1. i + i < h
    BY <1>1, <1>2, <1>5
  <2>2. ASSUME f.fn \in VectorFns
        PROVE  i + i + 3 <= h /\ i + 3 <= h
    <3>1. i % 4 = 0
      BY <1>1, <2>2
    <3>2. CASE q = 2
      BY <1>1, <1>2, <1>5, <3>1, <3>2
    <3>3. CASE q % 4 = 0
      BY <1>1, <1>2, <1>5, <3>1, <3>3
    <3> QED BY <1>2, <3>2, <3>3
  <2> QED BY <2>1, <2>2
<1> QED BY <1>1, <1>2, <1>4, <1>5 DEF n, q, i

(* What an iteration of either loop replaces, in the elements D of to.      *)
LoopFilled(f, h, from, to, table, inverse, V, D) ==
  /\ 0..h \subseteq D
  /\ f.fn \notin VectorFns =>
       Filled(Iteration(f, from, to, table, inverse), to, D, V, {f.i, h - f.i})
  /\ f.fn \in VectorFns =>
       Filled(VectorIteration(f, from, to, table, inverse), to, D, V,
              ((f.i)..(f.i + 3)) \cup ((h - f.i - 3)..(h - f.i)))

(* Each iteration replaces its elements with those of V.                    *)
LEMMA LoopFills ==
  ASSUME MemOK, NEW f \in OKRealFrames, f.i < f.count \div 4,
         NEW h, h = f.count \div 2, NEW from, NEW table, NEW inverse \in BOOLEAN, NEW V,
         \A k \in (f.i)..(h - f.i) : Goes(f, h, from, table, inverse, V, k),
         NEW D, D = 0..(BufLen[f.tmpBuf] - 1)
  PROVE  LoopFilled(f, h, from, mem[f.tmpBuf], table, inverse, V, D)
<1> DEFINE to == mem[f.tmpBuf]
           i == f.i
<1>1. /\ h \in Nat \ {0} /\ i \in Nat /\ i <= h /\ i + i < h
      /\ f.fn \in VectorFns => i + i + 3 <= h /\ i + 3 <= h
  BY LoopHalf
<1>2. to \in [D -> CkFftComplex] /\ 0..h \subseteq D
  BY RealReads DEF BufferType
<1>3. D \in SUBSET Int
  BY RealFrameFields
<1> HIDE DEF to
<1>4. ASSUME f.fn \notin VectorFns
      PROVE  Filled(Iteration(f, from, to, table, inverse), to, D, V, {f.i, h - f.i})
  <2>1. f.i \in (f.i)..(h - f.i) /\ f.i \in 0..h /\ h \in Nat
    BY <1>1
  <2>2. Goes(f, h, from, table, inverse, V, f.i)
    BY <2>1
  <2> QED BY <1>2, <2>1, <2>2, IterationFills
<1>5. ASSUME f.fn \in VectorFns
      PROVE  Filled(VectorIteration(f, from, to, table, inverse), to, D, V,
                    ((f.i)..(f.i + 3)) \cup ((h - f.i - 3)..(h - f.i)))
  <2>1. i + i + 3 <= h /\ i + 3 <= h /\ h \in Nat
    BY <1>1, <1>5
  <2>2. \A k \in i..(i + 3) : k \in i..(h - i)
    BY <1>1, <2>1
  <2>3. \A k \in (f.i)..(f.i + 3) : Goes(f, h, from, table, inverse, V, k)
    BY <2>2
  <2> QED BY <1>1, <1>2, <1>3, <2>1, <2>3, VectorIterationFills
<1> QED BY <1>2, <1>4, <1>5 DEF LoopFilled, to

(* The forward loop, in the output, and the inverse one, from the input to  *)
(* tmpBuf.                                                                  *)
LEMMA ForwardLoopRight ==
  ASSUME MemOK, NEW f \in OKRealFrames, ExactTable(f), f.i < f.count \div 4,
         HasTable(f.context, FALSE), NEW table, table = TableOf(f.context, FALSE),
         NEW h, h = f.count \div 2, NEW Z, NEW S, AllUntangle(h, Z, S),
         UntangledSoFar(h, f.i, Z, S, mem[f.tmpBuf])
  PROVE  /\ f.fn \notin VectorFns =>
              UntangledSoFar(h, f.i + 1, Z, S,
                Iteration(f, mem[f.tmpBuf], mem[f.tmpBuf], table, FALSE))
         /\ f.fn \in VectorFns =>
              UntangledSoFar(h, f.i + 4, Z, S,
                VectorIteration(f, mem[f.tmpBuf], mem[f.tmpBuf], table, FALSE))
<1> DEFINE to == mem[f.tmpBuf]
           D == 0..(BufLen[f.tmpBuf] - 1)
<1>1. /\ h \in Nat \ {0} /\ f.i \in Nat /\ f.i <= h /\ h \in Nat
  BY LoopHalf
<1>2. ASSUME NEW inverse \in BOOLEAN, inverse = FALSE
      PROVE  TableRoots(f, h, table, inverse)
  <2>1. HasTable(f.context, inverse) /\ table = TableOf(f.context, inverse)
    BY <1>2
  <2> HIDE <1>2
  <2> QED BY <2>1, RealExpRoot
<1>3. \A k \in 0..h : /\ Exp0(f, table, k) = Root(k, 2 * h, FALSE)
                      /\ Exp1(f, table, k) = Root(h - k, 2 * h, FALSE)
  <2>1. TableRoots(f, h, table, FALSE)
    BY <1>2
  <2> QED BY ONLY <2>1 DEF TableRoots
<1>4. ASSUME NEW k \in (f.i)..(h - f.i)
      PROVE  Goes(f, h, to, table, FALSE, S, k)
  <2> DEFINE l == h - k
  <2>1. k \in 0..h /\ l \in 0..h /\ l \in (f.i)..(h - f.i)
    BY <1>1
  <2>2. to[k] = Z[k % h] /\ to[l] = Z[l % h]
    BY <2>1 DEF UntangledSoFar
  <2>3. Exp0(f, table, k) = Root(k, 2 * h, FALSE) /\ Exp1(f, table, k) = Root(l, 2 * h, FALSE)
    BY <1>3, <2>1
  <2>4. l = h - k
    OBVIOUS
  <2> HIDE DEF l, to
  <2>5. ASSUME NEW inverse \in BOOLEAN, inverse = FALSE
        PROVE  Goes(f, h, to, table, inverse, S, k)
    <3>1. /\ Exp0(f, table, k) = Root(k, 2 * h, inverse)
          /\ Exp1(f, table, k) = Root(l, 2 * h, inverse)
      BY <2>3, <2>5
    <3> QED BY <1>1, <2>1, <2>2, <2>4, <2>5, <3>1, ElementGoes
  <2> QED BY <2>5
<1> HIDE DEF to
<1>5. ASSUME NEW inverse \in BOOLEAN, inverse = FALSE
      PROVE  LoopFilled(f, h, to, to, table, inverse, S, D)
  <2>1. \A k \in (f.i)..(h - f.i) : Goes(f, h, to, table, inverse, S, k)
    BY <1>4, <1>5
  <2> HIDE <1>5
  <2> QED BY <2>1, LoopFills DEF to
<1>6. LoopFilled(f, h, to, to, table, FALSE, S, D)
  BY <1>5
<1>7. UntangledSoFar(h, f.i, Z, S, to)
  BY DEF to
<1> DEFINE X1 == Iteration(f, to, to, table, FALSE)
           X4 == VectorIteration(f, to, to, table, FALSE)
<1> HIDE DEF D, X1, X4
<1>8. ASSUME NEW s \in {1, 4}, NEW R, NEW X,
             R = IF s = 1 THEN {f.i, h - f.i}
                          ELSE ((f.i)..(f.i + 3)) \cup ((h - f.i - 3)..(h - f.i)),
             Filled(X, to, D, S, R)
      PROVE  UntangledSoFar(h, f.i + s, Z, S, X)
  BY <1>1, <1>6, <1>7, <1>8, FilledFurther DEF LoopFilled
<1>9. /\ Filled(X1, to, D, S, {f.i, h - f.i}) => UntangledSoFar(h, f.i + 1, Z, S, X1)
      /\ Filled(X4, to, D, S, ((f.i)..(f.i + 3)) \cup ((h - f.i - 3)..(h - f.i)))
           => UntangledSoFar(h, f.i + 4, Z, S, X4)
  BY <1>8
<1> QED BY <1>6, <1>9 DEF LoopFilled, X1, X4, to

LEMMA InverseLoopRight ==
  ASSUME MemOK, NEW f \in OKRealFrames, ExactTable(f), f.i < f.count \div 4,
         HasTable(f.context, TRUE), NEW table, table = TableOf(f.context, TRUE),
         NEW h, h = f.count \div 2, NEW Z, NEW S, AllUntangle(h, Z, S),
         NEW from, \A k \in 0..h : from[k] = S[k],
         NEW V, V = FourOf(h, Z), TangledSoFar(h, f.i, V, mem[f.tmpBuf])
  PROVE  /\ f.fn \notin VectorFns =>
              TangledSoFar(h, f.i + 1, V, Iteration(f, from, mem[f.tmpBuf], table, TRUE))
         /\ f.fn \in VectorFns =>
              TangledSoFar(h, f.i + 4, V, VectorIteration(f, from, mem[f.tmpBuf], table, TRUE))
<1> DEFINE to == mem[f.tmpBuf]
           D == 0..(BufLen[f.tmpBuf] - 1)
<1>1. /\ h \in Nat \ {0} /\ f.i \in Nat /\ f.i <= h /\ h \in Nat
  BY LoopHalf
<1>2. ASSUME NEW inverse \in BOOLEAN, inverse = TRUE
      PROVE  TableRoots(f, h, table, inverse)
  <2>1. HasTable(f.context, inverse) /\ table = TableOf(f.context, inverse)
    BY <1>2
  <2> HIDE <1>2
  <2> QED BY <2>1, RealExpRoot
<1>3. \A k \in 0..h : /\ Exp0(f, table, k) = Root(k, 2 * h, TRUE)
                      /\ Exp1(f, table, k) = Root(h - k, 2 * h, TRUE)
  <2>1. TableRoots(f, h, table, TRUE)
    BY <1>2
  <2> QED BY ONLY <2>1 DEF TableRoots
<1>4. ASSUME NEW k \in (f.i)..(h - f.i)
      PROVE  Goes(f, h, from, table, TRUE, V, k)
  <2> DEFINE l == h - k
  <2>1. k \in 0..h /\ l \in 0..h
    BY <1>1
  <2>2. from[k] = S[k] /\ from[l] = S[l]
    BY <2>1
  <2>3. Exp0(f, table, k) = Root(k, 2 * h, TRUE) /\ Exp1(f, table, k) = Root(l, 2 * h, TRUE)
    BY <1>3, <2>1
  <2>4. l = h - k
    OBVIOUS
  <2> HIDE DEF l
  <2>5. ASSUME NEW inverse \in BOOLEAN, inverse = TRUE
        PROVE  Goes(f, h, from, table, inverse, V, k)
    <3>1. /\ Exp0(f, table, k) = Root(k, 2 * h, inverse)
          /\ Exp1(f, table, k) = Root(l, 2 * h, inverse)
      BY <2>3, <2>5
    <3> QED BY <1>1, <2>1, <2>2, <2>4, <2>5, <3>1, ElementGoes
  <2> QED BY <2>5
<1> HIDE DEF to
<1>5. ASSUME NEW inverse \in BOOLEAN, inverse = TRUE
      PROVE  LoopFilled(f, h, from, to, table, inverse, V, D)
  <2>1. \A k \in (f.i)..(h - f.i) : Goes(f, h, from, table, inverse, V, k)
    BY <1>4, <1>5
  <2> HIDE <1>5
  <2> QED BY <2>1, LoopFills DEF to
<1>6. LoopFilled(f, h, from, to, table, TRUE, V, D)
  BY <1>5
<1>7. TangledSoFar(h, f.i, V, to)
  BY DEF to
<1> DEFINE X1 == Iteration(f, from, to, table, TRUE)
           X4 == VectorIteration(f, from, to, table, TRUE)
<1> HIDE DEF D, X1, X4
<1>8. ASSUME NEW s \in {1, 4}, NEW R, NEW X,
             R = IF s = 1 THEN {f.i, h - f.i}
                          ELSE ((f.i)..(f.i + 3)) \cup ((h - f.i - 3)..(h - f.i)),
             Filled(X, to, D, V, R)
      PROVE  TangledSoFar(h, f.i + s, V, X)
  BY <1>1, <1>6, <1>7, <1>8, FilledFurther DEF LoopFilled
<1>9. /\ Filled(X1, to, D, V, {f.i, h - f.i}) => TangledSoFar(h, f.i + 1, V, X1)
      /\ Filled(X4, to, D, V, ((f.i)..(f.i + 3)) \cup ((h - f.i - 3)..(h - f.i)))
           => TangledSoFar(h, f.i + 4, V, X4)
  BY <1>8
<1> QED BY <1>6, <1>9 DEF LoopFilled, X1, X4, to

(* The loop ends at the middle, or past it for the one vector of count 8.   *)
LEMMA LoopEnds ==
  ASSUME NEW f \in OKRealFrames, NEW q, q = f.count \div 4, f.i >= q
  PROVE  /\ q \in Nat \ {0} /\ f.count = 4 * q /\ f.count \div 2 = 2 * q
         /\ f.i = q \/ (f.fn \in VectorFns /\ f.count = 8 /\ f.i = 2 * q)
         /\ f.i = q /\ f.fn \in VectorFns => f.count > 8
<1> DEFINE n == f.count
           i == f.i
<1>1. /\ n \in Nat /\ i \in Nat /\ isPowerOfTwo(n) /\ n >= 8 /\ LoopInBounds(f)
      /\ f.fn \in VectorFns => i % 4 = 0
  BY RealFrameFields DEF RealFrameOK
<1>2. n = 4 * q /\ n \div 2 = 2 * q /\ q \in Nat /\ q >= 2 /\ (q = 2 \/ q % 4 = 0)
  BY <1>1, RealCounts
<1>3. i <= q \/ (f.fn \in VectorFns /\ n = 8 /\ i = 4)
  BY <1>1 DEF LoopInBounds, VectorFns
<1>4. i >= q
  OBVIOUS
<1> HIDE DEF n, i
<1>5. i = q \/ (f.fn \in VectorFns /\ n = 8 /\ i = 2 * q)
  BY <1>1, <1>2, <1>3, <1>4
<1>6. i = q /\ f.fn \in VectorFns => n > 8
  BY <1>1, <1>2
<1>7. q \in Nat \ {0}
  BY <1>2
<1> QED BY <1>2, <1>5, <1>6, <1>7 DEF n, i

(* The middle element is doubled and conjugated.                            *)
LEMMA MiddleFills ==
  ASSUME NEW D, NEW to \in [D -> CkFftComplex], NEW from, NEW m, from[m] \in CkFftComplex
  PROVE  \A k \in D : Middle(from, to, m)[k] =
           IF k = m THEN conjugate(add(from[m], from[m])) ELSE to[k]
<1>1. [real |-> Twice(from[m].real), imag |-> Neg(Twice(from[m].imag))]
        = conjugate(add(from[m], from[m]))
  BY ConjugateFacts
<1> QED BY <1>1 DEF Middle

(* The copy of output[0] completes the complex transform, of period h.      *)
LEMMA CopyRight ==
  ASSUME NEW h \in Nat \ {0}, NEW D, NEW y \in [D -> CkFftComplex], 0..h \subseteq D,
         NEW x, HasResult(h, FALSE, x, y), NEW S
  PROVE  UntangledSoFar(h, 0, PairTransform(x, h), S, [y EXCEPT ![h] = y[0]])
<1> DEFINE Z == PairTransform(x, h)
           X == [y EXCEPT ![h] = y[0]]
<1>1. \A j \in 0..(h - 1) : y[j] = Z[j]
  BY DEF HasResult, PairTransform
<1> HIDE DEF Z
<1>2. ASSUME NEW k \in 0..h
      PROVE  X[k] = Z[k % h] /\ k \in 0..(h - 0)
  <2>1. k \in D /\ k \in 0..(h - 0)
    OBVIOUS
  <2>2. CASE k = h
    <3>1. h % h = 0 /\ 0 \in 0..(h - 1)
      <4>1. ASSUME NEW a \in Nat, a = h PROVE a % h = 0
        BY <4>1
      <4> QED BY <4>1
    <3> QED BY <1>1, <2>1, <2>2, <3>1
  <2>3. CASE k # h
    <3>1. k \in 0..(h - 1)
      BY <2>3
    <3>2. k % h = k
      BY <3>1, RestSmall
    <3> QED BY <1>1, <2>1, <2>3, <3>1, <3>2
  <2> QED BY <2>1, <2>2, <2>3
<1> HIDE DEF X
<1>3. UntangledSoFar(h, 0, Z, S, X)
  BY <1>2 DEF UntangledSoFar
<1> QED BY <1>3 DEF X, Z

(* The middle element q of 2*q, which both ends reach.                      *)
LEMMA MiddleUntangles ==
  ASSUME NEW q \in Nat \ {0}, NEW h, h = 2 * q, NEW Z, NEW S, AllUntangle(h, Z, S)
  PROVE  /\ Z[q % h] \in CkFftComplex /\ S[q] \in CkFftComplex
         /\ conjugate(add(Z[q % h], Z[q % h])) = S[q]
         /\ conjugate(add(S[q], S[q])) = Four(Z[q % h])
<1>1. q \in 0..h /\ 2 * q = h
  OBVIOUS
<1>2. Untangles(h, Z, S, q)
  BY <1>1 DEF AllUntangle
<1> QED BY <1>1, <1>2 DEF Untangles

ForwardMiddled(f, h, y, S) ==
  /\ f.fn \notin VectorFns => \A k \in 0..h : Middle(y, y, f.count \div 4)[k] = S[k]
  /\ f.fn \in VectorFns =>
       \A k \in 0..h : (IF f.count > 8 THEN Middle(y, y, f.i) ELSE y)[k] = S[k]

(* The end of a forward transform completes the spectrum.                   *)
LEMMA ForwardMiddleRight ==
  ASSUME NEW f \in OKRealFrames, f.i >= f.count \div 4,
         NEW h, h = f.count \div 2, NEW Z, NEW S, AllUntangle(h, Z, S),
         NEW D, NEW y \in [D -> CkFftComplex], 0..h \subseteq D,
         UntangledSoFar(h, f.i, Z, S, y)
  PROVE  ForwardMiddled(f, h, y, S)
<1> DEFINE q == f.count \div 4
<1>1. /\ q \in Nat \ {0} /\ f.count = 4 * q /\ h = 2 * q
      /\ f.i = q \/ (f.fn \in VectorFns /\ f.count = 8 /\ f.i = 2 * q)
      /\ f.i = q /\ f.fn \in VectorFns => f.count > 8
  BY LoopEnds
<1> HIDE DEF q
<1>2. CASE f.i = q
  <2>1. q \in 0..h /\ q \in q..(h - q) /\ \A k \in 0..h : k \in q..(h - q) => k = q
    BY <1>1
  <2>2. y[q] = Z[q % h] /\ \A k \in 0..h : k # q => y[k] = S[k]
    BY <1>2, <2>1 DEF UntangledSoFar
  <2>3. Z[q % h] \in CkFftComplex /\ conjugate(add(Z[q % h], Z[q % h])) = S[q]
    BY <1>1, MiddleUntangles
  <2>4. \A k \in 0..h : Middle(y, y, q)[k] = S[k]
    <3>1. \A k \in D : Middle(y, y, q)[k] =
            IF k = q THEN conjugate(add(y[q], y[q])) ELSE y[k]
      BY <2>2, <2>3, MiddleFills
    <3> QED BY <2>2, <2>3, <3>1
  <2> QED BY <1>1, <1>2, <2>4 DEF q, ForwardMiddled
<1>3. CASE f.i # q
  <2>1. f.fn \in VectorFns /\ f.count = 8 /\ f.i = h /\ ~(f.count > 8)
    BY <1>1, <1>3
  <2>2. \A k \in 0..h : k \notin h..(h - h)
    BY <1>1
  <2>3. \A k \in 0..h : y[k] = S[k]
    BY <2>1, <2>2 DEF UntangledSoFar
  <2> QED BY <2>1, <2>3 DEF ForwardMiddled
<1> QED BY <1>2, <1>3

(* The end of the inverse loop completes what the complex FFT is given.     *)
LEMMA InverseMiddleRight ==
  ASSUME NEW f \in OKRealFrames, f.i >= f.count \div 4,
         NEW h, h = f.count \div 2, NEW Z, NEW S, AllUntangle(h, Z, S),
         NEW D, NEW y \in [D -> CkFftComplex], 0..h \subseteq D,
         NEW from, \A k \in 0..h : from[k] = S[k],
         TangledSoFar(h, f.i, FourOf(h, Z), y),
         NEW m, m = IF f.fn \in VectorFns THEN f.i ELSE f.count \div 4
  PROVE  \A k \in 0..(h - 1) : Middle(from, y, m)[k] = Four(Z[k])
<1> DEFINE q == f.count \div 4
<1>1. /\ q \in Nat \ {0} /\ f.count = 4 * q /\ h = 2 * q
      /\ f.i = q \/ (f.fn \in VectorFns /\ f.count = 8 /\ f.i = 2 * q)
  BY LoopEnds
<1>2. m = IF f.fn \in VectorFns THEN f.i ELSE q
  OBVIOUS
<1> HIDE DEF q
<1>3. \A k \in 0..(h - 1) : k \in 0..h /\ FourOf(h, Z)[k] = Four(Z[k])
  <2> SUFFICES ASSUME NEW k \in 0..(h - 1)
               PROVE  k \in 0..h /\ FourOf(h, Z)[k] = Four(Z[k])
    OBVIOUS
  <2>1. k \in 0..h /\ h \in Nat \ {0}
    BY <1>1
  <2>2. k % h = k
    BY <2>1, RestSmall
  <2> QED BY <2>1, <2>2 DEF FourOf
<1>4. m \in 0..h /\ \A k \in D : Middle(from, y, m)[k] =
            IF k = m THEN conjugate(add(S[m], S[m])) ELSE y[k]
  <2>1. m \in 0..h
    BY <1>1, <1>2
  <2>2. S[m] \in CkFftComplex /\ from[m] = S[m]
    BY <2>1 DEF AllUntangle, Untangles
  <2> QED BY <2>1, <2>2, MiddleFills
<1>5. CASE f.i = q
  <2>1. q \in 0..h /\ m = q /\ \A k \in 0..h : k # q => k \notin q..(h - q)
    BY <1>1, <1>2, <1>5
  <2>2. \A k \in 0..h : k # q => y[k] = FourOf(h, Z)[k]
    BY <1>5, <2>1 DEF TangledSoFar
  <2>3. conjugate(add(S[q], S[q])) = Four(Z[q % h])
    BY <1>1, MiddleUntangles
  <2>4. FourOf(h, Z)[q] = Four(Z[q % h])
    BY <2>1 DEF FourOf
  <2>5. \A k \in 0..h : Middle(from, y, m)[k] = FourOf(h, Z)[k]
    BY <1>4, <2>1, <2>2, <2>3, <2>4
  <2> QED BY <1>3, <2>5
<1>6. CASE f.i # q
  <2>1. f.i = h /\ m = h
    BY <1>1, <1>2, <1>6
  <2>2. \A k \in 0..(h - 1) : k \in 0..h /\ k # m /\ k \notin h..(h - h)
    BY <1>1, <2>1
  <2>3. \A k \in 0..(h - 1) : y[k] = FourOf(h, Z)[k]
    BY <2>1, <2>2 DEF TangledSoFar
  <2> QED BY <1>3, <1>4, <2>2, <2>3
<1> QED BY <1>5, <1>6

-----------------------------------------------------------------------------
(***************************************************************************)
(* What the inverse complex FFT, at the end of an inverse transform, makes  *)
(* of it.                                                                   *)
(***************************************************************************)

(* Four times h times is 4*h times.                                         *)
LEMMA FourTimes ==
  ASSUME NEW h \in Nat, NEW c \in CkFftComplex
  PROVE  Four(Times(h, c)) = Times(4 * h, c)
<1>1. ASSUME NEW r \in Int
      PROVE  (((((h * r) % P) + ((h * r) % P)) % P)
                + ((((h * r) % P) + ((h * r) % P)) % P)) % P = (4 * h * r) % P
  <2> DEFINE a == h * r
  <2>1. a \in Int /\ a + a \in Int
    OBVIOUS
  <2>2. (a + a) + (a + a) = 4 * h * r
    OBVIOUS
  <2> HIDE DEF a
  <2>3. \A p, q \in Int : ((p % P) + (q % P)) % P = (p + q) % P
    BY ModMixed
  <2>4. (((a + a) % P) + ((a + a) % P)) % P = ((a + a) + (a + a)) % P
    BY <2>1, <2>3
  <2>5. ((a % P) + (a % P)) % P = (a + a) % P
    BY <2>1, <2>3
  <2>6. ((((a % P) + (a % P)) % P) + (((a % P) + (a % P)) % P)) % P = (4 * h * r) % P
    BY ONLY <2>2, <2>4, <2>5, Zenon
  <2> QED BY <2>6 DEF a
<1>2. c.real \in Int /\ c.imag \in Int
  BY ComplexFields
<1>3. Four(Times(h, c)) =
        [real |-> (((((h * c.real) % P) + ((h * c.real) % P)) % P)
                     + ((((h * c.real) % P) + ((h * c.real) % P)) % P)) % P,
         imag |-> (((((h * c.imag) % P) + ((h * c.imag) % P)) % P)
                     + ((((h * c.imag) % P) + ((h * c.imag) % P)) % P)) % P]
  BY DEF Four, Times, add
<1>4. Times(4 * h, c) = [real |-> (4 * h * c.real) % P, imag |-> (4 * h * c.imag) % P]
  BY DEF Times
<1> QED BY <1>1, <1>2, <1>3, <1>4

(* w is the transform of the h pairs of x, scaled by 4.                     *)
FoursTo(h, x, w) == \A k \in 0..(h - 1) : w[k] = Four(PairTransform(x, h)[k])

(* y holds the h pairs of x, scaled by 4h.                                  *)
ScaledPairs(h, x, y) == \A j \in 0..(h - 1) : y[j] = Times(4 * h, x[j])

(* The inverse complex transform of four times a transform.                 *)
LEMMA InverseResult ==
  ASSUME NEW h \in Nat \ {0}, isPowerOfTwo(h), Divisor(h), NEW x, HoldsPairs(x, h),
         NEW w, FoursTo(h, x, w), NEW inverse \in BOOLEAN, inverse = TRUE,
         NEW y, HasResult(h, inverse, w, y)
  PROVE  ScaledPairs(h, x, y)
<1> DEFINE Z == PairTransform(x, h)
           X0 == [j \in 0..(h - 1) |-> x[j]]
           z2 == [k \in 0..(h - 1) |-> add(Z[k], Z[k])]
           z4 == [k \in 0..(h - 1) |-> add(z2[k], z2[k])]
           w0 == [k \in 0..(h - 1) |-> w[k]]
<1> SUFFICES ASSUME NEW j \in 0..(h - 1)
             PROVE  y[j] = Times(4 * h, x[j])
  BY DEF ScaledPairs
<1>1. \A k \in 0..(h - 1) : X0[k] \in CkFftComplex
  BY DEF HoldsPairs
<1>2. \A b \in BOOLEAN : \A k \in 0..(h - 1) : DFT(X0, h, b)[k] \in CkFftComplex
  <2> HIDE DEF X0
  <2> QED BY <1>1, DftType
<1>3. Z = DFT(X0, h, FALSE)
  BY DEF PairTransform
<1>4. \A k \in 0..(h - 1) : Z[k] \in CkFftComplex
  BY <1>2, <1>3
<1>5. DFT(Z, h, TRUE)[j] = Times(h, X0[j])
  <2> HIDE DEF X0
  <2> QED BY <1>1, <1>3, DftInverse
<1>6. \A k \in 0..(h - 1) : z2[k] = add(Z[k], Z[k]) /\ z2[k] \in CkFftComplex
  BY <1>4, ComplexOps
<1>7. \A k \in 0..(h - 1) : z4[k] = add(z2[k], z2[k]) /\ w0[k] = z4[k]
  BY <1>6 DEF Four, FoursTo
<1> HIDE DEF Z, X0, z2, z4, w0
<1>8. Added(Z, Z, z2, h) /\ Added(z2, z2, z4, h)
  BY <1>4, <1>6, <1>7 DEF Added
<1>9. ASSUME NEW b \in BOOLEAN
      PROVE  DFT(w0, h, b)[j] = Four(DFT(Z, h, b)[j])
  <2>1. DFT(w0, h, b) = DFT(z4, h, b)
    BY <1>7, DftSame
  <2>2. DFT(z4, h, b)[j] = add(DFT(z2, h, b)[j], DFT(z2, h, b)[j])
    BY <1>8, DftAdd
  <2>3. DFT(z2, h, b)[j] = add(DFT(Z, h, b)[j], DFT(Z, h, b)[j])
    BY <1>8, DftAdd
  <2> QED BY <2>1, <2>2, <2>3 DEF Four
<1>10. DFT(w0, h, TRUE)[j] = Four(DFT(Z, h, TRUE)[j])
  BY <1>9
<1>11. y[j] = DFT(w0, h, TRUE)[j]
  BY DEF HasResult, w0
<1>12. X0[j] = x[j] /\ x[j] \in CkFftComplex
  BY DEF X0, HoldsPairs
<1>13. Four(Times(h, x[j])) = Times(4 * h, x[j])
  BY <1>12, FourTimes
<1> QED BY <1>5, <1>10, <1>11, <1>12, <1>13

(* The floats of the scaled pairs.                                          *)
LEMMA PairsScaled ==
  ASSUME NEW h \in Nat \ {0}, NEW n, n = 2 * h, NEW x, NEW y,
         ScaledPairs(h, x, y)
  PROVE  ScaledBack(n, x, y)
<1> SUFFICES ASSUME NEW j \in 0..(n - 1)
             PROVE  FloatAt(y, j) = (2 * n * FloatAt(x, j)) % P
  BY DEF ScaledBack
<1>1. j \div 2 \in 0..(h - 1) /\ 2 * n = 4 * h
  OBVIOUS
<1> DEFINE k == j \div 2
<1>2. k \in 0..(h - 1)
  BY <1>1
<1>3. y[k].real = (4 * h * x[k].real) % P /\ y[k].imag = (4 * h * x[k].imag) % P
  <2>1. y[k] = Times(4 * h, x[k])
    BY <1>2 DEF ScaledPairs
  <2> HIDE DEF k
  <2>2. y[k] = [real |-> (4 * h * x[k].real) % P, imag |-> (4 * h * x[k].imag) % P]
    BY ONLY <2>1, Zenon DEF Times
  <2> DEFINE u == (4 * h * x[k].real) % P
             v == (4 * h * x[k].imag) % P
  <2> HIDE DEF u, v
  <2>3. y[k] = [real |-> u, imag |-> v]
    BY ONLY <2>2 DEF u, v
  <2> QED BY ONLY <2>3 DEF u, v
<1>4. /\ FloatAt(y, j) = IF j % 2 = 0 THEN y[k].real ELSE y[k].imag
      /\ FloatAt(x, j) = IF j % 2 = 0 THEN x[k].real ELSE x[k].imag
  BY DEF FloatAt
<1> HIDE DEF k
<1>5. CASE j % 2 = 0
  BY <1>1, <1>3, <1>4, <1>5
<1>6. CASE j % 2 # 0
  BY <1>1, <1>3, <1>4, <1>6
<1> QED BY <1>5, <1>6

-----------------------------------------------------------------------------
(***************************************************************************)
(* The call stack of a real transform: a forward one waits below its        *)
(* complex FFT, an inverse one is replaced by it.                           *)
(***************************************************************************)

FftFns == {"fft_default", "fft_neon"}

(* The running call is one of the complex FFT, and so are its callers down  *)
(* to position m.                                                           *)
AboveFfts(s, m) == \A d \in (m + 1)..Len(s) : s[d].fn \in FftFns

(* Frames of the complex FFT replaced, added and removed.                   *)
LEMMA ReplaceAbove ==
  ASSUME NEW S, NEW s \in Seq(S), s # << >>, NEW m \in Nat, AboveFfts(s, m),
         NEW g, g.fn \in FftFns
  PROVE  AboveFfts(ReplaceTop(s, g), m) /\ ReplaceTop(s, g) \in Seq(S \cup {g})
<1>1. s \in Seq(S \cup {g})
  OBVIOUS
<1>2. /\ ReplaceTop(s, g) \in Seq(S \cup {g}) /\ Len(ReplaceTop(s, g)) = Len(s)
      /\ \A d \in 1..Len(s) : ReplaceTop(s, g)[d] = IF d = Len(s) THEN g ELSE s[d]
  <2> DEFINE T == S \cup {g}
  <2>1. s \in Seq(T) /\ g \in T
    BY <1>1
  <2> HIDE DEF T
  <2>2. Replaced(T, s, g, ReplaceTop(s, g))
    BY <2>1, ReplacedTop
  <2> QED BY <2>2 DEF Replaced, T
<1>3. Len(s) \in Nat
  OBVIOUS
<1> QED BY <1>2, <1>3 DEF AboveFfts

LEMMA AppendAbove ==
  ASSUME NEW S, NEW s \in Seq(S), NEW m \in Nat, AboveFfts(s, m), NEW g, g.fn \in FftFns
  PROVE  AboveFfts(Append(s, g), m)
<1>1. s \in Seq(S \cup {g})
  OBVIOUS
<1>2. /\ Len(Append(s, g)) = Len(s) + 1 /\ Len(s) \in Nat
      /\ \A d \in 1..(Len(s) + 1) : Append(s, g)[d] = IF d = Len(s) + 1 THEN g ELSE s[d]
  BY <1>1
<1> QED BY <1>2 DEF AboveFfts

LEMMA PopAbove ==
  ASSUME NEW S, NEW s \in Seq(S), s # << >>, NEW m \in Nat, AboveFfts(s, m)
  PROVE  AboveFfts(SubSeq(s, 1, Len(s) - 1), m)
<1>1. Len(s) \in Nat \ {0}
  OBVIOUS
<1>2. /\ Len(SubSeq(s, 1, Len(s) - 1)) = Len(s) - 1
      /\ \A d \in 1..(Len(s) - 1) : SubSeq(s, 1, Len(s) - 1)[d] = s[d]
  BY <1>1
<1> QED BY <1>1, <1>2 DEF AboveFfts

(* A complex FFT calls itself only.                                         *)
LEMMA FftStepAbove ==
  ASSUME NEW S, NEW t, t \in DOMAIN stack, stack[t] \in Seq(S), NEW m \in Nat,
         AboveFfts(stack[t], m), Top(t) \in Frame, FftStep(t)
  PROVE  AboveFfts(stack'[t], m)
<1> DEFINE s == stack[t]
           f == Top(t)
<1>1. s # << >>
  BY DEF FftStep, FftDefaultStep, FftNeonStep, FftDefault4, FftDefault8, FftDefaultRecurse,
         FftDefaultCombine, FftDefaultReturn, FftNeon4, FftNeon8, FftNeonRecurse,
         FftNeonCombine, FftNeonReturn, Combining, General, Running
<1>2. f.fn \in FftFns
  BY DEF Frame, FftFns
<1>3. CASE Return(t)
  <2>1. stack'[t] = SubSeq(s, 1, Len(s) - 1)
    BY <1>3 DEF Return
  <2> QED BY <1>1, <2>1, PopAbove
<1>4. CASE \E X : IterationStep(t, X)
  <2> DEFINE g == [f EXCEPT !.i = @ + 1]
  <2>1. stack'[t] = ReplaceTop(s, g)
    BY <1>4 DEF IterationStep
  <2>2. g.fn \in FftFns
    BY <1>2 DEF Frame
  <2> HIDE DEF g, s
  <2> QED BY <1>1, <2>1, <2>2, ReplaceAbove DEF s
<1>5. CASE Recurse(t)
  <2> DEFINE g == [f EXCEPT !.k = @ + 1]
             h == SubCall(f)
  <2>1. stack'[t] = Append(ReplaceTop(s, g), h)
    BY <1>5, RecurseStack
  <2>2. g.fn \in FftFns /\ h.fn \in FftFns
    BY <1>2 DEF Frame, SubCall
  <2> HIDE DEF g, h, s
  <2>3. AboveFfts(ReplaceTop(s, g), m) /\ ReplaceTop(s, g) \in Seq(S \cup {g})
    BY <1>1, <2>2, ReplaceAbove DEF s
  <2> DEFINE r == ReplaceTop(s, g)
             T == S \cup {g}
  <2>4. r \in Seq(T) /\ AboveFfts(r, m)
    BY <2>3
  <2> HIDE DEF r, T
  <2>5. AboveFfts(Append(r, h), m)
    BY <2>2, <2>4, AppendAbove
  <2> QED BY <2>1, <2>5 DEF r
<1>6. Return(t) \/ (\E X : IterationStep(t, X)) \/ Recurse(t)
  <2>1. CASE FftDefaultStep(t)
    BY <2>1 DEF FftDefaultStep, FftDefault4, FftDefault8, FftDefaultRecurse,
                FftDefaultCombine, FftDefaultReturn, LeafStep, ReturnStep
  <2>2. CASE FftNeonStep(t)
    BY <2>2 DEF FftNeonStep, FftNeon4, FftNeon8, FftNeonRecurse,
                FftNeonCombine, FftNeonReturn, LeafStep, ReturnStep
  <2> QED BY <2>1, <2>2 DEF FftStep
<1> QED BY <1>3, <1>4, <1>5, <1>6

-----------------------------------------------------------------------------
(***************************************************************************)
(* A forward transform, step by step, from its call to its result.          *)
(***************************************************************************)

(* The angles of a smaller count are exact too.                             *)
LEMMA PowerDivisor ==
  ASSUME NEW n \in Nat, isPowerOfTwo(n), NEW max \in Nat, isPowerOfTwo(max), n <= max,
         Divisor(max)
  PROVE  Divisor(n)
<1>1. n \in Nat \ {0} /\ max \in Nat \ {0}
  BY DEF isPowerOfTwo
<1> DEFINE e == max \div n
<1>2. e \in Nat \ {0} /\ n * e = max
  BY <1>1, PowerOfTwoQuotient
<1> HIDE DEF e
<1>3. Divisor(n * e) /\ 0 \in Nat /\ TRUE \in BOOLEAN
  BY <1>2
<1>4. \A inverse \in BOOLEAN : Divisor(n)
  BY <1>1, <1>2, <1>3, RootScale
<1> QED BY <1>4

(* A forward transform, as ckfft.h wants it called.                         *)
ForwardJob(a) ==
  /\ a.op = "forward" /\ a.src \in Buffers /\ a.dst \in Buffers /\ a.src # a.dst
  /\ a.tmpBuf = a.dst /\ a.context \in Contexts
  /\ a.count \in Nat /\ isPowerOfTwo(a.count) /\ Divisor(a.count)
  /\ Pairs(a.count) <= BufLen[a.src] /\ HalfSpectrum(a.count) <= BufLen[a.dst]
  /\ HasTable(a.context, FALSE) /\ Divisor(context[a.context].maxCount)

(***************************************************************************)
(* How far a forward transform of n elements, with call stack s, input x    *)
(* and output y, has come: to the end; to its loop; to the copy before the  *)
(* loop; or only into the complex FFT it begins with.                       *)
(***************************************************************************)
ForwardWay(s, n, x, y) ==
  IF s = << >> THEN HasSpectrum(n, x, y)
  ELSE /\ s[1].fn \in ForwardFns
       /\ s[1].copied =>
            /\ Len(s) = 1
            /\ UntangledSoFar(n \div 2, s[1].i, PairTransform(x, n \div 2), SpectrumOf(x, n), y)
       /\ ~s[1].copied => s[1].i = 0
       /\ ~s[1].copied /\ Len(s) = 1 => HasResult(n \div 2, FALSE, x, y)
       /\ Len(s) > 1 => AboveFfts(s, 1) /\ Progress(s, 1, x, y)

(* The frames of a forward transform: one of its own, then the FFT's.       *)
ForwardFrame(a, f) ==
  /\ f \in OKRealFrames /\ f.fn \in ForwardFns /\ ExactTable(f)
  /\ f.src = a.src /\ f.dst = a.dst /\ f.tmpBuf = a.dst
  /\ f.count = a.count /\ f.context = a.context /\ f.copied \in BOOLEAN

(* A frame is the real transform's own or one of its complex FFT.           *)
LEMMA FrameSorts ==
  ASSUME NEW a, NEW f \in FramesOf(a)
  PROVE  /\ f.fn \in FftFns => f \in OKFrames /\ Serves(f) = HalfFft(a)
         /\ f.fn \notin FftFns => f \in RealFramesOf(a)
BY FrameKinds, RealFramesFields DEF FramesOf, FftFns

LEMMA ForwardFrames ==
  ASSUME NEW a, ForwardJob(a), NEW s \in Seq(FramesOf(a)), s # << >>,
         NEW n, NEW x, NEW y, ForwardWay(s, n, x, y)
  PROVE  /\ Len(s) \in Nat \ {0} /\ ForwardFrame(a, s[1])
         /\ \A d \in 2..Len(s) : s[d] \in OKFrames /\ Serves(s[d]) = HalfFft(a)
<1>1. Len(s) \in Nat \ {0} /\ \A d \in 1..Len(s) : s[d] \in FramesOf(a)
  OBVIOUS
<1>2. s[1].fn \in ForwardFns
  BY DEF ForwardWay
<1>3. s[1] \in RealFramesOf(a)
  <2>1. s[1] \in FramesOf(a) /\ s[1].fn \notin FftFns
    BY <1>1, <1>2 DEF ForwardFns, FftFns
  <2> HIDE <1>1
  <2> QED BY <2>1, FrameSorts
<1>4. ForwardFrame(a, s[1])
  <2>1. s[1] \in OKRealFrames /\ s[1].copied \in BOOLEAN
    BY <1>3, RealFramesFields, RealFrameFields
  <2> QED BY <1>2, <1>3, <2>1, RealFramesFields DEF ForwardFrame, ForwardJob, ExactTable
<1>5. ASSUME NEW d \in 2..Len(s)
      PROVE  s[d] \in OKFrames /\ Serves(s[d]) = HalfFft(a)
  <2>1. Len(s) > 1 /\ s[d] \in FramesOf(a) /\ ~(Len(s) = 1)
    BY <1>1
  <2>2. AboveFfts(s, 1)
    BY <2>1 DEF ForwardWay
  <2>3. s[d].fn \in FftFns
    BY <2>2 DEF AboveFfts
  <2> QED BY <2>1, <2>3, FrameSorts
<1> QED BY <1>1, <1>4, <1>5

(* What the elements of a transform of n = 2*h numbers are told apart by.   *)
LEMMA RealTransforms ==
  ASSUME NEW n \in Nat, isPowerOfTwo(n), n >= 8, Divisor(n),
         NEW h, h = n \div 2, NEW x, HoldsPairs(x, h)
  PROVE  /\ h \in Nat \ {0} /\ n = 2 * h /\ isPowerOfTwo(h) /\ Divisor(h)
         /\ AllUntangle(h, PairTransform(x, h), SpectrumOf(x, n))
<1>1. h \in Nat \ {0} /\ n = 2 * h /\ isPowerOfTwo(h) /\ h <= n
  BY RealCounts
<1>2. Divisor(h)
  BY <1>1, PowerDivisor
<1>3. AllUntangle(h, PairTransform(x, h), SpectrumOf(x, 2 * h))
  BY <1>1, ElementUntangles DEF AllUntangle
<1> QED BY <1>1, <1>2, <1>3

(* A buffer that is long enough holds the pairs.                            *)
LEMMA BufferPairs ==
  ASSUME MemOK, NEW b \in Buffers, NEW h \in Nat, h <= BufLen[b]
  PROVE  HoldsPairs(mem[b], h)
<1>1. mem[b] \in [0..(BufLen[b] - 1) -> CkFftComplex] /\ BufLen[b] \in Nat
  BY BufferAssumption DEF MemOK, BufferType
<1> QED BY <1>1 DEF HoldsPairs

(* What the steps of a forward transform know.                              *)
LEMMA ForwardFacts ==
  ASSUME MemOK, NEW a, ForwardJob(a), NEW f, ForwardFrame(a, f),
         NEW n, n = a.count, NEW h, h = n \div 2, NEW x, x = mem[a.src]
  PROVE  /\ n \in Nat /\ h \in Nat \ {0} /\ n = 2 * h /\ isPowerOfTwo(h) /\ Divisor(h)
         /\ AllUntangle(h, PairTransform(x, h), SpectrumOf(x, n))
         /\ mem[a.dst] \in [0..(BufLen[a.dst] - 1) -> CkFftComplex]
         /\ 0..h \subseteq 0..(BufLen[a.dst] - 1)
         /\ HasTable(f.context, FALSE)
<1>1. /\ n \in Nat /\ isPowerOfTwo(n) /\ n >= 8 /\ Divisor(n)
      /\ a.src \in Buffers /\ a.dst \in Buffers
      /\ Pairs(n) <= BufLen[a.src] /\ HalfSpectrum(n) <= BufLen[a.dst]
  <2>1. f.count >= 8 /\ f.count = n
    BY RealFrameFields DEF ForwardFrame, RealFrameOK
  <2> QED BY <2>1 DEF ForwardJob
<1>2. n \notin {1, 2, 4}
  BY <1>1
<1>3. Pairs(n) = h /\ HalfSpectrum(n) = h + 1 /\ h \in Nat
  BY <1>1, <1>2, LongCounts
<1>4. HoldsPairs(x, h)
  BY <1>1, <1>3, BufferPairs
<1>5. mem[a.dst] \in [0..(BufLen[a.dst] - 1) -> CkFftComplex] /\ BufLen[a.dst] \in Nat
  BY <1>1, BufferAssumption DEF MemOK, BufferType
<1>6. HasTable(f.context, FALSE)
  BY DEF ForwardJob, ForwardFrame
<1>7. /\ h \in Nat \ {0} /\ n = 2 * h /\ isPowerOfTwo(h) /\ Divisor(h)
      /\ AllUntangle(h, PairTransform(x, h), SpectrumOf(x, n))
  BY <1>1, <1>4, RealTransforms
<1>8. 0..h \subseteq 0..(BufLen[a.dst] - 1)
  BY <1>1, <1>3, <1>5
<1> QED BY <1>1, <1>5, <1>6, <1>7, <1>8

(* The frame of a transform replaced by g, at the bottom of the stack.      *)
LEMMA ReplaceOnly ==
  ASSUME NEW S, NEW s \in Seq(S), Len(s) = 1, NEW g
  PROVE  ReplaceTop(s, g) # << >> /\ Len(ReplaceTop(s, g)) = 1 /\ ReplaceTop(s, g)[1] = g
<1> DEFINE T == S \cup {g}
<1>1. s \in Seq(T) /\ g \in T /\ s # << >>
  OBVIOUS
<1> HIDE DEF T
<1>2. Replaced(T, s, g, ReplaceTop(s, g))
  BY <1>1, ReplacedTop
<1>3. Len(ReplaceTop(s, g)) = 1 /\ ReplaceTop(s, g)[1] = g
  BY <1>2 DEF Replaced
<1> QED BY <1>3

(* A stack of one frame, without it.                                        *)
LEMMA PopOnly ==
  ASSUME NEW S, NEW s \in Seq(S), Len(s) = 1
  PROVE  SubSeq(s, 1, Len(s) - 1) = << >>
OBVIOUS

(* Its only frame is the top.                                               *)
LEMMA TopOnly ==
  ASSUME NEW S, NEW t, stack[t] \in Seq(S), Len(stack[t]) = 1
  PROVE  Top(t) = stack[t][1] /\ stack[t] # << >>
<1>1. Len(<< >>) = 0
  OBVIOUS
<1>2. ASSUME stack[t] = << >> PROVE FALSE
  <2>1. Len(stack[t]) = 0
    BY <1>1, <1>2, Zenon
  <2> QED BY <2>1
<1> QED BY <1>2 DEF Top

(* output[countDiv2] = output[0].                                           *)
LEMMA ForwardCopyStep ==
  ASSUME MemOK, NEW a, ForwardJob(a), NEW t, t \in DOMAIN stack,
         stack[t] \in Seq(FramesOf(a)), Len(stack[t]) = 1,
         NEW n, n = a.count, NEW x, x = mem[a.src], ForwardWay(stack[t], n, x, mem[a.dst]),
         NEW fn \in ForwardFns, Copy(t, fn)
  PROVE  ForwardWay(stack'[t], n, x, mem'[a.dst])
<1> DEFINE f == Top(t)
           h == n \div 2
           y == mem[a.dst]
           g == [f EXCEPT !.copied = TRUE]
           Y == [y EXCEPT ![h] = y[0]]
<1>1. f = stack[t][1] /\ stack[t] # << >>
  BY TopOnly
<1>2. ForwardFrame(a, f)
  BY <1>1, ForwardFrames
<1>3. /\ f.dst = a.dst /\ f.count = n /\ a.dst \in Buffers /\ f \in OKRealFrames
      /\ f.fn \in ForwardFns
  BY <1>2 DEF ForwardFrame, ForwardJob
<1>4. ~f.copied /\ stack'[t] = ReplaceTop(stack[t], g) /\ mem'[a.dst] = Y
  <2>1. mem' = [mem EXCEPT ![f.dst][f.count \div 2] = mem[f.dst][0]]
    BY DEF Copy
  <2>2. mem'[a.dst] = Y
    BY <1>3, <2>1 DEF MemOK
  <2> QED BY <2>2 DEF Copy
<1>5. f.i = 0 /\ HasResult(h, FALSE, x, y)
  BY <1>1, <1>4 DEF ForwardWay
<1>6. /\ h \in Nat \ {0} /\ y \in [0..(BufLen[a.dst] - 1) -> CkFftComplex]
      /\ 0..h \subseteq 0..(BufLen[a.dst] - 1)
  BY <1>2, ForwardFacts
<1>7. g.fn = f.fn /\ g.copied = TRUE /\ g.i = f.i
  <2>1. f \in RealFrame
    BY <1>3, RealFrameFields
  <2> HIDE DEF f
  <2> QED BY <2>1 DEF RealFrame
<1> HIDE DEF f, h, y, g
<1>8. UntangledSoFar(h, 0, PairTransform(x, h), SpectrumOf(x, n), Y)
  BY <1>5, <1>6, CopyRight
<1> HIDE DEF Y
<1> DEFINE r == stack'[t]
<1>9. /\ r # << >> /\ Len(r) = 1 /\ r[1] = g
  BY <1>4, ReplaceOnly
<1>10. UntangledSoFar(n \div 2, g.i, PairTransform(x, n \div 2), SpectrumOf(x, n), Y)
  BY <1>5, <1>7, <1>8 DEF h
<1> HIDE DEF r
<1>11. ForwardWay(r, n, x, Y)
  <2>1. r[1].fn \in ForwardFns /\ r[1].copied = TRUE /\ ~(Len(r) > 1)
    BY <1>3, <1>7, <1>9
  <2>2. UntangledSoFar(n \div 2, r[1].i, PairTransform(x, n \div 2), SpectrumOf(x, n), Y)
    BY <1>9, <1>10
  <2> QED BY ONLY <1>9, <2>1, <2>2, Zenon DEF ForwardWay
<1> QED BY <1>4, <1>11 DEF r

(* Whatever the loop and the end of a forward transform start from.         *)
LEMMA ForwardTop ==
  ASSUME MemOK, NEW a, ForwardJob(a), NEW t, stack[t] \in Seq(FramesOf(a)), Len(stack[t]) = 1,
         NEW n, n = a.count, NEW x, x = mem[a.src], ForwardWay(stack[t], n, x, mem[a.dst]),
         Top(t).copied, NEW h, h = n \div 2
  PROVE  /\ ForwardFrame(a, Top(t)) /\ stack[t] # << >>
         /\ UntangledSoFar(h, Top(t).i, PairTransform(x, h), SpectrumOf(x, n), mem[a.dst])
<1>1. Top(t) = stack[t][1] /\ stack[t] # << >>
  BY TopOnly
<1>2. ForwardFrame(a, Top(t))
  BY <1>1, ForwardFrames
<1>3. UntangledSoFar(n \div 2, Top(t).i, PairTransform(x, n \div 2), SpectrumOf(x, n), mem[a.dst])
  BY <1>1 DEF ForwardWay
<1> QED BY <1>1, <1>2, <1>3

(* An iteration of the loop, scalar or vector.                              *)
LEMMA ForwardLoopStep ==
  ASSUME MemOK, NEW a, ForwardJob(a), NEW t, t \in DOMAIN stack,
         stack[t] \in Seq(FramesOf(a)), Len(stack[t]) = 1,
         NEW n, n = a.count, NEW x, x = mem[a.src], ForwardWay(stack[t], n, x, mem[a.dst]),
         Top(t).copied, Top(t).i < Top(t).count \div 4,
         NEW X, NEW step \in Nat, LoopStep(t, Top(t).dst, X, step),
         LET y == mem[a.dst]
             table == context[Top(t).context].fwdExpTable
         IN  IF Top(t).fn \in VectorFns
             THEN step = 4 /\ X = VectorIteration(Top(t), y, y, table, FALSE)
             ELSE step = 1 /\ X = Iteration(Top(t), y, y, table, FALSE)
  PROVE  ForwardWay(stack'[t], n, x, mem'[a.dst])
<1> DEFINE f == Top(t)
           h == n \div 2
           y == mem[a.dst]
           g == [f EXCEPT !.i = @ + step]
           Z == PairTransform(x, h)
           S == SpectrumOf(x, n)
           table == TableOf(f.context, FALSE)
<1>1. ForwardFrame(a, f) /\ stack[t] # << >> /\ UntangledSoFar(h, f.i, Z, S, y)
  BY ForwardTop
<1>2. /\ f \in OKRealFrames /\ ExactTable(f) /\ f.dst = a.dst /\ f.tmpBuf = a.dst
      /\ f.count = n /\ f.fn \in ForwardFns
  BY <1>1 DEF ForwardFrame
<1>3. stack'[t] = ReplaceTop(stack[t], g) /\ mem'[a.dst] = X
  <2>1. mem' = [mem EXCEPT ![f.dst] = X]
    BY DEF LoopStep
  <2>2. a.dst \in DOMAIN mem
    BY DEF MemOK, ForwardJob
  <2> QED BY <1>2, <2>1, <2>2 DEF LoopStep
<1>4. g.fn = f.fn /\ g.copied = TRUE /\ g.i = f.i + step
  <2>1. f \in RealFrame /\ f.copied = TRUE
    BY <1>2, RealFrameFields
  <2> HIDE DEF f
  <2> QED BY <2>1 DEF RealFrame
<1>5. /\ HasTable(f.context, FALSE) /\ h \in Nat \ {0}
      /\ AllUntangle(h, Z, S) /\ y = mem[f.tmpBuf] /\ h = f.count \div 2
  BY <1>1, <1>2, ForwardFacts
<1>6. /\ f.fn \notin VectorFns => step = 1 /\ X = Iteration(f, y, y, table, FALSE)
      /\ f.fn \in VectorFns => step = 4 /\ X = VectorIteration(f, y, y, table, FALSE)
  BY DEF TableOf
<1>7. f.i < f.count \div 4
  OBVIOUS
<1> HIDE DEF f, h, y, g, Z, S
<1>8. /\ f.fn \notin VectorFns => UntangledSoFar(h, f.i + 1, Z, S, Iteration(f, y, y, table, FALSE))
      /\ f.fn \in VectorFns => UntangledSoFar(h, f.i + 4, Z, S, VectorIteration(f, y, y, table, FALSE))
  <2>1. UntangledSoFar(h, f.i, Z, S, mem[f.tmpBuf])
    BY <1>1, <1>5
  <2> HIDE DEF table
  <2>2. table = TableOf(f.context, FALSE)
    BY DEF table
  <2> QED BY <1>2, <1>5, <1>7, <2>1, <2>2, ForwardLoopRight
<1> HIDE DEF table
<1>9. UntangledSoFar(h, g.i, Z, S, X)
  BY <1>4, <1>6, <1>8
<1> DEFINE r == stack'[t]
<1>10. r # << >> /\ Len(r) = 1 /\ r[1] = g
  BY <1>3, ReplaceOnly
<1> HIDE DEF r
<1>11. ForwardWay(r, n, x, X)
  <2>1. r[1].fn \in ForwardFns /\ r[1].copied = TRUE /\ ~(Len(r) > 1)
    BY <1>2, <1>4, <1>10
  <2>2. UntangledSoFar(n \div 2, r[1].i, PairTransform(x, n \div 2), SpectrumOf(x, n), X)
    BY <1>9, <1>10 DEF h, Z, S
  <2> QED BY ONLY <1>10, <2>1, <2>2, Zenon DEF ForwardWay
<1> QED BY <1>3, <1>11 DEF r

(* After the loop, only the middle element is left.                         *)
LEMMA ForwardMiddleStep ==
  ASSUME MemOK, NEW a, ForwardJob(a), NEW t, t \in DOMAIN stack,
         stack[t] \in Seq(FramesOf(a)), Len(stack[t]) = 1,
         NEW n, n = a.count, NEW x, x = mem[a.src], ForwardWay(stack[t], n, x, mem[a.dst]),
         Top(t).copied, Top(t).i >= Top(t).count \div 4,
         NEW X, ForwardEnd(t, X),
         LET y == mem[a.dst]
         IN  X = IF Top(t).fn \in VectorFns
                 THEN IF Top(t).count > 8 THEN Middle(y, y, Top(t).i) ELSE y
                 ELSE Middle(y, y, Top(t).count \div 4)
  PROVE  ForwardWay(stack'[t], n, x, mem'[a.dst])
<1> DEFINE f == Top(t)
           h == n \div 2
           y == mem[a.dst]
           Z == PairTransform(x, h)
           S == SpectrumOf(x, n)
           D == 0..(BufLen[a.dst] - 1)
<1>1. ForwardFrame(a, f) /\ stack[t] # << >> /\ UntangledSoFar(h, f.i, Z, S, y)
  BY ForwardTop
<1>2. f \in OKRealFrames /\ f.dst = a.dst /\ f.count = n
  BY <1>1 DEF ForwardFrame
<1>3. stack'[t] = << >> /\ mem'[a.dst] = X
  <2>1. mem' = [mem EXCEPT ![f.dst] = X]
    BY DEF ForwardEnd
  <2>2. a.dst \in DOMAIN mem
    BY DEF MemOK, ForwardJob
  <2>3. stack'[t] = SubSeq(stack[t], 1, Len(stack[t]) - 1)
    BY DEF ForwardEnd, Return
  <2> QED BY <1>2, <2>1, <2>2, <2>3, PopOnly
<1>4. /\ h \in Nat \ {0} /\ AllUntangle(h, Z, S) /\ h = f.count \div 2
      /\ y \in [D -> CkFftComplex] /\ 0..h \subseteq D
  BY <1>1, <1>2, ForwardFacts
<1>5. f.i >= f.count \div 4
  OBVIOUS
<1>6. /\ f.fn \notin VectorFns => X = Middle(y, y, f.count \div 4)
      /\ f.fn \in VectorFns => X = IF f.count > 8 THEN Middle(y, y, f.i) ELSE y
  OBVIOUS
<1> HIDE DEF f, h, y, Z, S, D
<1>7. /\ f.fn \notin VectorFns =>
           \A k \in 0..h : Middle(y, y, f.count \div 4)[k] = S[k]
      /\ f.fn \in VectorFns =>
           \A k \in 0..h : (IF f.count > 8 THEN Middle(y, y, f.i) ELSE y)[k] = S[k]
  <2>1. ForwardMiddled(f, h, y, S)
    BY <1>1, <1>2, <1>4, <1>5, ForwardMiddleRight
  <2> QED BY ONLY <2>1 DEF ForwardMiddled
<1>8. \A k \in 0..h : X[k] = S[k]
  BY ONLY <1>6, <1>7
<1>9. HasSpectrum(n, x, X)
  BY ONLY <1>8 DEF HasSpectrum, h, S
<1> QED BY <1>3, <1>9 DEF ForwardWay

(* The frames of a call are good ones.                                      *)
LEMMA SeqOfFrames ==
  ASSUME NEW a, NEW s \in Seq(FramesOf(a))
  PROVE  s \in Seq(OKFrames \cup OKRealFrames)
<1>1. FramesOf(a) \subseteq OKFrames \cup OKRealFrames
  BY RealFramesFields DEF FramesOf
<1> QED BY <1>1

(* The first frame of a complex FFT works on all of it.                     *)
LEMMA FirstTotal ==
  ASSUME NEW f \in OKFrames, FirstCall(f)
  PROVE  f.count = Total(f)
<1>1. f.stride = 1 /\ f.count \in Nat
  BY FrameFields DEF FirstCall
<1> QED BY <1>1 DEF Total

(* A sequence with an element.                                              *)
LEMMA NotEmpty ==
  ASSUME NEW s, Len(s) \in Nat, Len(s) >= 1
  PROVE  s # << >>
<1>1. Len(<< >>) = 0
  OBVIOUS
<1> SUFFICES ASSUME s = << >> PROVE FALSE
  OBVIOUS
<1>2. Len(s) = 0
  BY <1>1, Zenon
<1> QED BY <1>2

(* The complex FFT goes on, and when it returns its result is there.        *)
LEMMA ForwardFftStep ==
  ASSUME MemOK, NEW a, ForwardJob(a), NEW t, t \in DOMAIN stack,
         stack[t] \in Seq(FramesOf(a)), Len(stack[t]) > 1,
         NEW n, n = a.count, NEW x, x = mem[a.src], ForwardWay(stack[t], n, x, mem[a.dst]),
         FftStep(t), NEW T, stack'[t] \in Seq(T)
  PROVE  ForwardWay(stack'[t], n, x, mem'[a.dst])
<1> DEFINE s == stack[t]
           r == stack'[t]
           S == OKFrames \cup OKRealFrames
           h == n \div 2
           Y == mem'[a.dst]
<1>1. s # << >> /\ Len(s) \in Nat /\ ~(Len(s) = 1)
  <2>1. Len(s) \in Nat /\ Len(s) > 1
    OBVIOUS
  <2> HIDE DEF s
  <2>4. \A k \in Nat : k > 1 => k >= 1 /\ ~(k = 1)
    OBVIOUS
  <2>2. Len(s) >= 1 /\ ~(Len(s) = 1)
    BY ONLY <2>1, <2>4, Zenon
  <2>3. s # << >>
    BY <2>1, <2>2, NotEmpty
  <2> QED BY ONLY <2>1, <2>2, <2>3
<1>2. /\ ForwardFrame(a, s[1])
      /\ \A d \in 2..Len(s) : s[d] \in OKFrames /\ Serves(s[d]) = HalfFft(a)
  BY <1>1, ForwardFrames
<1>3. ForwardWay(s, n, x, mem[a.dst])
  OBVIOUS
<1>4. /\ s[1].fn \in ForwardFns /\ ~s[1].copied /\ s[1].i = 0
      /\ AboveFfts(s, 1) /\ Progress(s, 1, x, mem[a.dst])
  BY <1>1, <1>3 DEF ForwardWay
<1>5. HalfFft(a) = [context |-> a.context, src |-> a.src, dst |-> a.dst, count |-> h,
                    inverse |-> FALSE]
  BY DEF HalfFft, ForwardJob
<1>6. s \in Seq(S) /\ OKFrames \subseteq S
  BY SeqOfFrames
<1>7. \A d \in 2..Len(s) : s[d].src = a.src /\ s[d].dst = a.dst /\ ExactTable(s[d])
  <2> TAKE d \in 2..Len(s)
  <2>1. s[d].context = a.context /\ s[d].src = a.src /\ s[d].dst = a.dst
    <3> DEFINE f == s[d]
    <3>1. Serves(f) = [context |-> a.context, src |-> a.src, dst |-> a.dst, count |-> h,
                       inverse |-> FALSE]
      BY <1>2, <1>5
    <3> HIDE DEF f, h
    <3>2. f.context = a.context /\ f.src = a.src /\ f.dst = a.dst
      BY <3>1 DEF Serves
    <3> QED BY <3>2 DEF f
  <2> QED BY <2>1 DEF ExactTable, ForwardJob
<1>8. Working(S, t, 1, a.src, a.dst)
  <2>1. Recursion(S, s, 1)
    <3> HIDE DEF s, S
    <3> QED BY <1>1, <1>2, <1>6 DEF Recursion
  <2> QED BY <1>4, <1>7, <2>1 DEF Working
<1>9. /\ Top(t) \in OKFrames /\ Top(t) = s[Len(s)]
  BY <1>8, TopWorking
<1>10. After(t, 1, x, Y)
  <2>1. Len(stack[t]) > 1
    OBVIOUS
  <2> HIDE DEF S
  <2> QED BY <1>8, <2>1, FftStepResult
<1>11. AboveFfts(r, 1)
  <2>1. Top(t) \in Frame
    BY <1>9, FrameKinds
  <2> HIDE DEF S
  <2> QED BY <1>4, <1>6, <2>1, FftStepAbove
<1>12. /\ Len(r) >= 1 /\ r[1] = s[1]
       /\ Len(r) = 1 => FirstCall(Top(t)) /\ Done(Top(t), x, Y)
       /\ Len(r) # 1 => Progress(r, 1, x, Y)
  BY <1>9, <1>10 DEF After, AfterStack
<1>13. Len(r) = 1 => HasResult(h, FALSE, x, Y)
  <2> SUFFICES ASSUME Len(r) = 1 PROVE HasResult(h, FALSE, x, Y)
    OBVIOUS
  <2> DEFINE f == Top(t)
  <2>1. f \in OKFrames /\ FirstCall(f) /\ Done(f, x, Y)
    BY <1>9, <1>12
  <2>2. Serves(f) = HalfFft(a)
    <3>1. Len(s) \in 2..Len(s)
      BY <1>1
    <3> QED BY <1>2, <1>9, <3>1
  <2> HIDE DEF f
  <2>3. f.inverse = FALSE /\ Total(f) = h
    BY <1>5, <2>2 DEF Serves
  <2>4. f.count = h
    BY <2>1, <2>3, FirstTotal
  <2>5. HasResult(f.count, f.inverse, x, Y)
    BY <2>1, FirstResult
  <2> QED BY <2>3, <2>4, <2>5
<1>14. Len(r) \in Nat
  OBVIOUS
<1> HIDE DEF s, r, Y, S
<1>15. Len(r) >= 1
  BY <1>12
<1>16. r # << >>
  BY <1>14, <1>15, NotEmpty
<1>18. Len(r) > 1 => Progress(r, 1, x, Y)
  <2>2. \A k \in Nat : k > 1 => k # 1
    OBVIOUS
  <2>1. Len(r) > 1 => Len(r) # 1
    BY ONLY <1>14, <2>2, Zenon
  <2> QED BY ONLY <1>12, <2>1, Zenon
<1>17. ForwardWay(r, n, x, Y)
  BY <1>4, <1>11, <1>12, <1>13, <1>14, <1>15, <1>16, <1>18 DEF ForwardWay, h
<1> QED BY <1>17 DEF r, Y

(* Which functions take which steps.                                        *)
LEMMA FftStepRuns ==
  ASSUME NEW t, FftStep(t)
  PROVE  stack[t] # << >> /\ Top(t).fn \in FftFns
BY DEF FftStep, FftDefaultStep, FftNeonStep, FftDefault4, FftDefault8, FftDefaultRecurse,
       FftDefaultCombine, FftDefaultReturn, FftNeon4, FftNeon8, FftNeonRecurse,
       FftNeonCombine, FftNeonReturn, Combining, General, Running, FftFns

LEMMA RealStepRuns ==
  ASSUME NEW t, RealDefaultStep(t) \/ RealNeonStep(t)
  PROVE  stack[t] # << >> /\ Top(t).fn \in ForwardFns \cup InverseFns
BY DEF RealDefaultStep, RealNeonStep, RealForwardCopy, RealForwardLoop, RealForwardMiddle,
       RealInverseLoop, RealInverseMiddle, NeonForwardCopy, NeonForwardLoop,
       NeonForwardMiddle, NeonInverseLoop, NeonInverseMiddle, Copy, Looping, Looped,
       Running, ForwardFns, InverseFns

(* The steps of a forward transform's own frame.                            *)
LEMMA ForwardOwnStep ==
  ASSUME MemOK, NEW a, ForwardJob(a), NEW t, t \in DOMAIN stack,
         stack[t] \in Seq(FramesOf(a)), Len(stack[t]) = 1,
         NEW n, n = a.count, NEW x, x = mem[a.src], ForwardWay(stack[t], n, x, mem[a.dst]),
         RealDefaultStep(t) \/ RealNeonStep(t)
  PROVE  ForwardWay(stack'[t], n, x, mem'[a.dst])
<1> DEFINE f == Top(t)
           y == mem[a.dst]
           table == context[f.context].fwdExpTable
<1>1. f = stack[t][1] /\ stack[t] # << >>
  BY TopOnly
<1>2. ForwardFrame(a, f)
  BY <1>1, ForwardFrames
<1>3. f.fn \in ForwardFns /\ f.dst = a.dst
  BY <1>2 DEF ForwardFrame
<1>4. CASE \E fn \in ForwardFns : Copy(t, fn)
  <2>1. PICK fn \in ForwardFns : Copy(t, fn)
    BY <1>4
  <2> QED BY <2>1, ForwardCopyStep
<1>5. CASE RealForwardLoop(t)
  <2> DEFINE X == Iteration(f, y, y, table, FALSE)
  <2>1. /\ f.fn \notin VectorFns /\ f.copied /\ f.i < f.count \div 4
        /\ LoopStep(t, f.dst, X, 1)
    BY <1>3, <1>5 DEF RealForwardLoop, Looping, Running, VectorFns
  <2>2. X = Iteration(f, y, y, table, FALSE) /\ 1 \in Nat
    OBVIOUS
  <2> HIDE DEF X
  <2> QED BY <2>1, <2>2, ForwardLoopStep
<1>6. CASE NeonForwardLoop(t)
  <2> DEFINE X == VectorIteration(f, y, y, table, FALSE)
  <2>1. /\ f.fn \in VectorFns /\ f.copied /\ f.i < f.count \div 4
        /\ LoopStep(t, f.dst, X, 4)
    BY <1>3, <1>6 DEF NeonForwardLoop, Looping, Running, VectorFns
  <2>2. X = VectorIteration(f, y, y, table, FALSE) /\ 4 \in Nat
    OBVIOUS
  <2> HIDE DEF X
  <2> QED BY <2>1, <2>2, ForwardLoopStep
<1>7. CASE RealForwardMiddle(t)
  <2> DEFINE X == Middle(y, y, f.count \div 4)
  <2>1. /\ f.fn \notin VectorFns /\ f.copied /\ f.i >= f.count \div 4
        /\ ForwardEnd(t, X)
    BY <1>3, <1>7 DEF RealForwardMiddle, Looped, Running, VectorFns
  <2>2. X = Middle(y, y, f.count \div 4)
    OBVIOUS
  <2> HIDE DEF X
  <2> QED BY <2>1, <2>2, ForwardMiddleStep
<1>8. CASE NeonForwardMiddle(t)
  <2> DEFINE X == IF f.count > 8 THEN Middle(y, y, f.i) ELSE y
  <2>1. /\ f.fn \in VectorFns /\ f.copied /\ f.i >= f.count \div 4
        /\ ForwardEnd(t, X)
    BY <1>3, <1>8 DEF NeonForwardMiddle, Looped, Running, VectorFns
  <2>2. X = IF f.count > 8 THEN Middle(y, y, f.i) ELSE y
    OBVIOUS
  <2> HIDE DEF X
  <2> QED BY <2>1, <2>2, ForwardMiddleStep
<1>9. ~(\/ RealInverseLoop(t) \/ RealInverseMiddle(t) \/ NeonInverseLoop(t)
        \/ NeonInverseMiddle(t))
  BY <1>3 DEF ForwardFns, RealInverseLoop, RealInverseMiddle, NeonInverseLoop,
              NeonInverseMiddle, Looping, Looped, Running
<1>10. \/ \E fn \in ForwardFns : Copy(t, fn)
       \/ RealForwardLoop(t) \/ NeonForwardLoop(t)
       \/ RealForwardMiddle(t) \/ NeonForwardMiddle(t)
  BY <1>9 DEF RealDefaultStep, RealNeonStep, RealForwardCopy, NeonForwardCopy, ForwardFns
<1> QED BY <1>4, <1>5, <1>6, <1>7, <1>8, <1>10

(* A step of a forward transform brings it nearer to its result.            *)
LEMMA ForwardStep ==
  ASSUME MemOK, NEW a, ForwardJob(a), NEW t, t \in DOMAIN stack,
         stack[t] \in Seq(FramesOf(a)), NEW T, stack'[t] \in Seq(T),
         NEW n, n = a.count, NEW x, x = mem[a.src], ForwardWay(stack[t], n, x, mem[a.dst]),
         FftRealStep(t)
  PROVE  ForwardWay(stack'[t], n, x, mem'[a.dst])
<1>1. stack[t] # << >> /\ \/ FftStep(t) \/ RealDefaultStep(t) \/ RealNeonStep(t)
  BY FftStepRuns, RealStepRuns DEF FftRealStep
<1>2. /\ Len(stack[t]) \in Nat \ {0} /\ ForwardFrame(a, stack[t][1])
      /\ \A d \in 2..Len(stack[t]) : stack[t][d] \in OKFrames
  BY <1>1, ForwardFrames
<1>3. ForwardFns \cup InverseFns = {"fft_real_default", "fft_real_neon",
        "fft_real_inverse_default", "fft_real_inverse_neon"}
      /\ FftFns = {"fft_default", "fft_neon"}
  BY DEF ForwardFns, InverseFns, FftFns
<1>4. CASE Len(stack[t]) = 1
  <2>1. Top(t).fn \in ForwardFns
    BY <1>2, <1>4, TopOnly DEF ForwardFrame
  <2>2. ~FftStep(t)
    BY <1>3, <2>1, FftStepRuns DEF ForwardFns
  <2> QED BY <1>1, <1>4, <2>2, ForwardOwnStep
<1>5. CASE Len(stack[t]) # 1
  <2>1. Len(stack[t]) > 1 /\ Len(stack[t]) \in 2..Len(stack[t])
    <3>1. \A k \in Nat \ {0} : k # 1 => k > 1 /\ k \in 2..k
      OBVIOUS
    <3> QED BY ONLY <1>2, <1>5, <3>1, Zenon
  <2>2. Top(t).fn \in FftFns
    BY <1>2, <2>1, FrameKinds DEF Top, FftFns
  <2>3. FftStep(t)
    BY <1>1, <1>3, <2>2, RealStepRuns DEF ForwardFns, InverseFns, FftFns
  <2> QED BY <2>1, <2>3, ForwardFftStep
<1> QED BY <1>4, <1>5

(* A forward transform begins.                                              *)
LEMMA ForwardStart ==
  ASSUME MemOK, NEW a, ForwardJob(a), NEW t, t \in DOMAIN stack, stack[t] = << >>,
         context[a.context].neon => ArmNeon,
         NEW n, n = a.count, fft_real(t, a.context, a.src, a.dst, n)
  PROVE  ForwardWay(stack'[t], n, mem'[a.src], mem'[a.dst])
<1> DEFINE c == a.context
           src == a.src
           dst == a.dst
           x == mem'[src]
           y == mem'[dst]
           r == stack'[t]
<1>1. /\ src \in Buffers /\ dst \in Buffers /\ src # dst /\ n \in Nat
      /\ Pairs(n) <= BufLen[src] /\ HalfSpectrum(n) <= BufLen[dst]
  BY DEF ForwardJob
<1>2. CASE n \in {1, 2, 4}
  <2>1. mem' = [mem EXCEPT ![dst] = RealTrivial(src, dst, n)] /\ r = << >>
    BY <1>2 DEF fft_real
  <2>2. x = mem[src] /\ y = RealTrivial(src, dst, n)
    BY <1>1, <2>1 DEF MemOK
  <2>3. HasSpectrum(n, x, y)
    BY <1>1, <1>2, <2>2, RealTrivialRight
  <2> HIDE DEF x, y, r
  <2>4. ForwardWay(r, n, x, y)
    BY <2>1, <2>3 DEF ForwardWay
  <2> QED BY <2>4 DEF x, y, r
<1>3. CASE n \notin {1, 2, 4}
  <2>1. PICK fn \in ForwardFns, fftFn \in FftFns : r = Forwards(fn, fftFn, c, src, dst, n)
    <3>1. CASE context[c].neon
      <4>1. r = Forwards("fft_real_neon", "fft_neon", c, src, dst, n)
        BY <1>3, <3>1 DEF fft_real, fft_real_neon
      <4> QED BY <4>1 DEF ForwardFns, FftFns
    <3>2. CASE ~context[c].neon
      <4>1. r = Forwards("fft_real_default", "fft_default", c, src, dst, n)
        BY <1>3, <3>2 DEF fft_real, fft_real_default
      <4> QED BY <4>1 DEF ForwardFns, FftFns
    <3> QED BY <3>1, <3>2
  <2> DEFINE f == RealCall(fn, c, src, dst, dst, n)
             g == FftCall(fftFn, c, src, dst, n \div 2, FALSE)
  <2>2. r = << f, g >>
    BY <2>1 DEF Forwards
  <2>3. f.fn = fn /\ f.i = 0 /\ ~f.copied /\ g.fn = fftFn
    BY DEF RealCall, FftCall, ForwardFns
  <2> HIDE DEF f, r, x, y
  <2>4. Len(r) = 2 /\ r[1] = f /\ r[2] = g
    BY <2>2
  <2>5. Len(r) = 1 + 1 /\ r[1 + 1] = g /\ 1 \in Nat
    <3>1. 1 + 1 = 2 /\ 1 \in Nat
      OBVIOUS
    <3> QED BY ONLY <2>4, <3>1, Zenon
  <2>6. Progress(r, 1, x, y)
    BY <2>5, ProgressStart
  <2> HIDE DEF g
  <2>7. AboveFfts(r, 1)
    BY <2>3, <2>4 DEF AboveFfts
  <2>8. r # << >> /\ ~(Len(r) = 1)
    <3>1. Len(r) \in Nat /\ Len(r) >= 1 /\ ~(Len(r) = 1)
      BY <2>4
    <3>2. r # << >>
      BY <3>1, NotEmpty
    <3> QED BY <3>1, <3>2
  <2>9. ForwardWay(r, n, x, y)
    BY <2>3, <2>4, <2>6, <2>7, <2>8 DEF ForwardWay
  <2> QED BY <2>9 DEF r, x, y
<1> QED BY <1>2, <1>3

-----------------------------------------------------------------------------
(***************************************************************************)
(* An inverse transform, step by step.                                      *)
(***************************************************************************)

(* An inverse transform, as ckfft.h wants it called.                        *)
InverseJob(a) ==
  /\ a.op = "inverse" /\ a.src \in Buffers /\ a.dst \in Buffers /\ a.tmpBuf \in Buffers
  /\ a.src # a.dst /\ a.src # a.tmpBuf /\ a.dst # a.tmpBuf /\ a.context \in Contexts
  /\ a.count \in Nat /\ isPowerOfTwo(a.count) /\ Divisor(a.count)
  /\ HalfSpectrum(a.count) <= BufLen[a.src] /\ Pairs(a.count) <= BufLen[a.dst]
  /\ HalfSpectrum(a.count) <= BufLen[a.tmpBuf]
  /\ HasTable(a.context, TRUE) /\ Divisor(context[a.context].maxCount)

(* What the inverse complex FFT is given: the transform of the pairs of d,  *)
(* scaled by 4.                                                             *)
Tangles(n, d, w) == FoursTo(n \div 2, d, w)

(***************************************************************************)
(* How far an inverse transform of n elements, with call stack s, input x,  *)
(* temporary buffer w and output y, has come, when x is the spectrum of d:  *)
(* to the end; into its loop; or into the complex FFT it ends with.         *)
(***************************************************************************)
InverseWay(s, n, d, x, w, y) ==
  IF s = << >> THEN ScaledBack(n, d, y)
  ELSE /\ s[1].fn \notin FftFns =>
            /\ Len(s) = 1 /\ HasSpectrum(n, d, x)
            /\ TangledSoFar(n \div 2, s[1].i, FourOf(n \div 2, PairTransform(d, n \div 2)), w)
       /\ s[1].fn \in FftFns =>
            n >= 8 /\ AboveFfts(s, 0) /\ Tangles(n, d, w) /\ Progress(s, 0, w, y)

(* The data that an inverse transform goes back to.                         *)
RealData(n, d) == HasFloats(d, n) /\ (n >= 8 => HoldsPairs(d, n \div 2))

InverseFrame(a, f) ==
  /\ f \in OKRealFrames /\ f.fn \in InverseFns /\ ExactTable(f)
  /\ f.src = a.src /\ f.dst = a.dst /\ f.tmpBuf = a.tmpBuf
  /\ f.count = a.count /\ f.context = a.context

(* The frames of an inverse transform: its own, then the FFT's in its       *)
(* place.                                                                   *)
LEMMA InverseFrames ==
  ASSUME NEW a, InverseJob(a), NEW f \in FramesOf(a)
  PROVE  /\ f.fn \in FftFns => f \in OKFrames /\ Serves(f) = HalfFft(a)
         /\ f.fn \notin FftFns => InverseFrame(a, f)
<1>1. ASSUME f.fn \notin FftFns PROVE InverseFrame(a, f)
  <2>1. f \in RealFramesOf(a)
    BY <1>1, FrameSorts
  <2>2. FnsOf(a) = InverseFns
    BY DEF FnsOf, InverseJob
  <2> QED BY <2>1, <2>2, RealFramesFields DEF InverseFrame, InverseJob, ExactTable
<1> QED BY <1>1, FrameSorts

(* What the steps of an inverse transform know.                             *)
LEMMA InverseFacts ==
  ASSUME MemOK, NEW a, InverseJob(a), NEW f, InverseFrame(a, f), NEW d, RealData(a.count, d),
         NEW n, n = a.count, NEW h, h = n \div 2
  PROVE  /\ n \in Nat /\ h \in Nat \ {0} /\ n = 2 * h /\ isPowerOfTwo(h) /\ Divisor(h)
         /\ AllUntangle(h, PairTransform(d, h), SpectrumOf(d, n))
         /\ mem[a.tmpBuf] \in [0..(BufLen[a.tmpBuf] - 1) -> CkFftComplex]
         /\ 0..h \subseteq 0..(BufLen[a.tmpBuf] - 1)
         /\ HasTable(f.context, TRUE)
<1>1. /\ n \in Nat /\ isPowerOfTwo(n) /\ n >= 8 /\ Divisor(n)
      /\ a.tmpBuf \in Buffers /\ HalfSpectrum(n) <= BufLen[a.tmpBuf]
  <2>1. f.count >= 8 /\ f.count = n
    BY RealFrameFields DEF InverseFrame, RealFrameOK
  <2> QED BY <2>1 DEF InverseJob
<1>2. n \notin {1, 2, 4}
  BY <1>1
<1>3. HalfSpectrum(n) = h + 1 /\ h \in Nat
  BY <1>1, <1>2, LongCounts
<1>4. HoldsPairs(d, h)
  BY <1>1 DEF RealData
<1>5. mem[a.tmpBuf] \in [0..(BufLen[a.tmpBuf] - 1) -> CkFftComplex]
      /\ BufLen[a.tmpBuf] \in Nat
  BY <1>1, BufferAssumption DEF MemOK, BufferType
<1>6. HasTable(f.context, TRUE)
  BY DEF InverseJob, InverseFrame
<1>7. /\ h \in Nat \ {0} /\ n = 2 * h /\ isPowerOfTwo(h) /\ Divisor(h)
      /\ AllUntangle(h, PairTransform(d, h), SpectrumOf(d, n))
  BY <1>1, <1>4, RealTransforms
<1>8. 0..h \subseteq 0..(BufLen[a.tmpBuf] - 1)
  BY <1>1, <1>3, <1>5
<1> QED BY <1>1, <1>5, <1>6, <1>7, <1>8

(* Whatever the loop and the end of an inverse transform start from.        *)
LEMMA InverseTop ==
  ASSUME NEW a, InverseJob(a), NEW t, stack[t] \in Seq(FramesOf(a)), stack[t] # << >>,
         Top(t).fn \notin FftFns,
         NEW n, NEW d, NEW x, NEW w, NEW y, InverseWay(stack[t], n, d, x, w, y),
         NEW h, h = n \div 2
  PROVE  /\ Len(stack[t]) = 1 /\ InverseFrame(a, Top(t)) /\ HasSpectrum(n, d, x)
         /\ TangledSoFar(h, Top(t).i, FourOf(h, PairTransform(d, h)), w)
<1> DEFINE s == stack[t]
<1>1. Len(s) \in Nat \ {0}
  OBVIOUS
<1>2. ASSUME s[1].fn \in FftFns PROVE FALSE
  <2>1. AboveFfts(s, 0)
    BY <1>2 DEF InverseWay
  <2>2. Len(s) \in (0 + 1)..Len(s)
    BY <1>1
  <2>3. Top(t).fn \in FftFns
    BY <2>1, <2>2 DEF AboveFfts, Top
  <2> QED BY <2>3
<1>3. /\ Len(s) = 1 /\ HasSpectrum(n, d, x)
      /\ TangledSoFar(n \div 2, s[1].i, FourOf(n \div 2, PairTransform(d, n \div 2)), w)
  BY <1>2 DEF InverseWay
<1>4. Top(t) = s[1]
  BY <1>3, TopOnly
<1>5. Top(t) \in FramesOf(a)
  BY TopInStack
<1>6. InverseFrame(a, Top(t))
  <2> DEFINE f == Top(t)
  <2>1. f \in FramesOf(a) /\ f.fn \notin FftFns
    BY <1>5
  <2> HIDE DEF f
  <2>2. InverseFrame(a, f)
    BY <2>1, InverseFrames
  <2> QED BY <2>2 DEF f
<1> QED BY <1>3, <1>4, <1>6

(* An iteration of the loop, scalar or vector.                              *)
LEMMA InverseLoopStep ==
  ASSUME MemOK, NEW a, InverseJob(a), NEW t, t \in DOMAIN stack,
         stack[t] \in Seq(FramesOf(a)), stack[t] # << >>, Top(t).fn \notin FftFns,
         NEW n, n = a.count, NEW d, RealData(n, d),
         NEW x, x = mem[a.src], InverseWay(stack[t], n, d, x, mem[a.tmpBuf], mem[a.dst]),
         Top(t).i < Top(t).count \div 4,
         NEW X, NEW step \in Nat, LoopStep(t, Top(t).tmpBuf, X, step),
         LET w == mem[a.tmpBuf]
             table == context[Top(t).context].invExpTable
         IN  IF Top(t).fn \in VectorFns
             THEN step = 4 /\ X = VectorIteration(Top(t), x, w, table, TRUE)
             ELSE step = 1 /\ X = Iteration(Top(t), x, w, table, TRUE)
  PROVE  InverseWay(stack'[t], n, d, x, mem'[a.tmpBuf], mem'[a.dst])
<1> DEFINE f == Top(t)
           h == n \div 2
           w == mem[a.tmpBuf]
           g == [f EXCEPT !.i = @ + step]
           Z == PairTransform(d, h)
           S == SpectrumOf(d, n)
           V == FourOf(h, Z)
           table == TableOf(f.context, TRUE)
<1>1. /\ Len(stack[t]) = 1 /\ InverseFrame(a, f) /\ HasSpectrum(n, d, x)
      /\ TangledSoFar(h, f.i, V, w)
  BY InverseTop
<1>2. /\ f \in OKRealFrames /\ ExactTable(f) /\ f.tmpBuf = a.tmpBuf
      /\ f.count = n /\ f.fn \in InverseFns
  BY <1>1 DEF InverseFrame
<1>3. stack'[t] = ReplaceTop(stack[t], g) /\ mem'[a.tmpBuf] = X
  <2>1. mem' = [mem EXCEPT ![f.tmpBuf] = X]
    BY DEF LoopStep
  <2>2. a.tmpBuf \in DOMAIN mem
    BY DEF MemOK, InverseJob
  <2> QED BY <1>2, <2>1, <2>2 DEF LoopStep
<1>4. g.fn = f.fn /\ g.i = f.i + step
  <2>1. f \in RealFrame
    BY <1>2, RealFrameFields
  <2> HIDE DEF f
  <2> QED BY <2>1 DEF RealFrame
<1>5. /\ HasTable(f.context, TRUE) /\ h \in Nat \ {0}
      /\ AllUntangle(h, Z, S) /\ w = mem[f.tmpBuf] /\ h = f.count \div 2
  BY <1>1, <1>2, InverseFacts
<1>6. /\ f.fn \notin VectorFns => step = 1 /\ X = Iteration(f, x, w, table, TRUE)
      /\ f.fn \in VectorFns => step = 4 /\ X = VectorIteration(f, x, w, table, TRUE)
  BY DEF TableOf
<1>7. f.i < f.count \div 4
  OBVIOUS
<1>8. \A k \in 0..h : x[k] = S[k]
  BY <1>1 DEF HasSpectrum
<1> HIDE DEF f, h, w, g, Z, S, V
<1>9. /\ f.fn \notin VectorFns => TangledSoFar(h, f.i + 1, V, Iteration(f, x, w, table, TRUE))
      /\ f.fn \in VectorFns => TangledSoFar(h, f.i + 4, V, VectorIteration(f, x, w, table, TRUE))
  <2>1. TangledSoFar(h, f.i, V, mem[f.tmpBuf]) /\ V = FourOf(h, Z)
    BY <1>1, <1>5 DEF V
  <2> HIDE DEF table
  <2>2. table = TableOf(f.context, TRUE)
    BY DEF table
  <2>3. HasTable(f.context, TRUE) /\ AllUntangle(h, Z, S) /\ h = f.count \div 2
    BY <1>5
  <2>4. /\ f.fn \notin VectorFns =>
             TangledSoFar(h, f.i + 1, V, Iteration(f, x, mem[f.tmpBuf], table, TRUE))
        /\ f.fn \in VectorFns =>
             TangledSoFar(h, f.i + 4, V, VectorIteration(f, x, mem[f.tmpBuf], table, TRUE))
    BY ONLY MemOK, <1>2, <1>7, <1>8, <2>1, <2>2, <2>3, InverseLoopRight
  <2> QED BY <1>5, <2>4
<1> HIDE DEF table
<1>10. TangledSoFar(h, g.i, V, X)
  BY <1>4, <1>6, <1>9
<1> DEFINE r == stack'[t]
<1>11. r # << >> /\ Len(r) = 1 /\ r[1] = g
  BY <1>1, <1>3, ReplaceOnly
<1> HIDE DEF r
<1> DEFINE y == mem'[a.dst]
<1> HIDE DEF y
<1>12. InverseWay(r, n, d, x, X, y)
  <2>1. r[1].fn \notin FftFns
    BY <1>2, <1>4, <1>11 DEF InverseFns, FftFns
  <2>2. TangledSoFar(n \div 2, r[1].i, FourOf(n \div 2, PairTransform(d, n \div 2)), X)
    BY <1>10, <1>11 DEF h, Z, V
  <2> QED BY ONLY <1>1, <1>11, <2>1, <2>2, Zenon DEF InverseWay
<1> QED BY <1>3, <1>12 DEF r, y

(* The middle element, and the inverse complex FFT begins.                  *)
LEMMA InverseMiddleStep ==
  ASSUME MemOK, NEW a, InverseJob(a), NEW t, t \in DOMAIN stack,
         stack[t] \in Seq(FramesOf(a)), stack[t] # << >>, Top(t).fn \notin FftFns,
         NEW n, n = a.count, NEW d, RealData(n, d),
         NEW x, x = mem[a.src], InverseWay(stack[t], n, d, x, mem[a.tmpBuf], mem[a.dst]),
         Top(t).i >= Top(t).count \div 4,
         NEW m, m = IF Top(t).fn \in VectorFns THEN Top(t).i ELSE Top(t).count \div 4,
         NEW fn \in FftFns, InverseEnd(t, Middle(x, mem[a.tmpBuf], m), fn)
  PROVE  InverseWay(stack'[t], n, d, x, mem'[a.tmpBuf], mem'[a.dst])
<1> DEFINE f == Top(t)
           h == n \div 2
           w == mem[a.tmpBuf]
           X == Middle(x, w, m)
           Z == PairTransform(d, h)
           S == SpectrumOf(d, n)
           D == 0..(BufLen[a.tmpBuf] - 1)
           g == FftCall(fn, f.context, f.tmpBuf, f.dst, f.count \div 2, TRUE)
<1>1. /\ Len(stack[t]) = 1 /\ InverseFrame(a, f) /\ HasSpectrum(n, d, x)
      /\ TangledSoFar(h, f.i, FourOf(h, Z), w)
  BY InverseTop
<1>2. f \in OKRealFrames /\ f.tmpBuf = a.tmpBuf /\ f.count = n
  BY <1>1 DEF InverseFrame
<1>3. stack'[t] = ReplaceTop(stack[t], g) /\ mem'[a.tmpBuf] = X
  <2>1. mem' = [mem EXCEPT ![f.tmpBuf] = X]
    BY DEF InverseEnd
  <2>2. a.tmpBuf \in DOMAIN mem
    BY DEF MemOK, InverseJob
  <2> QED BY <1>2, <2>1, <2>2 DEF InverseEnd
<1>4. /\ h \in Nat \ {0} /\ AllUntangle(h, Z, S) /\ h = f.count \div 2
      /\ w \in [D -> CkFftComplex] /\ 0..h \subseteq D
  BY <1>1, <1>2, InverseFacts
<1>5. f.i >= f.count \div 4 /\ m = IF f.fn \in VectorFns THEN f.i ELSE f.count \div 4
  OBVIOUS
<1>6. \A k \in 0..h : x[k] = S[k]
  BY <1>1 DEF HasSpectrum
<1>7. g.fn = fn
  BY DEF FftCall
<1> HIDE DEF f, h, w, Z, S, D, X
<1>8. \A k \in 0..(h - 1) : X[k] = Four(Z[k])
  BY <1>1, <1>2, <1>4, <1>5, <1>6, InverseMiddleRight DEF X
<1>9. Tangles(n, d, X)
  BY ONLY <1>8 DEF Tangles, FoursTo, h, Z
<1>10. n >= 8
  <2>1. f.count >= 8 /\ f.count = n
    BY <1>2, RealFrameFields DEF RealFrameOK
  <2> QED BY ONLY <2>1
<1> DEFINE r == stack'[t]
           y == mem'[a.dst]
<1> HIDE DEF y
<1>11. r # << >> /\ Len(r) = 1 /\ r[1] = g
  <2> HIDE DEF g
  <2> QED BY <1>1, <1>3, ReplaceOnly
<1> HIDE DEF r
<1>12. Progress(r, 0, X, y)
  <2>1. 0 + 1 = 1 /\ 0 \in Nat
    OBVIOUS
  <2> HIDE DEF g
  <2>2. Len(r) = 0 + 1 /\ r[0 + 1] = g
    BY ONLY <1>11, <2>1, Zenon
  <2> QED BY <2>1, <2>2, ProgressStart DEF g
<1> HIDE DEF g
<1>13. AboveFfts(r, 0)
  BY <1>7, <1>11 DEF AboveFfts
<1>14. InverseWay(r, n, d, x, X, y)
  <2>1. r[1].fn \in FftFns
    BY <1>7, <1>11
  <2> QED BY <1>9, <1>10, <1>11, <1>12, <1>13, <2>1, Zenon DEF InverseWay
<1> QED BY <1>3, <1>14 DEF r, y

(* The inverse complex FFT goes on, and when it returns the data are back.  *)
LEMMA InverseFftStep ==
  ASSUME MemOK, NEW a, InverseJob(a), NEW t, t \in DOMAIN stack,
         stack[t] \in Seq(FramesOf(a)), stack[t] # << >>, Top(t).fn \in FftFns,
         NEW n, n = a.count, NEW d, RealData(n, d),
         NEW x, InverseWay(stack[t], n, d, x, mem[a.tmpBuf], mem[a.dst]),
         FftStep(t), NEW T, stack'[t] \in Seq(T)
  PROVE  InverseWay(stack'[t], n, d, x, mem'[a.tmpBuf], mem'[a.dst])
<1> DEFINE s == stack[t]
           r == stack'[t]
           S == OKFrames \cup OKRealFrames
           h == n \div 2
           w == mem[a.tmpBuf]
           Y == mem'[a.dst]
<1>1. Len(s) \in Nat \ {0} /\ \A e \in 1..Len(s) : s[e] \in FramesOf(a)
  OBVIOUS
<1>2. s[1].fn \in FftFns
  <2> SUFFICES ASSUME s[1].fn \notin FftFns PROVE FALSE
    OBVIOUS
  <2>1. Len(s) = 1
    BY DEF InverseWay
  <2>2. Top(t) = s[1]
    BY <2>1, TopOnly
  <2> QED BY <2>2
<1>3. AboveFfts(s, 0) /\ Tangles(n, d, w) /\ Progress(s, 0, w, mem[a.dst])
      /\ n >= 8
  BY <1>2 DEF InverseWay
<1>4. \A e \in 1..Len(s) : s[e] \in OKFrames /\ Serves(s[e]) = HalfFft(a)
  <2> TAKE e \in 1..Len(s)
  <2>1. s[e].fn \in FftFns
    <3>1. e \in (0 + 1)..Len(s)
      BY <1>1
    <3> QED BY <1>3, <3>1 DEF AboveFfts
  <2> DEFINE f == s[e]
  <2>2. f \in FramesOf(a) /\ f.fn \in FftFns
    BY <1>1, <2>1
  <2> HIDE DEF f
  <2>3. f \in OKFrames /\ Serves(f) = HalfFft(a)
    BY <2>2, InverseFrames
  <2> QED BY <2>3 DEF f
<1>5. HalfFft(a) = [context |-> a.context, src |-> a.tmpBuf, dst |-> a.dst, count |-> h,
                    inverse |-> TRUE]
  BY DEF HalfFft, InverseJob
<1>6. s \in Seq(S) /\ OKFrames \subseteq S
  BY SeqOfFrames
<1>7. \A e \in 1..Len(s) : s[e].src = a.tmpBuf /\ s[e].dst = a.dst /\ ExactTable(s[e])
  <2> TAKE e \in 1..Len(s)
  <2>1. s[e].context = a.context /\ s[e].src = a.tmpBuf /\ s[e].dst = a.dst
    <3> DEFINE f == s[e]
    <3>1. Serves(f) = [context |-> a.context, src |-> a.tmpBuf, dst |-> a.dst, count |-> h,
                       inverse |-> TRUE]
      BY <1>4, <1>5
    <3> HIDE DEF f, h
    <3>2. f.context = a.context /\ f.src = a.tmpBuf /\ f.dst = a.dst
      BY <3>1 DEF Serves
    <3> QED BY <3>2 DEF f
  <2> QED BY <2>1 DEF ExactTable, InverseJob
<1>8. Working(S, t, 0, a.tmpBuf, a.dst)
  <2>1. (0 + 1)..Len(s) = 1..Len(s) /\ 0 \in 0..Len(s)
    BY <1>1
  <2>2. Recursion(S, s, 0)
    <3> HIDE DEF s, S
    <3> QED BY <1>1, <1>4, <1>6, <2>1 DEF Recursion
  <2> QED BY <1>3, <1>7, <2>1, <2>2 DEF Working
<1>9. Len(s) > 0
  BY <1>1
<1>10. Top(t) \in OKFrames /\ Top(t) = s[Len(s)]
  BY <1>8, <1>9, TopWorking
<1>11. After(t, 0, w, Y)
  <2> HIDE DEF S
  <2> QED BY <1>8, <1>9, FftStepResult
<1>12. AboveFfts(r, 0)
  <2>1. Top(t) \in Frame /\ 0 \in Nat
    BY <1>10, FrameKinds
  <2> HIDE DEF S
  <2> QED BY <1>3, <1>6, <2>1, FftStepAbove
<1>13. /\ Len(r) = 0 => FirstCall(Top(t)) /\ Done(Top(t), w, Y)
       /\ Len(r) # 0 => Progress(r, 0, w, Y)
  BY <1>10, <1>11 DEF After, AfterStack
<1>14. Top(t) \in FramesOf(a) /\ Serves(Top(t)) = HalfFft(a)
  <2>1. Len(s) \in 1..Len(s)
    BY <1>1
  <2> QED BY <1>1, <1>4, <1>10, <2>1
<1>15. mem'[a.tmpBuf] = w
  <2> DEFINE F == {f \in OKFrames : Serves(f) = HalfFft(a)}
  <2>1. Closed(F)
    BY DEF Closed
  <2>2. s \in Seq(F)
    <3>1. \A e \in 1..Len(s) : s[e] \in F
      BY <1>4
    <3> HIDE DEF F
    <3> QED BY <1>6, <3>1
  <2> HIDE DEF F
  <2>3. Stores(Top(t).dst, 0..(Total(Top(t)) - 1))
    BY <2>1, <2>2, FftStepOK
  <2>4. Top(t).dst = a.dst /\ a.dst \in Buffers /\ a.tmpBuf \in Buffers /\ a.dst # a.tmpBuf
    BY <1>7, <1>10, <1>1 DEF InverseJob
  <2> QED BY <2>3, <2>4, StoresKeepsMem
<1>16. CASE r = << >>
  <2> DEFINE f == Top(t)
  <2>1. f \in OKFrames /\ FirstCall(f) /\ Done(f, w, Y) /\ Serves(f) = HalfFft(a)
    <3>1. Len(r) = 0
      BY <1>16
    <3> QED BY <1>10, <1>13, <1>14, <3>1
  <2> HIDE DEF f
  <2>2. f.inverse = TRUE /\ Total(f) = h
    BY <1>5, <2>1 DEF Serves
  <2>3. f.count = h
    BY <2>1, <2>2, FirstTotal
  <2>4. HasResult(f.count, f.inverse, w, Y)
    BY <2>1, FirstResult
  <2>5. n \in Nat /\ isPowerOfTwo(n) /\ Divisor(n) /\ HoldsPairs(d, h)
    <3>1. HoldsPairs(d, n \div 2)
      BY ONLY <1>3, RealData(n, d), Zenon DEF RealData
    <3> QED BY <3>1 DEF InverseJob
  <2>6. FoursTo(h, d, w)
    BY <1>3 DEF Tangles
  <2> HIDE DEF h, w, Y
  <2>7. h \in Nat \ {0} /\ n = 2 * h /\ isPowerOfTwo(h) /\ Divisor(h)
    BY <1>3, <2>5, RealTransforms DEF h
  <2>8. ScaledPairs(h, d, Y)
    <3>1. ASSUME NEW inverse \in BOOLEAN, inverse = f.inverse PROVE ScaledPairs(h, d, Y)
      <4>1. HasResult(h, inverse, w, Y) /\ inverse = TRUE
        BY <2>2, <2>3, <2>4, <3>1
      <4>2. HoldsPairs(d, h)
        BY <2>5 DEF h
      <4> QED BY ONLY <2>6, <2>7, <4>1, <4>2, <3>1, InverseResult
    <3> QED BY <2>2, <3>1
  <2>9. ScaledBack(n, d, Y)
    BY <2>7, <2>8, PairsScaled
  <2> HIDE DEF r
  <2>10. InverseWay(r, n, d, x, mem'[a.tmpBuf], Y)
    BY <1>16, <2>9 DEF InverseWay
  <2> QED BY <2>10 DEF r, Y
<1>17. CASE r # << >>
  <2>1. Len(r) \in Nat \ {0} /\ r \in Seq(T)
    BY <1>17
  <2>2. Progress(r, 0, w, Y)
    BY <1>13, <2>1
  <2>3. r[1].fn \in FftFns
    <3>1. 1 \in (0 + 1)..Len(r)
      BY <2>1
    <3> HIDE DEF r
    <3> QED BY <1>12, <3>1 DEF AboveFfts
  <2> HIDE DEF r, w, Y
  <2>4. InverseWay(r, n, d, x, w, Y)
    BY <1>3, <1>12, <1>17, <2>2, <2>3, Zenon DEF InverseWay
  <2> QED BY <1>15, <2>4 DEF r, Y
<1> QED BY <1>16, <1>17

(* The steps of an inverse transform's own frame.                           *)
LEMMA InverseOwnStep ==
  ASSUME MemOK, NEW a, InverseJob(a), NEW t, t \in DOMAIN stack,
         stack[t] \in Seq(FramesOf(a)), stack[t] # << >>, Top(t).fn \notin FftFns,
         NEW n, n = a.count, NEW d, RealData(n, d),
         NEW x, x = mem[a.src], InverseWay(stack[t], n, d, x, mem[a.tmpBuf], mem[a.dst]),
         RealDefaultStep(t) \/ RealNeonStep(t)
  PROVE  InverseWay(stack'[t], n, d, x, mem'[a.tmpBuf], mem'[a.dst])
<1> DEFINE f == Top(t)
           w == mem[a.tmpBuf]
           table == context[f.context].invExpTable
<1>1. InverseFrame(a, f)
  BY InverseTop
<1>2. f.fn \in InverseFns /\ f.src = a.src /\ f.tmpBuf = a.tmpBuf
  BY <1>1 DEF InverseFrame
<1>3. CASE RealInverseLoop(t)
  <2> DEFINE X == Iteration(f, x, w, table, TRUE)
  <2>1. /\ f.fn \notin VectorFns /\ f.i < f.count \div 4
        /\ LoopStep(t, f.tmpBuf, X, 1)
    BY <1>2, <1>3 DEF RealInverseLoop, Looping, Running, VectorFns
  <2>2. X = Iteration(f, x, w, table, TRUE) /\ 1 \in Nat
    OBVIOUS
  <2> HIDE DEF X
  <2> QED BY <2>1, <2>2, InverseLoopStep
<1>4. CASE NeonInverseLoop(t)
  <2> DEFINE X == VectorIteration(f, x, w, table, TRUE)
  <2>1. /\ f.fn \in VectorFns /\ f.i < f.count \div 4
        /\ LoopStep(t, f.tmpBuf, X, 4)
    BY <1>2, <1>4 DEF NeonInverseLoop, Looping, Running, VectorFns
  <2>2. X = VectorIteration(f, x, w, table, TRUE) /\ 4 \in Nat
    OBVIOUS
  <2> HIDE DEF X
  <2> QED BY <2>1, <2>2, InverseLoopStep
<1>5. CASE RealInverseMiddle(t)
  <2>1. /\ f.fn \notin VectorFns /\ f.i >= f.count \div 4
        /\ InverseEnd(t, Middle(x, w, f.count \div 4), "fft_default")
    BY <1>2, <1>5 DEF RealInverseMiddle, Looped, Running, VectorFns
  <2> DEFINE m == f.count \div 4
  <2>2. m = (IF f.fn \in VectorFns THEN f.i ELSE f.count \div 4)
        /\ "fft_default" \in FftFns /\ InverseEnd(t, Middle(x, w, m), "fft_default")
    BY <2>1 DEF FftFns
  <2> HIDE DEF m
  <2>3. \A fn \in FftFns : InverseEnd(t, Middle(x, w, m), fn) =>
          InverseWay(stack'[t], n, d, x, mem'[a.tmpBuf], mem'[a.dst])
    BY <2>1, <2>2, InverseMiddleStep
  <2> QED BY <2>2, <2>3
<1>6. CASE NeonInverseMiddle(t)
  <2>1. /\ f.fn \in VectorFns /\ f.i >= f.count \div 4
        /\ InverseEnd(t, Middle(x, w, f.i), "fft_neon")
    BY <1>2, <1>6 DEF NeonInverseMiddle, Looped, Running, VectorFns
  <2> DEFINE m == f.i
  <2>2. m = (IF f.fn \in VectorFns THEN f.i ELSE f.count \div 4)
        /\ "fft_neon" \in FftFns /\ InverseEnd(t, Middle(x, w, m), "fft_neon")
    BY <2>1 DEF FftFns
  <2> HIDE DEF m
  <2>3. \A fn \in FftFns : InverseEnd(t, Middle(x, w, m), fn) =>
          InverseWay(stack'[t], n, d, x, mem'[a.tmpBuf], mem'[a.dst])
    BY <2>1, <2>2, InverseMiddleStep
  <2> QED BY <2>2, <2>3
<1>7. ~(\/ RealForwardCopy(t) \/ RealForwardLoop(t) \/ RealForwardMiddle(t)
        \/ NeonForwardCopy(t) \/ NeonForwardLoop(t) \/ NeonForwardMiddle(t))
  BY <1>2 DEF InverseFns, RealForwardCopy, RealForwardLoop, RealForwardMiddle,
              NeonForwardCopy, NeonForwardLoop, NeonForwardMiddle, Copy, Looping, Looped,
              Running
<1> QED BY <1>3, <1>4, <1>5, <1>6, <1>7 DEF RealDefaultStep, RealNeonStep

(* A step of an inverse transform brings it nearer to its data.             *)
LEMMA InverseStep ==
  ASSUME MemOK, NEW a, InverseJob(a), NEW t, t \in DOMAIN stack,
         stack[t] \in Seq(FramesOf(a)), NEW T, stack'[t] \in Seq(T),
         NEW n, n = a.count, NEW d, RealData(n, d),
         NEW x, x = mem[a.src], InverseWay(stack[t], n, d, x, mem[a.tmpBuf], mem[a.dst]),
         FftRealStep(t)
  PROVE  InverseWay(stack'[t], n, d, x, mem'[a.tmpBuf], mem'[a.dst])
<1>1. stack[t] # << >> /\ \/ FftStep(t) \/ RealDefaultStep(t) \/ RealNeonStep(t)
  BY FftStepRuns, RealStepRuns DEF FftRealStep
<1>2. (ForwardFns \cup InverseFns) \cap FftFns = {}
  BY DEF ForwardFns, InverseFns, FftFns
<1>3. CASE Top(t).fn \in FftFns
  <2>1. FftStep(t)
    BY <1>1, <1>2, <1>3, RealStepRuns
  <2> QED BY <1>1, <1>3, <2>1, InverseFftStep
<1>4. CASE Top(t).fn \notin FftFns
  <2>1. RealDefaultStep(t) \/ RealNeonStep(t)
    BY <1>1, <1>4, FftStepRuns
  <2> QED BY <1>1, <1>4, <2>1, InverseOwnStep
<1> QED BY <1>3, <1>4

(* An inverse transform begins, from the spectrum of d.                     *)
LEMMA InverseStart ==
  ASSUME MemOK, NEW a, InverseJob(a), NEW t, t \in DOMAIN stack, stack[t] = << >>,
         context[a.context].neon => ArmNeon,
         NEW n, n = a.count, NEW d, RealData(n, d), NEW x, x = mem[a.src],
         SpectrumGiven(n, d, x),
         fft_real_inverse(t, a.context, a.src, a.dst, n, a.tmpBuf)
  PROVE  InverseWay(stack'[t], n, d, x, mem'[a.tmpBuf], mem'[a.dst])
<1> DEFINE c == a.context
           src == a.src
           dst == a.dst
           tmpBuf == a.tmpBuf
           w == mem'[tmpBuf]
           y == mem'[dst]
           r == stack'[t]
<1>1. /\ src \in Buffers /\ dst \in Buffers /\ tmpBuf \in Buffers /\ n \in Nat
      /\ Pairs(n) <= BufLen[dst]
  BY DEF InverseJob
<1>2. CASE n \in {1, 2, 4}
  <2>1. mem' = [mem EXCEPT ![dst] = RealInverseTrivial(src, dst, n)] /\ r = << >>
    BY <1>2 DEF fft_real_inverse
  <2>2. y = RealInverseTrivial(src, dst, n)
    BY <1>1, <2>1 DEF MemOK
  <2>3. HasFloats(d, n)
    BY ONLY RealData(n, d), Zenon DEF RealData
  <2>4. ScaledBack(n, d, y)
    BY <1>1, <1>2, <2>2, <2>3, RealInverseTrivialRight
  <2> HIDE DEF w, y, r
  <2>5. InverseWay(r, n, d, x, w, y)
    BY <2>1, <2>4 DEF InverseWay
  <2> QED BY <2>5 DEF w, y, r
<1>3. CASE n \notin {1, 2, 4}
  <2>1. PICK fn \in InverseFns : r = << RealCall(fn, c, src, dst, tmpBuf, n) >>
    <3>1. CASE context[c].neon
      <4>1. r = << RealCall("fft_real_inverse_neon", c, src, dst, tmpBuf, n) >>
        BY <1>3, <3>1 DEF fft_real_inverse, fft_real_inverse_neon
      <4> QED BY <4>1 DEF InverseFns
    <3>2. CASE ~context[c].neon
      <4>1. r = << RealCall("fft_real_inverse_default", c, src, dst, tmpBuf, n) >>
        BY <1>3, <3>2 DEF fft_real_inverse, fft_real_inverse_default
      <4> QED BY <4>1 DEF InverseFns
    <3> QED BY <3>1, <3>2
  <2> DEFINE f == RealCall(fn, c, src, dst, tmpBuf, n)
             h == n \div 2
             V == FourOf(h, PairTransform(d, h))
  <2>2. f.fn = fn /\ f.i = 0
    BY DEF RealCall
  <2>3. r = << f >>
    BY <2>1
  <2> HIDE DEF f, r, w, y, V
  <2>4. r # << >> /\ Len(r) = 1 /\ r[1] = f
    BY <2>3
  <2>5. TangledSoFar(h, r[1].i, V, w)
    <3>1. h \in Nat /\ 0..(h - 0) = 0..h
      BY <1>1
    <3> HIDE DEF h
    <3>2. TangledSoFar(h, 0, V, w)
      BY <3>1 DEF TangledSoFar
    <3> QED BY <2>2, <2>4, <3>2
  <2>6. r[1].fn \notin FftFns
    BY <2>1, <2>2, <2>4 DEF InverseFns, FftFns
  <2>7. TangledSoFar(n \div 2, r[1].i, FourOf(n \div 2, PairTransform(d, n \div 2)), w)
    BY <2>5 DEF V
  <2>8. HasSpectrum(n, d, x)
    <3>1. n >= 8
      BY <1>1, <1>3, LongCounts DEF InverseJob
    <3> QED BY <3>1 DEF HasSpectrum, SpectrumGiven
  <2>9. InverseWay(r, n, d, x, w, y)
    BY <2>4, <2>6, <2>7, <2>8, Zenon DEF InverseWay
  <2> QED BY <2>9 DEF r, w, y
<1> QED BY <1>2, <1>3

(* A number that is its own conjugate has no imaginary part, as P is odd.   *)
LEMMA SelfConjugate ==
  ASSUME NEW c \in CkFftComplex, conjugate(c) = c
  PROVE  c.imag = 0 /\ c = [real |-> c.real, imag |-> 0]
<1>1. c.imag \in Int /\ 0 <= c.imag /\ c.imag < P /\ c = [real |-> c.real, imag |-> c.imag]
  BY ModulusAssumption DEF CkFftComplex, Float
<1>2. (-c.imag) % P = c.imag
  BY DEF conjugate
<1>3. PICK k \in Int : (-c.imag) % P = -c.imag + k * P
  <2>1. -c.imag \in Int
    BY <1>1
  <2> QED BY <2>1, ModOf
<1>4. PICK q \in Int : 4 * q = P + 1
  <2>1. \A q \in 0..P : q \in Int
    OBVIOUS
  <2> QED BY <2>1, ExpiAssumption
<1>5. 2 * c.imag = k * P
  BY <1>1, <1>2, <1>3, ModulusAssumption
<1>6. k = 0 \/ k = 1
  <2>1. 0 <= k * P /\ k * P < 2 * P /\ P \in Nat \ {0}
    BY <1>1, <1>5, ModulusAssumption
  <2>2. ASSUME k < 0 PROVE k * P < 0
    BY <2>1, <2>2
  <2>3. ASSUME k > 1 PROVE k * P >= 2 * P
    BY <2>1, <2>3
  <2>4. k \in Int /\ k * P \in Int
    BY <2>1
  <2> QED BY <2>1, <2>2, <2>3, <2>4
<1>7. k # 1
  <2> SUFFICES ASSUME k = 1 PROVE FALSE
    OBVIOUS
  <2>1. 2 * c.imag = 4 * q - 1
    BY <1>4, <1>5, ModulusAssumption
  <2> QED BY <1>1, <1>4, <2>1
<1>8. k * P = 0
  BY <1>6, <1>7, ModulusAssumption
<1>9. c.imag = 0
  BY <1>1, <1>5, <1>8
<1> QED BY <1>1, <1>9

-----------------------------------------------------------------------------
(***************************************************************************)
(* The spectrum that an inverse transform of n elements is given, without   *)
(* the imaginary parts that are no part of one, and completed by symmetry.  *)
(***************************************************************************)
Whole(x, n) ==
  [k \in 0..(n - 1) |->
     IF k = 0 \/ 2 * k = n THEN [real |-> x[k].real, imag |-> 0]
     ELSE IF 2 * k < n THEN x[k] ELSE conjugate(x[n - k])]

HalfHeld(x, n) == \A k \in 0..(n \div 2) : x[k] \in CkFftComplex

(* Half of a number.                                                        *)
LEMMA HalfBounds ==
  ASSUME NEW n \in Nat \ {0}
  PROVE  /\ n \div 2 \in Nat /\ n \div 2 <= n - 1
         /\ \A k \in Nat : 2 * k <= n => k \in 0..(n \div 2)
         /\ \A k \in 0..(n \div 2) : 2 * k <= n /\ k \in 0..(n - 1)
OBVIOUS

LEMMA RealOnly ==
  ASSUME NEW c \in CkFftComplex
  PROVE  /\ [real |-> c.real, imag |-> 0] \in CkFftComplex
         /\ conjugate([real |-> c.real, imag |-> 0]) = [real |-> c.real, imag |-> 0]
         /\ c.imag = 0 => c = [real |-> c.real, imag |-> 0]
         /\ conjugate(c) \in CkFftComplex /\ conjugate(conjugate(c)) = c
<1>1. 0 \in Float /\ 0 % P = 0
  <2> 0 \in Float
    BY ZeroOne DEF Zero, CkFftComplex
  <2> QED BY FloatMod, Zenon
<1>2. c.real \in Float /\ c.imag \in Float /\ c = [real |-> c.real, imag |-> c.imag]
  BY DEF CkFftComplex
<1>3. -0 = 0
  <2>1. \A i \in Int : -i = 0 - i
    OBVIOUS
  <2>2. 0 \in Int /\ 0 - 0 = 0
    OBVIOUS
  <2> QED BY <2>1, <2>2
<1>4. conjugate([real |-> c.real, imag |-> 0]) = [real |-> c.real, imag |-> 0]
  BY <1>1, <1>3 DEF conjugate
<1>5. conjugate(c) \in CkFftComplex /\ conjugate(conjugate(c)) = c
  BY ComplexOps, ConjugateTwice
<1> QED BY <1>1, <1>2, <1>4, <1>5 DEF CkFftComplex

LEMMA WholeSymmetric ==
  ASSUME NEW n \in Nat \ {0}, NEW x, HalfHeld(x, n)
  PROVE  Symmetric(Whole(x, n), n)
<1> DEFINE W == Whole(x, n)
<1>1. \A k \in Nat : 2 * k <= n => x[k] \in CkFftComplex
  BY HalfBounds DEF HalfHeld
<1>2. \A k \in 0..(n - 1) :
        W[k] = IF k = 0 \/ 2 * k = n THEN [real |-> x[k].real, imag |-> 0]
               ELSE IF 2 * k < n THEN x[k] ELSE conjugate(x[n - k])
  BY DEF Whole
<1> HIDE DEF W
<1>3. ASSUME NEW k \in 0..(n - 1) PROVE W[k] \in CkFftComplex
  <2>1. CASE k = 0 \/ 2 * k = n
    <3>1. x[k] \in CkFftComplex
      BY <1>1, <2>1
    <3> QED BY <1>2, <2>1, <3>1, RealOnly
  <2>2. CASE ~(k = 0 \/ 2 * k = n) /\ 2 * k < n
    <3>1. x[k] \in CkFftComplex
      BY <1>1, <2>2
    <3>2. W[k] = x[k]
      BY <1>2, <2>2
    <3> QED BY <3>1, <3>2
  <2>3. CASE ~(k = 0 \/ 2 * k = n) /\ ~(2 * k < n)
    <3>1. x[n - k] \in CkFftComplex
      <4>1. n - k \in Nat /\ 2 * (n - k) <= n
        BY <2>3
      <4> QED BY <1>1, <4>1
    <3>2. W[k] = conjugate(x[n - k])
      BY <1>2, <2>3
    <3> QED BY <3>1, <3>2, RealOnly
  <2> QED BY <2>1, <2>2, <2>3
<1>4. ASSUME NEW k \in 0..(n - 1), NEW l \in 0..(n - 1), k + l = 0 \/ k + l = n
      PROVE  conjugate(W[k]) = W[l]
  <2>1. CASE k = 0 \/ 2 * k = n
    <3>1. x[k] \in CkFftComplex
      BY <1>1, <2>1
    <3>2. l = k
      BY <1>4, <2>1
    <3>3. W[k] = [real |-> x[k].real, imag |-> 0]
      BY <1>2, <2>1
    <3> QED BY <3>1, <3>2, <3>3, RealOnly
  <2>2. CASE ~(k = 0 \/ 2 * k = n) /\ 2 * k < n
    <3>1. W[k] = x[k]
      BY <1>2, <2>2
    <3>2. ~(l = 0 \/ 2 * l = n) /\ ~(2 * l < n) /\ n - l = k
      BY <1>4, <2>2
    <3>3. W[l] = conjugate(x[n - l])
      BY <1>2, <3>2
    <3> QED BY <3>1, <3>2, <3>3
  <2>3. CASE ~(k = 0 \/ 2 * k = n) /\ ~(2 * k < n)
    <3>1. W[k] = conjugate(x[n - k])
      BY <1>2, <2>3
    <3>2. ~(l = 0 \/ 2 * l = n) /\ 2 * l < n /\ n - k = l
      BY <1>4, <2>3
    <3>3. W[l] = x[l] /\ x[l] \in CkFftComplex
      <4>1. 2 * l <= n /\ l \in Nat
        BY <3>2
      <4>2. x[l] \in CkFftComplex
        BY <1>1, <4>1
      <4>3. W[l] = x[l]
        BY <1>2, <3>2
      <4> QED BY <4>2, <4>3
    <3>4. conjugate(conjugate(x[l])) = x[l]
      BY <3>3, RealOnly
    <3> QED BY <3>1, <3>2, <3>3, <3>4
  <2> QED BY <2>1, <2>2, <2>3
<1> QED BY <1>3, <1>4 DEF Symmetric, W

(* n real numbers stored as the floats of a buffer.                         *)
FloatsOf(d, n) ==
  [m \in 0..(Pairs(n) - 1) |->
     [real |-> d[2 * m].real, imag |-> IF 2 * m + 1 < n THEN d[2 * m + 1].real ELSE 0]]

LEMMA FloatsOfData ==
  ASSUME NEW n \in Nat \ {0}, isPowerOfTwo(n), NEW d, RealNumbers(d, n),
         d = [j \in 0..(n - 1) |-> d[j]]
  PROVE  /\ RealData(n, FloatsOf(d, n))
         /\ \A j \in 0..(n - 1) : FloatAt(FloatsOf(d, n), j) = d[j].real
         /\ RealInput(FloatsOf(d, n), n) = d
<1> DEFINE y == FloatsOf(d, n)
<1>1. ASSUME NEW j \in 0..(n - 1)
      PROVE  d[j] \in CkFftComplex /\ d[j].real \in Float /\ d[j] = [real |-> d[j].real, imag |-> 0]
  <2>1. d[j] \in CkFftComplex /\ conjugate(d[j]) = d[j]
    BY DEF RealNumbers
  <2>2. d[j] = [real |-> d[j].real, imag |-> 0]
    BY <2>1, SelfConjugate
  <2> QED BY <2>1, <2>2 DEF CkFftComplex
<1>2. ASSUME NEW j \in 0..(n - 1) PROVE FloatAt(y, j) = d[j].real
  <2> DEFINE m == j \div 2
  <2>1. m \in 0..(Pairs(n) - 1) /\ (j % 2 = 0 => 2 * m = j) /\ (j % 2 # 0 => 2 * m + 1 = j)
    BY DEF Pairs
  <2>2. y[m] = [real |-> d[2 * m].real, imag |-> IF 2 * m + 1 < n THEN d[2 * m + 1].real ELSE 0]
    BY <2>1 DEF FloatsOf
  <2> HIDE DEF m, y
  <2>3. CASE j % 2 = 0
    <3>1. FloatAt(y, j) = y[m].real
      BY <2>3 DEF FloatAt, m
    <3> QED BY <2>1, <2>2, <2>3, <3>1
  <2>4. CASE j % 2 # 0
    <3>1. FloatAt(y, j) = y[m].imag
      BY <2>4 DEF FloatAt, m
    <3>2. 2 * m + 1 = j /\ 2 * m + 1 < n
      BY <2>1, <2>4
    <3> QED BY <2>2, <3>1, <3>2
  <2> QED BY <2>3, <2>4
<1>3. HasFloats(y, n)
  BY <1>1, <1>2 DEF HasFloats
<1>4. ASSUME n >= 8 PROVE HoldsPairs(y, n \div 2)
  <2> SUFFICES ASSUME NEW j \in 0..(n \div 2 - 1) PROVE y[j] \in CkFftComplex
    BY DEF HoldsPairs
  <2>1. /\ j \in 0..(Pairs(n) - 1) /\ 2 * j \in 0..(n - 1)
        /\ 2 * j + 1 \in 0..(n - 1) /\ 2 * j + 1 < n
    BY DEF Pairs
  <2>2. y[j] = [real |-> d[2 * j].real, imag |-> d[2 * j + 1].real]
    BY <2>1 DEF FloatsOf
  <2> QED BY <1>1, <2>1, <2>2 DEF CkFftComplex
<1>5. RealInput(y, n) = d
  <2> HIDE DEF y
  <2>1. RealInput(y, n) = [j \in 0..(n - 1) |-> d[j]]
    BY <1>1, <1>2 DEF RealInput
  <2> QED BY <2>1
<1> QED BY <1>2, <1>3, <1>4, <1>5 DEF RealData

(***************************************************************************)
(* An inverse transform returns the data of which it was given the          *)
(* spectrum.  For any input there are such data.                            *)
(***************************************************************************)
InverseData(n, x) == FloatsOf(DataOf(Whole(x, n), n), n)

LEMMA InverseDataFacts ==
  ASSUME NEW n \in Nat \ {0}, isPowerOfTwo(n), Divisor(n), NEW x, HalfHeld(x, n),
         n >= 8 => x[0].imag = 0 /\ x[n \div 2].imag = 0
  PROVE  /\ RealData(n, InverseData(n, x)) /\ SpectrumGiven(n, InverseData(n, x), x)
         /\ \A y : ScaledBack(n, InverseData(n, x), y) =>
              \A j \in 0..(n - 1) : FloatAt(y, j) = DFT(Whole(x, n), n, TRUE)[j].real
<1> DEFINE W == Whole(x, n)
           d == DataOf(W, n)
           D == FloatsOf(d, n)
<1>1. Symmetric(W, n)
  BY WholeSymmetric
<1>2. \A k \in 0..(n - 1) :
        W[k] = IF k = 0 \/ 2 * k = n THEN [real |-> x[k].real, imag |-> 0]
               ELSE IF 2 * k < n THEN x[k] ELSE conjugate(x[n - k])
  BY DEF Whole
<1> HIDE DEF W
<1>3. /\ RealNumbers(d, n)
      /\ \A k \in 0..(n - 1) : add(DFT(d, n, FALSE)[k], DFT(d, n, FALSE)[k]) = W[k]
      /\ \A j \in 0..(n - 1) : Times(2 * n, d[j]) = DFT(W, n, TRUE)[j]
  BY <1>1, DataOfSpectrum
<1>4. d = [j \in 0..(n - 1) |-> d[j]]
  BY DEF DataOf
<1> HIDE DEF d
<1>5. /\ RealData(n, D) /\ RealInput(D, n) = d
      /\ \A j \in 0..(n - 1) : FloatAt(D, j) = d[j].real
  BY <1>3, <1>4, FloatsOfData
<1> HIDE DEF D
<1>6. \A k \in 0..(n - 1) : SpectrumOf(D, n)[k] = W[k]
  BY <1>3, <1>5 DEF SpectrumOf
<1>7. SpectrumGiven(n, D, x)
  <2> SUFFICES ASSUME NEW k \in 0..(n \div 2)
               PROVE  /\ x[k].real = SpectrumOf(D, n)[k].real
                      /\ n >= 8 \/ (k # 0 /\ 2 * k # n) => x[k] = SpectrumOf(D, n)[k]
    BY DEF SpectrumGiven
  <2>1. x[k] \in CkFftComplex
    BY DEF HalfHeld
  <2>2. k \in 0..(n - 1) /\ 2 * k <= n
    BY HalfBounds
  <2>3. SpectrumOf(D, n)[k] = W[k]
    BY <1>6, <2>2
  <2>4. CASE k = 0 \/ 2 * k = n
    <3>1. W[k] = [real |-> x[k].real, imag |-> 0]
      BY <1>2, <2>2, <2>4
    <3>2. ASSUME n >= 8 PROVE x[k].imag = 0
      <4>1. 2 * k = n => k = n \div 2
        OBVIOUS
      <4> QED BY <2>4, <3>2, <4>1
    <3>3. x[k].imag = 0 => x[k] = [real |-> x[k].real, imag |-> 0]
      BY <2>1, RealOnly
    <3> QED BY <2>3, <2>4, <3>1, <3>2, <3>3
  <2>5. CASE ~(k = 0 \/ 2 * k = n)
    <3>1. 2 * k < n
      BY <2>2, <2>5
    <3>2. W[k] = x[k]
      BY <1>2, <2>2, <2>5, <3>1
    <3> QED BY <2>3, <3>2
  <2> QED BY <2>4, <2>5
<1>8. ASSUME NEW y, ScaledBack(n, D, y), NEW j \in 0..(n - 1)
      PROVE  FloatAt(y, j) = DFT(W, n, TRUE)[j].real
  <2>1. FloatAt(y, j) = (2 * n * FloatAt(D, j)) % P
    BY <1>8 DEF ScaledBack
  <2>2. Times(2 * n, d[j]) = DFT(W, n, TRUE)[j]
    BY <1>3
  <2>3. Times(2 * n, d[j]).real = (2 * n * d[j].real) % P
    BY DEF Times
  <2> QED BY <1>5, <2>1, <2>2, <2>3
<1>9. InverseData(n, x) = D
  BY DEF InverseData, D, d, W
<1> QED BY <1>5, <1>7, <1>8, <1>9 DEF W
=============================================================================
