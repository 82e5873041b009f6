----------------------------- MODULE FftProofs -----------------------------
(* Proofs about the operations of Fft, whoever calls them: for all contexts *)
(* and buffers, every count, and builds and contexts with NEON and without. *)
EXTENDS Fft, ComplexProofs, SequenceTheorems

(* A butterfly of four complex numbers is four complex numbers.             *)
LEMMA Radix4Type ==
  ASSUME NEW f0 \in CkFftComplex, NEW f1w \in CkFftComplex,
         NEW f2w2 \in CkFftComplex, NEW f3w3 \in CkFftComplex,
         NEW inverse \in BOOLEAN
  PROVE  \A m \in 1..4 : Radix4(f0, f1w, f2w2, f3w3, inverse)[m] \in CkFftComplex
<1> DEFINE diff02 == subtract(f0, f2w2)
           diff13 == subtract(f1w, f3w3)
<1>1. diff02 \in CkFftComplex /\ diff13 \in CkFftComplex
  BY ComplexOps
<1>2. /\ add(add(f0, f2w2), add(f1w, f3w3)) \in CkFftComplex
      /\ subtract(add(f0, f2w2), add(f1w, f3w3)) \in CkFftComplex
  BY ComplexOps
<1>3. /\ [real |-> (diff02.real + diff13.imag) % P,
          imag |-> (diff02.imag - diff13.real) % P] \in CkFftComplex
      /\ [real |-> (diff02.real - diff13.imag) % P,
          imag |-> (diff02.imag + diff13.real) % P] \in CkFftComplex
  <2> HIDE DEF diff02, diff13
  <2>1. \A x \in Int : x % P \in Float
    BY ModulusAssumption DEF Float
  <2> QED BY <1>1, <2>1 DEF CkFftComplex, Float
<1> QED BY <1>2, <1>3 DEF Radix4

(* Storing four complex numbers keeps a buffer a buffer of its length, and  *)
(* changes no other element.                                                *)
LEMMA StoreQuadType ==
  ASSUME NEW D, NEW buf \in [D -> CkFftComplex], NEW out0, NEW n, NEW X,
         \A m \in 1..4 : X[m] \in CkFftComplex
  PROVE  StoreQuad(buf, out0, n, X) \in [D -> CkFftComplex]
<1>1. X[1] \in CkFftComplex /\ X[2] \in CkFftComplex
      /\ X[3] \in CkFftComplex /\ X[4] \in CkFftComplex
  OBVIOUS
<1> QED BY <1>1 DEF StoreQuad

LEMMA StoreQuadElse ==
  ASSUME NEW D, NEW buf \in [D -> CkFftComplex], NEW out0, NEW n, NEW X, NEW j \in D,
         j # out0, j # out0 + n, j # out0 + 2 * n, j # out0 + 3 * n
  PROVE  StoreQuad(buf, out0, n, X)[j] = buf[j]
  BY DEF StoreQuad

(* Storing vectors of complex numbers keeps a buffer a buffer of its        *)
(* length, when no vector leaves its quarter or the buffer, and changes no  *)
(* other element.                                                           *)
LEMMA StoreLanesType ==
  ASSUME NEW D, NEW buf \in [D -> CkFftComplex],
         NEW out0 \in Nat, NEW n \in Nat \ {0},
         NEW L \in SUBSET (0..(n - 1)), NEW X, DOMAIN X = L,
         \A l \in L : \A m \in 1..4 : X[l][m] \in CkFftComplex,
         \A m \in 0..3, l \in L : out0 + m * n + l \in D
  PROVE  StoreLanes(buf, out0, n, X) \in [D -> CkFftComplex]
<1> DEFINE vector(j) == (j - out0) \div n
           lane(j) == (j - out0) % n
           written == {out0 + m * n + l : m \in 0..3, l \in L}
           value(j) == IF j \in written THEN X[lane(j)][vector(j) + 1] ELSE buf[j]
<1>1. StoreLanes(buf, out0, n, X) = [j \in D \cup written |-> value(j)]
  BY DEF StoreLanes
<1>2. D \cup written = D
  OBVIOUS
<1>3. ASSUME NEW j \in D PROVE value(j) \in CkFftComplex
  <2>1. CASE j \in written
    <3>1. PICK m \in 0..3, l \in L : j = out0 + m * n + l
      BY <2>1
    <3>2. m * n \in Nat /\ m \in Nat /\ l \in 0..(n - 1) /\ j - out0 = m * n + l
      BY <3>1
    <3>3. vector(j) = m /\ lane(j) = l
      BY <3>2, QuotientAndRest
    <3>4. m + 1 \in 1..4 /\ X[l][m + 1] \in CkFftComplex
      OBVIOUS
    <3> HIDE DEF written, vector, lane
    <3> QED BY <2>1, <3>3, <3>4
  <2>2. CASE j \notin written
    <3> HIDE DEF written
    <3> QED BY <2>2
  <2> QED BY <2>1, <2>2
<1> HIDE DEF value, written
<1> QED BY <1>1, <1>2, <1>3

Written(out0, n, L) == {out0 + m * n + l : m \in 0..3, l \in L}

LEMMA StoreLanesElse ==
  ASSUME NEW D, NEW buf \in [D -> CkFftComplex], NEW out0, NEW n, NEW X,
         NEW j \in D, j \notin Written(out0, n, DOMAIN X)
  PROVE  StoreLanes(buf, out0, n, X)[j] = buf[j]
<1> DEFINE value(i) == IF i \in Written(out0, n, DOMAIN X)
                       THEN X[(i - out0) % n][(i - out0) \div n + 1] ELSE buf[i]
<1>1. StoreLanes(buf, out0, n, X) = [i \in D \cup Written(out0, n, DOMAIN X) |-> value(i)]
  BY DEF StoreLanes, Written
<1>2. value(j) = buf[j]
  OBVIOUS
<1> HIDE DEF value
<1> QED BY <1>1, <1>2

-----------------------------------------------------------------------------
(* The call stack: push, pop and update of the running call.                *)
LEMMA PushStack ==
  ASSUME NEW S, NEW s \in Seq(S), NEW f \in S
  PROVE  /\ Append(s, f) \in Seq(S)
         /\ Len(Append(s, f)) = Len(s) + 1
         /\ \A d \in 1..(Len(s) + 1) : Append(s, f)[d] = IF d <= Len(s) THEN s[d] ELSE f
  OBVIOUS

LEMMA PopStack ==
  ASSUME NEW S, NEW s \in Seq(S), s # << >>
  PROVE  /\ SubSeq(s, 1, Len(s) - 1) \in Seq(S)
         /\ Len(SubSeq(s, 1, Len(s) - 1)) = Len(s) - 1
         /\ \A d \in 1..(Len(s) - 1) : SubSeq(s, 1, Len(s) - 1)[d] = s[d]
<1>1. Len(s) \in Nat \ {0} /\ \A i \in 1..(Len(s) - 1) : s[i] \in S
  OBVIOUS
<1> DEFINE n == Len(s) - 1
           r == SubSeq(s, 1, n)
<1>2. n \in Nat
  BY <1>1
<1>3. /\ r \in Seq(S)
      /\ Len(r) = IF 1 <= n THEN n - 1 + 1 ELSE 0
      /\ \A i \in 1..(n - 1 + 1) : r[i] = s[1 + i - 1]
  <2> HIDE DEF n
  <2> QED BY <1>1, <1>2, SubSeqProperties DEF n
<1>4. Len(r) = n
  <2> HIDE DEF n, r
  <2> QED BY <1>2, <1>3
<1>5. \A d \in 1..n : r[d] = s[d]
  <2> HIDE DEF n, r
  <2> TAKE d \in 1..n
  <2> n - 1 + 1 = n /\ 1 + d - 1 = d
    BY <1>2
  <2> QED BY <1>3
<1> QED BY <1>3, <1>4, <1>5

LEMMA UpdateTop ==
  ASSUME NEW S, NEW s \in Seq(S), s # << >>, NEW f \in S
  PROVE  /\ ReplaceTop(s, f) \in Seq(S)
         /\ Len(ReplaceTop(s, f)) = Len(s)
         /\ \A d \in 1..Len(s) :
              ReplaceTop(s, f)[d] = IF d = Len(s) THEN f ELSE s[d]
  BY DEF ReplaceTop

-----------------------------------------------------------------------------

(***************************************************************************)
(* What every step of the complex FFT relies on.  A context has the table   *)
(* of a direction: the twiddle factors of its maxCount, a power of two.     *)
(***************************************************************************)
BufferType(b) == [0..(BufLen[b] - 1) -> CkFftComplex]

MemOK == DOMAIN mem = Buffers /\ \A b \in Buffers : mem[b] \in BufferType(b)

TableOf(c, inverse) ==
  IF inverse THEN context[c].invExpTable ELSE context[c].fwdExpTable

HasTable(c, inverse) ==
  LET n == context[c].maxCount
  IN  /\ n \in Nat /\ isPowerOfTwo(n)
      /\ TableOf(c, inverse) = [i \in 0..(n - 1) |-> Root(i, n, inverse)]

(***************************************************************************)
(* A call on a stack covers its share of the call of fft() that it serves:  *)
(* count elements, stride apart in the input, of which there are exactly as *)
(* many as fft() was asked for; its twiddle factors are spread over all of  *)
(* the context's table.  Its loop of butterflies starts when the recursive  *)
(* calls have all been made, and no iteration leaves its quarter.           *)
(***************************************************************************)
Total(f) == f.count * f.stride

FrameOK(f) ==
  /\ HasTable(f.context, f.inverse)
  /\ isPowerOfTwo(f.count) /\ f.count >= 4
  /\ f.stride >= 1 /\ f.input < f.stride
  /\ f.output + f.count <= Total(f)
  /\ Total(f) <= BufLen[f.src] /\ Total(f) <= BufLen[f.dst]
  /\ Total(f) * f.expTableStride = context[f.context].maxCount
  /\ f.i > 0 => f.k = 4
  /\ Passed(f) <= f.count \div 4

OKFrames == {f \in Frame : FrameOK(f)}

(* The call of fft() that a frame serves.                                   *)
Serves(f) == [context |-> f.context, src |-> f.src, dst |-> f.dst,
              count |-> Total(f), inverse |-> f.inverse]

-----------------------------------------------------------------------------
LEMMA TableType ==
  ASSUME NEW c \in Contexts, NEW inverse \in BOOLEAN, HasTable(c, inverse)
  PROVE  /\ context[c].maxCount \in Nat \ {0}
         /\ TableOf(c, inverse) \in [0..(context[c].maxCount - 1) -> CkFftComplex]
<1> DEFINE n == context[c].maxCount
<1>1. n \in Nat \ {0}
  BY DEF HasTable, isPowerOfTwo
<1>2. TableOf(c, inverse) = [i \in 0..(n - 1) |-> Root(i, n, inverse)]
  BY DEF HasTable
<1> HIDE DEF n
<1>3. \A i \in 0..(n - 1) : Root(i, n, inverse) \in CkFftComplex
  BY <1>1, RootType
<1>4. TableOf(c, inverse) \in [0..(n - 1) -> CkFftComplex]
  BY <1>2, <1>3
<1> QED BY <1>1, <1>4 DEF n

LEMMA FrameFields ==
  ASSUME NEW f \in OKFrames
  PROVE  /\ f \in Frame /\ FrameOK(f)
         /\ f.context \in Contexts /\ f.inverse \in BOOLEAN
         /\ f.src \in Buffers /\ f.dst \in Buffers
         /\ f.input \in Nat /\ f.output \in Nat
         /\ f.count \in Nat /\ f.stride \in Nat /\ f.expTableStride \in Nat
         /\ f.fn \in {"fft_default", "fft_neon"}
         /\ f.k \in 0..4 /\ f.i \in Nat /\ (f.i > 0 => f.k = 4)
         /\ Total(f) \in Nat
         /\ BufLen[f.src] \in Nat /\ BufLen[f.dst] \in Nat
<1>1. /\ f \in Frame /\ FrameOK(f)
      /\ f.context \in Contexts /\ f.inverse \in BOOLEAN
      /\ f.src \in Buffers /\ f.dst \in Buffers
      /\ f.input \in Nat /\ f.output \in Nat
      /\ f.count \in Nat /\ f.stride \in Nat /\ f.expTableStride \in Nat
      /\ f.fn \in {"fft_default", "fft_neon"} /\ f.k \in 0..4 /\ f.i \in Nat
  BY DEF OKFrames, Frame
<1>2. Total(f) \in Nat
  BY <1>1 DEF Total
<1>3. BufLen[f.src] \in Nat /\ BufLen[f.dst] \in Nat
  BY <1>1, BufferAssumption
<1>4. f.i > 0 => f.k = 4
  BY <1>1 DEF FrameOK
<1> QED BY <1>1, <1>2, <1>3, <1>4

LEMMA MulMonotone ==
  ASSUME NEW x \in Nat, NEW y \in Nat, NEW z \in Nat, x <= y
  PROVE  x * z <= y * z
  OBVIOUS

(* The pointers in and out stay inside the input and the output.            *)
LEMMA PointersInBounds ==
  ASSUME NEW f \in OKFrames, NEW j \in 0..(f.count - 1)
  PROVE  /\ InIdx(f, j) \in 0..(Total(f) - 1)
         /\ OutIdx(f, j) \in 0..(Total(f) - 1)
<1>1. /\ f.count \in Nat /\ f.stride \in Nat /\ Total(f) \in Nat
      /\ f.input \in Nat /\ f.output \in Nat /\ j \in Nat /\ FrameOK(f)
  BY FrameFields
<1>2. (j + 1) * f.stride <= Total(f)
  BY <1>1, MulMonotone DEF Total
<1>3. (j + 1) * f.stride = j * f.stride + f.stride /\ j * f.stride \in Nat
  BY <1>1
<1>4. InIdx(f, j) \in 0..(Total(f) - 1)
  BY <1>1, <1>2, <1>3 DEF InIdx, FrameOK
<1>5. OutIdx(f, j) \in 0..(Total(f) - 1)
  BY <1>1 DEF OutIdx, FrameOK
<1> QED BY <1>4, <1>5

(* The pointers exp1, exp2 and exp3 stay inside the context's table.        *)
LEMMA ExpInBounds ==
  ASSUME NEW f \in OKFrames, NEW i \in Nat, NEW m \in 0..3, i < f.count \div 4
  PROVE  ExpIdx(f, i, m) \in 0..(context[f.context].maxCount - 1)
<1> DEFINE w == f.stride * f.expTableStride
           max == context[f.context].maxCount
<1>1. /\ f.count \in Nat /\ f.stride \in Nat /\ FrameOK(f)
      /\ f.expTableStride \in Nat /\ f.context \in Contexts /\ f.inverse \in BOOLEAN
  BY FrameFields
<1>2. max \in Nat \ {0}
  BY <1>1, TableType DEF FrameOK
<1>3. w \in Nat
  BY <1>1
<1>4. f.count * w = max
  BY <1>1 DEF FrameOK, Total
<1>5. w >= 1
  <2> HIDE DEF w, max
  <2> QED BY <1>1, <1>2, <1>3, <1>4
<1>6. i * m \in Nat /\ i * m <= 3 * i /\ 3 * i + 1 <= f.count
  BY <1>1
<1>7. (i * m + 1) * w <= f.count * w
  BY <1>1, <1>3, <1>6, MulMonotone
<1>8. (i * m + 1) * w = (i * m) * w + w /\ (i * m) * w \in Nat
  BY <1>3, <1>6
<1>9. ExpIdx(f, i, m) = (i * m) * w
  BY <1>1 DEF ExpIdx
<1> DEFINE x == (i * m) * w
<1>10. x + w <= max /\ x \in Nat /\ ExpIdx(f, i, m) = x
  BY <1>4, <1>7, <1>8, <1>9
<1> HIDE DEF w, x, max
<1>11. x \in 0..(max - 1)
  BY <1>2, <1>3, <1>5, <1>10
<1> QED BY <1>10, <1>11 DEF max

(* A frame that differs from a good one in its counters only is a good one, *)
(* if no iteration leaves its quarter, and serves the same call.            *)
LEMMA CountersOK ==
  ASSUME NEW f \in OKFrames, NEW k \in 0..4, NEW i \in Nat, i > 0 => k = 4,
         Passed([f EXCEPT !.k = k, !.i = i]) <= f.count \div 4
  PROVE  /\ [f EXCEPT !.k = k, !.i = i] \in OKFrames
         /\ Serves([f EXCEPT !.k = k, !.i = i]) = Serves(f)
<1> DEFINE g == [f EXCEPT !.k = k, !.i = i]
<1>1. f \in Frame /\ FrameOK(f)
  BY FrameFields
<1>2. g \in Frame
  BY <1>1 DEF Frame
<1>3. /\ g.context = f.context /\ g.src = f.src /\ g.dst = f.dst /\ g.inverse = f.inverse
      /\ g.count = f.count /\ g.stride = f.stride /\ g.input = f.input
      /\ g.output = f.output /\ g.expTableStride = f.expTableStride
      /\ g.k = k /\ g.i = i
  BY <1>1 DEF Frame
<1>4. Passed(g) <= f.count \div 4
  OBVIOUS
<1> HIDE DEF g
<1>5. Total(g) = Total(f)
  BY <1>3 DEF Total
<1>6. FrameOK(g) /\ Serves(g) = Serves(f)
  BY <1>1, <1>3, <1>4, <1>5 DEF FrameOK, Serves
<1>7. g \in OKFrames /\ Serves(g) = Serves(f)
  BY <1>2, <1>6 DEF OKFrames
<1> QED BY <1>7 DEF g

(* The recursive call on a quarter is well placed when its caller is.       *)
LEMMA SubCallOK ==
  ASSUME NEW f \in OKFrames, f.count \notin {4, 8}, f.k < 4
  PROVE  SubCall(f) \in OKFrames /\ Serves(SubCall(f)) = Serves(f)
<1> DEFINE n == f.count \div 4
<1>1. /\ Total(f) \in Nat /\ f.count \in Nat /\ f.stride \in Nat
      /\ f.input \in Nat /\ f.output \in Nat /\ f.k \in 0..3 /\ FrameOK(f)
      /\ f \in Frame /\ f.i \in Nat
  BY FrameFields
<1>2. f.count = 4 * n /\ n \in Nat /\ isPowerOfTwo(n)
  BY <1>1, PowerOfTwoQuarter DEF FrameOK
<1>3. n # 1 /\ n # 2 /\ n # 3
  <2>1. n # 3
    BY <1>2 DEF isPowerOfTwo
  <2> QED BY <1>2, <2>1, <1>1 DEF FrameOK
<1>4. n >= 4
  BY <1>1, <1>2, <1>3 DEF FrameOK
<1>5. n * (f.stride * 4) = Total(f)
  BY <1>1, <1>2 DEF Total
<1>6. f.k * f.stride \in Nat /\ f.k * f.stride <= 3 * f.stride
  BY <1>1
<1>7. f.k * n \in Nat /\ f.k * n + n <= f.count
  BY <1>1, <1>2
<1>8. InIdx(f, f.k) \in Nat /\ InIdx(f, f.k) < f.stride * 4
  BY <1>1, <1>6 DEF FrameOK, InIdx
<1>9. OutIdx(f, f.k * n) \in Nat /\ OutIdx(f, f.k * n) + n <= Total(f)
  <2> DEFINE kn == f.k * n
  <2>1. f.output + f.count <= Total(f)
    BY <1>1 DEF FrameOK
  <2>2. kn \in Nat /\ kn + n <= f.count /\ n \in Nat
    BY <1>2, <1>7
  <2> HIDE DEF n, kn
  <2>3. OutIdx(f, kn) \in Nat /\ OutIdx(f, kn) + n <= Total(f)
    BY <1>1, <2>1, <2>2 DEF OutIdx
  <2> QED BY <2>3 DEF kn
<1>10. f.stride * 4 \in Nat /\ f.stride * 4 >= 1
  BY <1>1 DEF FrameOK
<1> DEFINE in == InIdx(f, f.k)
           out == OutIdx(f, f.k * n)
           s == f.stride * 4
           g == [f EXCEPT !.input = in, !.output = out, !.count = n, !.stride = s, !.k = 0]
<1>11. SubCall(f) = g
  BY DEF SubCall
<1>12. in \in Nat /\ out \in Nat /\ n \in Nat /\ s \in Nat
  BY <1>2, <1>8, <1>9, <1>10
<1>13. f.i = 0
  BY <1>1 DEF FrameOK
<1>14. /\ s >= 1 /\ in < s /\ out + n <= Total(f) /\ n * s = Total(f)
       /\ n >= 4 /\ isPowerOfTwo(n)
  BY <1>2, <1>4, <1>5, <1>8, <1>9, <1>10
<1> HIDE DEF in, out, s, n
<1>15. g \in Frame
  <2> DEFINE h == [f EXCEPT !.input = in, !.output = out, !.count = n, !.stride = s]
  <2>1. h \in Frame
    BY <1>1, <1>12 DEF Frame
  <2>2. g = [h EXCEPT !.k = 0]
    OBVIOUS
  <2> HIDE DEF h
  <2>3. [h EXCEPT !.k = 0] \in Frame
    BY <2>1 DEF Frame
  <2> HIDE DEF g
  <2> QED BY <2>2, <2>3
<1>16. /\ g.context = f.context /\ g.src = f.src /\ g.dst = f.dst /\ g.inverse = f.inverse
       /\ g.count = n /\ g.stride = s /\ g.input = in
       /\ g.output = out /\ g.expTableStride = f.expTableStride
       /\ g.k = 0 /\ g.i = f.i /\ g.fn = f.fn
  BY <1>1 DEF Frame
<1> HIDE DEF g
<1>17. Passed(g) = 0 /\ n \div 4 >= 0
  BY <1>12, <1>13, <1>16 DEF Passed
<1>18. Total(g) = Total(f)
  BY <1>14, <1>16 DEF Total
<1>19. FrameOK(g) /\ Serves(g) = Serves(f)
  BY <1>1, <1>13, <1>14, <1>16, <1>17, <1>18 DEF FrameOK, Serves
<1> QED BY <1>11, <1>15, <1>19 DEF OKFrames

(* The loop of recursive calls makes four: count is a multiple of 4.        *)
LEMMA QuartersLeft ==
  ASSUME NEW f \in OKFrames
  PROVE  IF MoreQuarters(f) THEN f.k \in 0..3 ELSE f.k = 4
<1> DEFINE n == f.count \div 4
<1>1. f.count = 4 * n /\ n \in Nat /\ n # 0
  BY FrameFields, PowerOfTwoQuarter DEF FrameOK
<1>2. f.k \in 0..4 /\ (MoreQuarters(f) <=> f.k * n < f.count)
  BY FrameFields DEF MoreQuarters
<1> HIDE DEF n
<1>3. MoreQuarters(f) => f.k # 4
  BY <1>1, <1>2
<1>4. f.k # 4 => MoreQuarters(f)
  <2>1. f.k # 4 => f.k * n <= 3 * n
    BY <1>1, <1>2
  <2>2. f.k * n \in Nat
    BY <1>1, <1>2
  <2> QED BY <1>1, <1>2, <2>1, <2>2
<1> QED BY <1>2, <1>3, <1>4

-----------------------------------------------------------------------------
(* What a call reads: its input and output elements and its twiddle factors *)
(* are complex numbers.                                                     *)
LEMMA ReadTypes ==
  ASSUME MemOK, NEW f \in OKFrames
  PROVE  /\ \A j \in 0..(f.count - 1) : In(f, j) \in CkFftComplex
         /\ \A j \in 0..(f.count - 1) : Out(f, j) \in CkFftComplex
         /\ \A i \in Nat, m \in 0..3 :
              i < f.count \div 4 => Exp(f, i, m) \in CkFftComplex
<1>1. /\ FrameOK(f) /\ f.src \in Buffers /\ f.dst \in Buffers
      /\ f.context \in Contexts /\ f.inverse \in BOOLEAN /\ Total(f) \in Nat
      /\ BufLen[f.src] \in Nat /\ BufLen[f.dst] \in Nat
  BY FrameFields
<1>2. mem[f.src] \in BufferType(f.src) /\ mem[f.dst] \in BufferType(f.dst)
  BY <1>1 DEF MemOK
<1>3. Total(f) <= BufLen[f.src] /\ Total(f) <= BufLen[f.dst]
  BY <1>1 DEF FrameOK
<1>4. ASSUME NEW j \in 0..(f.count - 1)
      PROVE  In(f, j) \in CkFftComplex /\ Out(f, j) \in CkFftComplex
  <2>1. InIdx(f, j) \in 0..(Total(f) - 1) /\ OutIdx(f, j) \in 0..(Total(f) - 1)
    BY PointersInBounds
  <2>2. InIdx(f, j) \in 0..(BufLen[f.src] - 1)
        /\ OutIdx(f, j) \in 0..(BufLen[f.dst] - 1)
    BY <1>1, <1>3, <2>1
  <2> QED BY <1>2, <2>2 DEF In, Out, BufferType
<1>5. ASSUME NEW i \in Nat, NEW m \in 0..3, i < f.count \div 4
      PROVE  Exp(f, i, m) \in CkFftComplex
  <2>1. ExpIdx(f, i, m) \in 0..(context[f.context].maxCount - 1)
    BY <1>5, ExpInBounds
  <2>2. TableOf(f.context, f.inverse) \in
          [0..(context[f.context].maxCount - 1) -> CkFftComplex]
    BY <1>1, TableType DEF FrameOK
  <2>3. Exp(f, i, m) = TableOf(f.context, f.inverse)[ExpIdx(f, i, m)]
    BY DEF Exp, TableOf
  <2> QED BY <2>1, <2>2, <2>3
<1> QED BY <1>4, <1>5

(* What a call writes is a buffer of the same length, in which the elements *)
(* outside its share of the output are what they were.                      *)
OutRange(f) == f.output..(f.output + f.count - 1)

Writes(f, X) ==
  /\ X \in BufferType(f.dst)
  /\ \A j \in 0..(BufLen[f.dst] - 1) : j \notin OutRange(f) => X[j] = mem[f.dst][j]

LEMMA StoreQuadWrites ==
  ASSUME MemOK, NEW f \in OKFrames, NEW out0 \in Nat, NEW n \in Nat, NEW Y,
         \A m \in 1..4 : Y[m] \in CkFftComplex,
         \A m \in 0..3 : out0 + m * n \in OutRange(f),
         NEW buf, Writes(f, buf)
  PROVE  Writes(f, StoreQuad(buf, out0, n, Y))
<1> DEFINE D == 0..(BufLen[f.dst] - 1)
           Z == StoreQuad(buf, out0, n, Y)
<1>1. buf \in [D -> CkFftComplex] /\ \A j \in D : j \notin OutRange(f) => buf[j] = mem[f.dst][j]
  BY DEF Writes, BufferType
<1> HIDE DEF D
<1>2. StoreQuad(buf, out0, n, Y) \in [D -> CkFftComplex]
  BY <1>1, StoreQuadType
<1> HIDE DEF Z
<1>3. ASSUME NEW j \in D, j \notin OutRange(f) PROVE Z[j] = mem[f.dst][j]
  <2>1. j # out0 + 0 * n /\ j # out0 + 1 * n /\ j # out0 + 2 * n /\ j # out0 + 3 * n
    BY <1>3
  <2>2. j # out0 /\ j # out0 + n /\ j # out0 + 2 * n /\ j # out0 + 3 * n
    BY <2>1
  <2>3. Z[j] = buf[j]
    BY <1>1, <2>2, StoreQuadElse DEF Z
  <2> QED BY <1>1, <1>3, <2>3
<1>4. Z \in [D -> CkFftComplex]
  BY <1>2 DEF Z
<1> QED BY <1>3, <1>4 DEF Writes, BufferType, Z, D

LEMMA StoreLanesWrites ==
  ASSUME MemOK, NEW f \in OKFrames, NEW out0 \in Nat, NEW n \in Nat \ {0},
         NEW L \in SUBSET (0..(n - 1)), NEW Y, DOMAIN Y = L,
         \A l \in L : \A m \in 1..4 : Y[l][m] \in CkFftComplex,
         \A m \in 0..3, l \in L : out0 + m * n + l \in OutRange(f)
  PROVE  Writes(f, StoreLanes(mem[f.dst], out0, n, Y))
<1> DEFINE D == 0..(BufLen[f.dst] - 1)
           Z == StoreLanes(mem[f.dst], out0, n, Y)
<1>1. mem[f.dst] \in [D -> CkFftComplex]
  BY FrameFields DEF MemOK, BufferType
<1>2. OutRange(f) \subseteq D
  <2>1. /\ f.output + f.count <= Total(f) /\ Total(f) <= BufLen[f.dst]
        /\ f.output \in Nat /\ Total(f) \in Nat /\ f.count \in Nat /\ BufLen[f.dst] \in Nat
    BY FrameFields DEF FrameOK
  <2> DEFINE len == BufLen[f.dst]
             total == Total(f)
             out == f.output
             count == f.count
  <2>2. /\ out + count <= total /\ total <= len /\ out \in Nat /\ count \in Nat
        /\ total \in Nat /\ len \in Nat
    BY <2>1
  <2> HIDE DEF len, total, out, count
  <2>3. out..(out + count - 1) \subseteq 0..(len - 1)
    BY <2>2
  <2>4. OutRange(f) = out..(out + count - 1)
    BY DEF OutRange, out, count
  <2>5. D = 0..(len - 1)
    BY DEF len
  <2> HIDE DEF D
  <2> QED BY <2>3, <2>4, <2>5
<1> HIDE DEF D
<1>3. \A m \in 0..3, l \in L : out0 + m * n + l \in D
  BY <1>2
<1>4. StoreLanes(mem[f.dst], out0, n, Y) \in [D -> CkFftComplex]
  BY <1>1, <1>3, StoreLanesType
<1> HIDE DEF Z
<1>5. ASSUME NEW j \in D, j \notin OutRange(f) PROVE Z[j] = mem[f.dst][j]
  <2>1. Written(out0, n, L) \subseteq OutRange(f)
    BY DEF Written
  <2>2. j \notin Written(out0, n, DOMAIN Y)
    BY <1>5, <2>1
  <2> QED BY <1>1, <2>2, StoreLanesElse DEF Z
<1>6. Z \in [D -> CkFftComplex]
  BY <1>4 DEF Z
<1> QED BY <1>5, <1>6 DEF Writes, BufferType, Z, D

LEMMA NothingWritten ==
  ASSUME MemOK, NEW f \in OKFrames
  PROVE  Writes(f, mem[f.dst])
  BY FrameFields DEF Writes, MemOK

(* At the leaves,                                                           *)
LEMMA PairTypes ==
  ASSUME MemOK, NEW f \in OKFrames, f.count = 8
  PROVE  \A q \in 0..3, i \in Nat : Pair(f, q, i) \in CkFftComplex
<1>1. \A q \in 0..3 : In(f, q) \in CkFftComplex /\ In(f, q + 4) \in CkFftComplex
  BY ReadTypes
<1> QED BY <1>1, ComplexOps DEF Pair

LEMMA LeafWrites ==
  ASSUME MemOK, NEW f \in OKFrames
  PROVE  /\ f.count = 4 => Writes(f, Leaf4(f))
         /\ f.count = 8 => Writes(f, Leaf8(f))
<1>1. f.inverse \in BOOLEAN /\ f.output \in Nat /\ f.count \in Nat
  BY FrameFields
<1>2. Writes(f, mem[f.dst])
  BY NothingWritten
<1>3. ASSUME f.count = 4 PROVE Writes(f, Leaf4(f))
  <2>1. /\ In(f, 0) \in CkFftComplex /\ In(f, 1) \in CkFftComplex
        /\ In(f, 2) \in CkFftComplex /\ In(f, 3) \in CkFftComplex
    BY <1>3, ReadTypes
  <2> DEFINE Y == Radix4(In(f, 0), In(f, 1), In(f, 2), In(f, 3), f.inverse)
  <2>2. \A m \in 1..4 : Y[m] \in CkFftComplex
    BY <1>1, <2>1, Radix4Type
  <2>3. \A m \in 0..3 : f.output + m * 1 \in OutRange(f)
    BY <1>1, <1>3 DEF OutRange
  <2> HIDE DEF Y
  <2>4. Writes(f, StoreQuad(mem[f.dst], f.output, 1, Y))
    BY <1>1, <1>2, <2>2, <2>3, StoreQuadWrites
  <2> QED BY <2>4 DEF Leaf4, Y
<1>4. ASSUME f.count = 8 PROVE Writes(f, Leaf8(f))
  <2> DEFINE F(q, i) == Pair(f, q, i)
             X0 == Radix4(F(0, 0), F(1, 0), F(2, 0), F(3, 0), f.inverse)
             X1 == Radix4(F(0, 1), multiply(F(1, 1), Exp(f, 1, 1)),
                          multiply(F(2, 1), Exp(f, 1, 2)),
                          multiply(F(3, 1), Exp(f, 1, 3)), f.inverse)
  <2>2. \A q \in 0..3, i \in 0..1 : F(q, i) \in CkFftComplex
    BY <1>4, PairTypes
  <2>3. \A m \in 1..3 : Exp(f, 1, m) \in CkFftComplex
    BY <1>4, ReadTypes
  <2> HIDE DEF F
  <2>4. /\ F(0, 0) \in CkFftComplex /\ F(1, 0) \in CkFftComplex
        /\ F(2, 0) \in CkFftComplex /\ F(3, 0) \in CkFftComplex
        /\ F(0, 1) \in CkFftComplex /\ F(1, 1) \in CkFftComplex
        /\ F(2, 1) \in CkFftComplex /\ F(3, 1) \in CkFftComplex
        /\ Exp(f, 1, 1) \in CkFftComplex /\ Exp(f, 1, 2) \in CkFftComplex
        /\ Exp(f, 1, 3) \in CkFftComplex
    BY <2>2, <2>3
  <2>5. /\ multiply(F(1, 1), Exp(f, 1, 1)) \in CkFftComplex
        /\ multiply(F(2, 1), Exp(f, 1, 2)) \in CkFftComplex
        /\ multiply(F(3, 1), Exp(f, 1, 3)) \in CkFftComplex
    BY <2>4, ComplexOps
  <2>6. (\A m \in 1..4 : X0[m] \in CkFftComplex) /\ (\A m \in 1..4 : X1[m] \in CkFftComplex)
    BY <1>1, <2>4, <2>5, Radix4Type
  <2>7. Leaf8(f) = StoreQuad(StoreQuad(mem[f.dst], f.output, 2, X0), OutIdx(f, 1), 2, X1)
    BY DEF Leaf8, F
  <2> DEFINE first == StoreQuad(mem[f.dst], f.output, 2, X0)
  <2> HIDE DEF X0, X1
  <2>8. /\ \A m \in 0..3 : f.output + m * 2 \in OutRange(f)
        /\ OutIdx(f, 1) \in Nat /\ \A m \in 0..3 : OutIdx(f, 1) + m * 2 \in OutRange(f)
    BY <1>1, <1>4 DEF OutRange, OutIdx
  <2>9. Writes(f, first)
    BY <1>1, <1>2, <2>6, <2>8, StoreQuadWrites
  <2> HIDE DEF first
  <2>10. Writes(f, StoreQuad(first, OutIdx(f, 1), 2, X1))
    BY <2>6, <2>8, <2>9, StoreQuadWrites
  <2> QED BY <2>7, <2>10 DEF first
<1> QED BY <1>3, <1>4

LEMMA NeonLeafWrites ==
  ASSUME MemOK, NEW f \in OKFrames, f.count = 8
  PROVE  Writes(f, NeonLeaf8(f))
<1> DEFINE Fw(q, l) == multiply(Pair(f, q, l), Exp(f, l, q))
           Y == [l \in 0..1 |->
                   Radix4(Pair(f, 0, l), Fw(1, l), Fw(2, l), Fw(3, l), f.inverse)]
<1>1. f.inverse \in BOOLEAN /\ f.output \in Nat
  BY FrameFields
<1>2. ASSUME NEW l \in 0..1 PROVE \A m \in 1..4 : Y[l][m] \in CkFftComplex
  <2>1. /\ Pair(f, 0, l) \in CkFftComplex /\ Pair(f, 1, l) \in CkFftComplex
        /\ Pair(f, 2, l) \in CkFftComplex /\ Pair(f, 3, l) \in CkFftComplex
    BY PairTypes
  <2>2. /\ Exp(f, l, 1) \in CkFftComplex /\ Exp(f, l, 2) \in CkFftComplex
        /\ Exp(f, l, 3) \in CkFftComplex
    BY ReadTypes
  <2>3. Fw(1, l) \in CkFftComplex /\ Fw(2, l) \in CkFftComplex /\ Fw(3, l) \in CkFftComplex
    BY <2>1, <2>2, ComplexOps
  <2>4. \A m \in 1..4 : Radix4(Pair(f, 0, l), Fw(1, l), Fw(2, l), Fw(3, l), f.inverse)[m]
                          \in CkFftComplex
    <3> HIDE DEF Fw
    <3> QED BY <1>1, <2>1, <2>3, Radix4Type
  <2> QED BY <2>4
<1>3. \A m \in 0..3, l \in 0..1 : f.output + m * 2 + l \in OutRange(f)
  BY <1>1 DEF OutRange
<1>4. NeonLeaf8(f) = StoreLanes(mem[f.dst], f.output, 2, Y)
  BY DEF NeonLeaf8
<1>5. DOMAIN Y = 0..1 /\ 0..1 \in SUBSET (0..(2 - 1)) /\ 2 \in Nat \ {0}
  OBVIOUS
<1> HIDE DEF Y
<1> QED BY <1>1, <1>2, <1>3, <1>4, <1>5, StoreLanesWrites

LEMMA QuarterIndex ==
  ASSUME NEW c \in Nat, NEW n \in Nat, 4 * n <= c, NEW i \in 0..(n - 1)
  PROVE  /\ i \in 0..(c - 1) /\ i + 1 * n \in 0..(c - 1)
         /\ i + 2 * n \in 0..(c - 1) /\ i + 3 * n \in 0..(c - 1)
  OBVIOUS

(* in the loop of butterflies,                                              *)
LEMMA ButterflyTypes ==
  ASSUME MemOK, NEW f \in OKFrames, NEW n, n = f.count \div 4, NEW i \in 0..(n - 1)
  PROVE  \A m \in 1..4 :
           Radix4(Out(f, i), multiply(Out(f, i + 1 * n), Exp(f, i, 1)),
                  multiply(Out(f, i + 2 * n), Exp(f, i, 2)),
                  multiply(Out(f, i + 3 * n), Exp(f, i, 3)), f.inverse)[m]
             \in CkFftComplex
<1> DEFINE B(m) == multiply(Out(f, i + m * n), Exp(f, i, m))
<1>1. f.inverse \in BOOLEAN /\ f.count \in Nat
  BY FrameFields
<1>2. /\ i \in 0..(f.count - 1) /\ i + 1 * n \in 0..(f.count - 1)
      /\ i + 2 * n \in 0..(f.count - 1) /\ i + 3 * n \in 0..(f.count - 1)
  <2>1. n \in Nat /\ 4 * n <= f.count /\ f.count \in Nat
    BY <1>1
  <2> QED BY <2>1, QuarterIndex
<1>3. /\ Out(f, i) \in CkFftComplex /\ Out(f, i + 1 * n) \in CkFftComplex
      /\ Out(f, i + 2 * n) \in CkFftComplex /\ Out(f, i + 3 * n) \in CkFftComplex
  BY <1>2, ReadTypes
<1>4. /\ Exp(f, i, 1) \in CkFftComplex /\ Exp(f, i, 2) \in CkFftComplex
      /\ Exp(f, i, 3) \in CkFftComplex
  <2>1. i \in Nat /\ i < f.count \div 4
    BY <1>1
  <2> QED BY <2>1, ReadTypes
<1>5. B(1) \in CkFftComplex /\ B(2) \in CkFftComplex /\ B(3) \in CkFftComplex
  BY <1>3, <1>4, ComplexOps
<1>6. \A m \in 1..4 : Radix4(Out(f, i), B(1), B(2), B(3), f.inverse)[m] \in CkFftComplex
  <2> HIDE DEF B
  <2> QED BY <1>1, <1>3, <1>5, Radix4Type
<1> QED BY <1>6

LEMMA OutIdxRange ==
  ASSUME NEW f \in OKFrames, NEW j \in 0..(f.count - 1)
  PROVE  f.output + j \in OutRange(f)
<1> DEFINE out == f.output
           c == f.count
<1>1. out \in Nat /\ c \in Nat /\ j \in 0..(c - 1)
  BY FrameFields
<1>2. OutRange(f) = out..(out + c - 1)
  BY DEF OutRange
<1> HIDE DEF out, c
<1>3. out + j \in out..(out + c - 1)
  BY <1>1
<1> QED BY <1>2, <1>3 DEF out

LEMMA CombineWrites ==
  ASSUME MemOK, NEW f \in OKFrames, f.i < f.count \div 4
  PROVE  Writes(f, Combine(f))
<1> DEFINE n == f.count \div 4
           Y == Radix4(Out(f, f.i), multiply(Out(f, f.i + 1 * n), Exp(f, f.i, 1)),
                       multiply(Out(f, f.i + 2 * n), Exp(f, f.i, 2)),
                       multiply(Out(f, f.i + 3 * n), Exp(f, f.i, 3)), f.inverse)
           out0 == OutIdx(f, f.i)
           i == f.i
           c == f.count
<1>1. i \in Nat /\ c \in Nat /\ f.output \in Nat /\ n \in Nat /\ 4 * n <= c
  BY FrameFields
<1>2. i \in 0..(n - 1)
  BY <1>1
<1>3. \A m \in 1..4 : Y[m] \in CkFftComplex
  BY <1>2, ButterflyTypes
<1>4. Combine(f) = StoreQuad(mem[f.dst], out0, n, Y)
  BY DEF Combine
<1>5. out0 = f.output + i /\ out0 \in Nat
  BY <1>1 DEF OutIdx
<1> HIDE DEF Y, n, out0, i
<1>6. /\ i \in 0..(c - 1) /\ i + 1 * n \in 0..(c - 1)
      /\ i + 2 * n \in 0..(c - 1) /\ i + 3 * n \in 0..(c - 1)
  <2> HIDE DEF c
  <2> QED BY <1>1, <1>2, QuarterIndex
<1>7. /\ f.output + i \in OutRange(f) /\ f.output + (i + 1 * n) \in OutRange(f)
      /\ f.output + (i + 2 * n) \in OutRange(f) /\ f.output + (i + 3 * n) \in OutRange(f)
  BY <1>6, OutIdxRange
<1>8. ASSUME NEW m \in 0..3 PROVE out0 + m * n \in OutRange(f)
  <2>1. m = 0 \/ m = 1 \/ m = 2 \/ m = 3
    OBVIOUS
  <2> DEFINE o == f.output
  <2>2. o \in Nat /\ out0 = o + i
    BY <1>1, <1>5
  <2>3. /\ o + i \in OutRange(f) /\ o + (i + 1 * n) \in OutRange(f)
        /\ o + (i + 2 * n) \in OutRange(f) /\ o + (i + 3 * n) \in OutRange(f)
    BY <1>7
  <2> HIDE DEF o
  <2>4. /\ out0 + 0 * n = o + i /\ out0 + 1 * n = o + (i + 1 * n)
        /\ out0 + 2 * n = o + (i + 2 * n) /\ out0 + 3 * n = o + (i + 3 * n)
    BY <1>1, <1>2, <2>2
  <2> QED BY <2>1, <2>3, <2>4
<1>9. Writes(f, mem[f.dst])
  BY NothingWritten
<1>10. Writes(f, StoreQuad(mem[f.dst], out0, n, Y))
  BY <1>1, <1>3, <1>5, <1>8, <1>9, StoreQuadWrites
<1> QED BY <1>4, <1>10

(* and in the vectors of that loop in fft_neon.                             *)
LEMMA NeonCombineWrites ==
  ASSUME MemOK, NEW f \in OKFrames, 4 * (f.i + 1) <= f.count \div 4
  PROVE  Writes(f, NeonCombine(f))
<1> DEFINE n == f.count \div 4
           Lane(i) == Radix4(Out(f, i), multiply(Out(f, i + 1 * n), Exp(f, i, 1)),
                             multiply(Out(f, i + 2 * n), Exp(f, i, 2)),
                             multiply(Out(f, i + 3 * n), Exp(f, i, 3)), f.inverse)
           Y == [l \in 0..3 |-> Lane(4 * f.i + l)]
           out0 == OutIdx(f, 4 * f.i)
           c == f.count
<1>1. f.output \in Nat /\ f.i \in Nat /\ c \in Nat
  BY FrameFields
<1>2. n \in Nat \ {0} /\ 0..3 \in SUBSET (0..(n - 1)) /\ 4 * n <= c
  BY <1>1
<1>3. ASSUME NEW l \in 0..3 PROVE 4 * f.i + l \in 0..(n - 1)
  BY <1>1, <1>3
<1>4. ASSUME NEW l \in 0..3 PROVE \A m \in 1..4 : Y[l][m] \in CkFftComplex
  <2> DEFINE i == 4 * f.i + l
  <2>1. i \in 0..(n - 1)
    BY <1>3
  <2> HIDE DEF i, n
  <2>2. \A m \in 1..4 : Lane(i)[m] \in CkFftComplex
    BY <2>1, ButterflyTypes DEF n
  <2> QED BY <2>2 DEF i
<1>5. out0 \in Nat /\ out0 = f.output + 4 * f.i
  BY <1>1 DEF OutIdx
<1>6. ASSUME NEW m \in 0..3, NEW l \in 0..3 PROVE out0 + m * n + l \in OutRange(f)
  <2> DEFINE j == 4 * f.i + l
             x == m * n
             out == f.output
  <2>1. j \in 0..(n - 1)
    BY <1>3
  <2>2. j + x \in 0..(c - 1)
    <3> HIDE DEF n, j, c
    <3>1. /\ j \in 0..(c - 1) /\ j + 1 * n \in 0..(c - 1)
          /\ j + 2 * n \in 0..(c - 1) /\ j + 3 * n \in 0..(c - 1)
      BY <1>1, <1>2, <2>1, QuarterIndex
    <3>2. m = 0 \/ m = 1 \/ m = 2 \/ m = 3
      OBVIOUS
    <3> QED BY <1>2, <2>1, <3>1, <3>2
  <2>3. x \in Nat /\ j \in Nat
    <3> HIDE DEF n, j
    <3> QED BY <1>2, <2>1
  <2>4. out0 + x + l = out + (j + x)
    <3> DEFINE z == 4 * f.i
    <3>1. out0 = out + z /\ z \in Nat /\ out \in Nat /\ l \in Nat /\ j = z + l
      BY <1>1, <1>5
    <3> HIDE DEF x, z, j, out, out0
    <3> QED BY <2>3, <3>1
  <2> HIDE DEF x, j
  <2>5. out + (j + x) \in OutRange(f)
    BY <2>2, OutIdxRange
  <2> QED BY <2>4, <2>5 DEF x
<1>7. NeonCombine(f) = StoreLanes(mem[f.dst], out0, n, Y)
  BY DEF NeonCombine
<1>8. DOMAIN Y = 0..3
  OBVIOUS
<1> HIDE DEF Y, n, out0
<1>9. Writes(f, StoreLanes(mem[f.dst], out0, n, Y))
  BY <1>2, <1>4, <1>5, <1>6, <1>8, StoreLanesWrites
<1> QED BY <1>7, <1>9

-----------------------------------------------------------------------------
(***************************************************************************)
(* What the steps of the complex FFT do to the state: thread t gets a stack *)
(* of frames of S, and nothing is stored but the elements R of buffer b.    *)
(* S has the frames of the call that it has one frame of.                   *)
(***************************************************************************)
Closed(S) ==
  \A f \in S : f.fn \in {"fft_default", "fft_neon"} =>
    f \in OKFrames /\ \A g \in OKFrames : Serves(g) = Serves(f) => g \in S

StackOf(t, S) == UNCHANGED stack \/ \E s \in Seq(S) : stack' = [stack EXCEPT ![t] = s]

Stores(b, R) ==
  \/ UNCHANGED mem
  \/ \E X \in BufferType(b) :
       /\ mem' = [mem EXCEPT ![b] = X]
       /\ \A j \in 0..(BufLen[b] - 1) : j \notin R => X[j] = mem[b][j]

LEMMA StoresKeepsMem ==
  ASSUME MemOK, NEW b \in Buffers, NEW R, Stores(b, R)
  PROVE  /\ MemOK'
         /\ \A d \in Buffers : d # b => mem'[d] = mem[d]
         /\ \A j \in 0..(BufLen[b] - 1) : j \notin R => mem'[b][j] = mem[b][j]
  BY DEF MemOK, Stores, BufferType

LEMMA TopInStack ==
  ASSUME NEW S, NEW t, stack[t] \in Seq(S), stack[t] # << >>
  PROVE  Top(t) \in S
  BY DEF Top

LEMMA OutRangeTotal ==
  ASSUME NEW f \in OKFrames
  PROVE  OutRange(f) \subseteq 0..(Total(f) - 1)
<1>1. /\ f.output + f.count <= Total(f)
      /\ f.output \in Nat /\ Total(f) \in Nat /\ f.count \in Nat
  BY FrameFields DEF FrameOK
<1> DEFINE total == Total(f)
           out == f.output
           count == f.count
<1>2. out + count <= total /\ out \in Nat /\ count \in Nat /\ total \in Nat
  BY <1>1
<1> HIDE DEF total, out, count
<1>3. out..(out + count - 1) \subseteq 0..(total - 1)
  BY <1>2
<1>4. OutRange(f) = out..(out + count - 1)
  BY DEF OutRange, out, count
<1> QED BY <1>3, <1>4 DEF total

LEMMA WritesStores ==
  ASSUME NEW f \in OKFrames, NEW X, Writes(f, X), mem' = [mem EXCEPT ![f.dst] = X]
  PROVE  Stores(f.dst, 0..(Total(f) - 1))
<1>1. OutRange(f) \subseteq 0..(Total(f) - 1)
  BY OutRangeTotal
<1>2. X \in BufferType(f.dst)
      /\ \A j \in 0..(BufLen[f.dst] - 1) : j \notin OutRange(f) => X[j] = mem[f.dst][j]
  BY DEF Writes
<1> DEFINE R == 0..(Total(f) - 1)
           D == 0..(BufLen[f.dst] - 1)
<1>3. \A j \in D : j \notin R => X[j] = mem[f.dst][j]
  <2>1. OutRange(f) \subseteq R
    BY <1>1
  <2>2. \A j \in D : j \notin OutRange(f) => X[j] = mem[f.dst][j]
    BY <1>2
  <2> HIDE DEF R, D
  <2> QED BY <2>1, <2>2
<1>4. Stores(f.dst, R)
  <2> HIDE DEF R
  <2> QED BY <1>2, <1>3 DEF Stores
<1> QED BY <1>4

(* The steps that fft_default and fft_neon share.                           *)
LEMMA RecurseStack ==
  ASSUME NEW t, Recurse(t)
  PROVE  stack' = [stack EXCEPT ![t] =
                     Append(ReplaceTop(stack[t], [Top(t) EXCEPT !.k = @ + 1]), SubCall(Top(t)))]
  BY DEF Recurse

LEMMA RecurseOK ==
  ASSUME NEW S, Closed(S), NEW t, stack[t] \in Seq(S), stack[t] # << >>,
         Top(t) \in OKFrames, Top(t).count \notin {4, 8}, Recurse(t)
  PROVE  StackOf(t, S) /\ UNCHANGED <<context, mem>>
<1> DEFINE f == Top(t)
           g == [f EXCEPT !.k = @ + 1]
           r == ReplaceTop(stack[t], g)
           s == Append(r, SubCall(f))
<1>1. f \in S /\ f \in OKFrames
  BY TopInStack
<1>2. f.k \in 0..3 /\ f.count \notin {4, 8}
  <2>1. MoreQuarters(f) /\ f.count \notin {4, 8}
    BY DEF Recurse
  <2> HIDE DEF f
  <2> QED BY <1>1, <2>1, QuartersLeft
<1>3. stack' = [stack EXCEPT ![t] = s] /\ UNCHANGED <<context, mem>>
  <2>1. stack' = [stack EXCEPT ![t] = s]
    BY RecurseStack
  <2> QED BY <2>1 DEF Recurse
<1> HIDE DEF f
<1>4. f.fn \in {"fft_default", "fft_neon"} /\ f.i = 0 /\ f.count \in Nat
  BY <1>1, <1>2, FrameFields
<1>5. g \in OKFrames /\ Serves(g) = Serves(f)
  <2> DEFINE h == [f EXCEPT !.k = f.k + 1, !.i = 0]
  <2>1. g = h
    BY <1>1, <1>4, FrameFields DEF Frame
  <2>2. h.fn = f.fn /\ h.i = 0
    BY <1>1, FrameFields DEF Frame
  <2>3. Passed(h) <= f.count \div 4
    <3> HIDE DEF h
    <3> QED BY <1>4, <2>2 DEF Passed
  <2>4. f.k + 1 \in 0..4 /\ 0 \in Nat /\ ~(0 > 0)
    BY <1>2
  <2>5. h \in OKFrames /\ Serves(h) = Serves(f)
    BY <1>1, <2>3, <2>4, CountersOK
  <2> QED BY <2>1, <2>5
<1>6. SubCall(f) \in OKFrames /\ Serves(SubCall(f)) = Serves(f)
  <2>1. f.k < 4
    BY <1>2
  <2> QED BY <1>1, <1>2, <2>1, SubCallOK
<1>7. g \in S /\ SubCall(f) \in S
  <2> HIDE DEF g
  <2> QED BY <1>1, <1>4, <1>5, <1>6 DEF Closed
<1> HIDE DEF g
<1>8. r \in Seq(S)
  BY <1>7, UpdateTop
<1> HIDE DEF r
<1>9. s \in Seq(S)
  BY <1>7, <1>8, PushStack
<1> HIDE DEF s
<1> QED BY <1>3, <1>9 DEF StackOf

LEMMA ReturnOK ==
  ASSUME NEW S, NEW t, stack[t] \in Seq(S), stack[t] # << >>, Return(t)
  PROVE  StackOf(t, S)
<1> DEFINE s == SubSeq(stack[t], 1, Len(stack[t]) - 1)
<1>1. s \in Seq(S)
  BY PopStack
<1>2. stack' = [stack EXCEPT ![t] = s]
  BY DEF Return
<1> HIDE DEF s
<1> QED BY <1>1, <1>2 DEF StackOf

LEMMA IterationOK ==
  ASSUME NEW S, Closed(S), NEW t, stack[t] \in Seq(S), stack[t] # << >>,
         Top(t) \in OKFrames, ~MoreQuarters(Top(t)),
         Passed([Top(t) EXCEPT !.i = @ + 1]) <= Top(t).count \div 4,
         NEW X, IterationStep(t, X)
  PROVE  StackOf(t, S)
<1> DEFINE f == Top(t)
           g == [f EXCEPT !.i = @ + 1]
           s == ReplaceTop(stack[t], g)
<1>1. f \in S /\ f \in OKFrames
  BY TopInStack
<1>2. stack' = [stack EXCEPT ![t] = s]
  BY DEF IterationStep
<1>3. ~MoreQuarters(f) /\ Passed(g) <= f.count \div 4
  OBVIOUS
<1> HIDE DEF f
<1>4. f.k = 4 /\ f.i \in Nat /\ f.fn \in {"fft_default", "fft_neon"}
  BY <1>1, <1>3, QuartersLeft, FrameFields DEF Frame
<1>5. g \in OKFrames /\ Serves(g) = Serves(f)
  <2> DEFINE h == [f EXCEPT !.k = 4, !.i = f.i + 1]
  <2>1. g = h
    BY <1>1, <1>4, FrameFields DEF Frame
  <2>2. f.i + 1 \in Nat /\ 4 \in 0..4 /\ Passed(h) <= f.count \div 4
    BY <1>3, <1>4, <2>1
  <2>3. h \in OKFrames /\ Serves(h) = Serves(f)
    BY <1>1, <2>2, CountersOK
  <2> QED BY <2>1, <2>3
<1>6. g \in S
  <2> HIDE DEF g
  <2> QED BY <1>1, <1>4, <1>5 DEF Closed
<1> HIDE DEF g
<1>7. s \in Seq(S)
  BY <1>6, UpdateTop
<1> HIDE DEF s
<1> QED BY <1>2, <1>7 DEF StackOf

LEMMA StepFftDefault ==
  ASSUME MemOK, NEW S, Closed(S), NEW t, stack[t] \in Seq(S), FftDefaultStep(t)
  PROVE  /\ stack[t] # << >> /\ Top(t) \in S \cap OKFrames
         /\ StackOf(t, S) /\ UNCHANGED context
         /\ Stores(Top(t).dst, 0..(Total(Top(t)) - 1))
<1> DEFINE f == Top(t)
<1>1. stack[t] # << >> /\ f.fn = "fft_default"
  BY DEF FftDefaultStep, FftDefault4, FftDefault8, FftDefaultRecurse,
         FftDefaultCombine, FftDefaultReturn, General, Combining, Running
<1>2. f \in S /\ f \in OKFrames
  BY <1>1, TopInStack DEF Closed
<1> SUFFICES StackOf(t, S) /\ UNCHANGED context /\ Stores(f.dst, 0..(Total(f) - 1))
  BY <1>1, <1>2
<1>3. ASSUME NEW X, Writes(f, X), LeafStep(t, X)
      PROVE  /\ StackOf(t, S) /\ UNCHANGED context
             /\ Stores(f.dst, 0..(Total(f) - 1))
  <2>1. mem' = [mem EXCEPT ![f.dst] = X] /\ Return(t) /\ UNCHANGED context
    BY <1>3 DEF LeafStep
  <2> HIDE DEF f
  <2> QED BY <1>1, <1>2, <1>3, <2>1, ReturnOK, WritesStores
<1>4. CASE FftDefault4(t)
  <2>1. f.count = 4 /\ LeafStep(t, Leaf4(f))
    BY <1>4 DEF FftDefault4
  <2>2. Writes(f, Leaf4(f))
    BY <1>2, <2>1, LeafWrites
  <2> QED BY <1>3, <2>1, <2>2
<1>5. CASE FftDefault8(t)
  <2>1. f.count = 8 /\ LeafStep(t, Leaf8(f))
    BY <1>5 DEF FftDefault8
  <2>2. Writes(f, Leaf8(f))
    BY <1>2, <2>1, LeafWrites
  <2> QED BY <1>3, <2>1, <2>2
<1>6. CASE FftDefaultRecurse(t)
  <2>1. f.count \notin {4, 8} /\ Recurse(t)
    BY <1>6 DEF FftDefaultRecurse, General
  <2>2. StackOf(t, S) /\ UNCHANGED <<context, mem>>
    BY <1>1, <1>2, <2>1, RecurseOK
  <2> QED BY <2>2 DEF Stores
<1>7. CASE FftDefaultCombine(t)
  <2>1. ~MoreQuarters(f) /\ f.i < f.count \div 4 /\ IterationStep(t, Combine(f))
    BY <1>7 DEF FftDefaultCombine, Combining
  <2>2. Writes(f, Combine(f))
    BY <1>2, <2>1, CombineWrites
  <2>3. Passed([f EXCEPT !.i = @ + 1]) <= f.count \div 4
    <3> DEFINE g == [f EXCEPT !.i = @ + 1]
    <3>1. f.fn = "fft_default" /\ f.i < f.count \div 4 /\ f.i \in Nat /\ f.count \in Nat
      BY <1>1, <1>2, <2>1, FrameFields
    <3>2. g.fn = f.fn /\ g.i = f.i + 1
      <4> HIDE DEF f
      <4> QED BY <1>2, FrameFields DEF Frame
    <3> HIDE DEF f, g
    <3>3. Passed(g) <= f.count \div 4
      BY <3>1, <3>2 DEF Passed
    <3> QED BY <3>3 DEF g
  <2>4. StackOf(t, S)
    BY <1>1, <1>2, <2>1, <2>3, IterationOK
  <2>5. mem' = [mem EXCEPT ![f.dst] = Combine(f)] /\ UNCHANGED context
    BY <2>1 DEF IterationStep
  <2> HIDE DEF f
  <2> QED BY <1>2, <2>2, <2>4, <2>5, WritesStores
<1>8. CASE FftDefaultReturn(t)
  <2>1. Return(t) /\ UNCHANGED <<context, mem>>
    BY <1>8 DEF FftDefaultReturn, ReturnStep
  <2>2. StackOf(t, S)
    BY <1>1, <2>1, ReturnOK
  <2> QED BY <2>1, <2>2 DEF Stores
<1> QED BY <1>4, <1>5, <1>6, <1>7, <1>8 DEF FftDefaultStep

LEMMA StepFftNeon ==
  ASSUME MemOK, NEW S, Closed(S), NEW t, stack[t] \in Seq(S), FftNeonStep(t)
  PROVE  /\ stack[t] # << >> /\ Top(t) \in S \cap OKFrames
         /\ StackOf(t, S) /\ UNCHANGED context
         /\ Stores(Top(t).dst, 0..(Total(Top(t)) - 1))
<1> DEFINE f == Top(t)
<1>1. stack[t] # << >> /\ f.fn = "fft_neon"
  BY DEF FftNeonStep, FftNeon4, FftNeon8, FftNeonRecurse,
         FftNeonCombine, FftNeonReturn, General, Combining, Running
<1>2. f \in S /\ f \in OKFrames
  BY <1>1, TopInStack DEF Closed
<1> SUFFICES StackOf(t, S) /\ UNCHANGED context /\ Stores(f.dst, 0..(Total(f) - 1))
  BY <1>1, <1>2
<1>3. ASSUME NEW X, Writes(f, X), LeafStep(t, X)
      PROVE  /\ StackOf(t, S) /\ UNCHANGED context
             /\ Stores(f.dst, 0..(Total(f) - 1))
  <2>1. mem' = [mem EXCEPT ![f.dst] = X] /\ Return(t) /\ UNCHANGED context
    BY <1>3 DEF LeafStep
  <2> HIDE DEF f
  <2> QED BY <1>1, <1>2, <1>3, <2>1, ReturnOK, WritesStores
<1>4. CASE FftNeon4(t)
  <2>1. f.count = 4 /\ LeafStep(t, Leaf4(f))
    BY <1>4 DEF FftNeon4
  <2>2. Writes(f, Leaf4(f))
    BY <1>2, <2>1, LeafWrites
  <2> QED BY <1>3, <2>1, <2>2
<1>5. CASE FftNeon8(t)
  <2>1. f.count = 8 /\ LeafStep(t, NeonLeaf8(f))
    BY <1>5 DEF FftNeon8
  <2>2. Writes(f, NeonLeaf8(f))
    BY <1>2, <2>1, NeonLeafWrites
  <2> QED BY <1>3, <2>1, <2>2
<1>6. CASE FftNeonRecurse(t)
  <2>1. f.count \notin {4, 8} /\ Recurse(t)
    BY <1>6 DEF FftNeonRecurse, General
  <2>2. StackOf(t, S) /\ UNCHANGED <<context, mem>>
    BY <1>1, <1>2, <2>1, RecurseOK
  <2> QED BY <2>2 DEF Stores
<1>7. CASE FftNeonCombine(t)
  <2>1. /\ ~MoreQuarters(f) /\ f.i < (f.count \div 4) \div 4
        /\ IterationStep(t, NeonCombine(f))
    BY <1>7 DEF FftNeonCombine, Combining, MoreVectors
  <2>2. f.i \in Nat /\ f.count \in Nat
    BY <1>2, FrameFields
  <2>3. 4 * (f.i + 1) <= f.count \div 4
    BY <2>1, <2>2
  <2>4. Writes(f, NeonCombine(f))
    BY <1>2, <2>3, NeonCombineWrites
  <2>5. Passed([f EXCEPT !.i = @ + 1]) <= f.count \div 4
    <3> DEFINE g == [f EXCEPT !.i = @ + 1]
    <3>1. f.fn = "fft_neon"
      BY <1>1
    <3>2. g.fn = f.fn /\ g.i = f.i + 1
      <4> HIDE DEF f
      <4> QED BY <1>2, FrameFields DEF Frame
    <3> HIDE DEF f, g
    <3>3. Passed(g) <= f.count \div 4
      BY <2>3, <3>1, <3>2 DEF Passed
    <3> QED BY <3>3 DEF g
  <2>6. StackOf(t, S)
    BY <1>1, <1>2, <2>1, <2>5, IterationOK
  <2>7. mem' = [mem EXCEPT ![f.dst] = NeonCombine(f)] /\ UNCHANGED context
    BY <2>1 DEF IterationStep
  <2> HIDE DEF f
  <2> QED BY <1>2, <2>4, <2>6, <2>7, WritesStores
<1>8. CASE FftNeonReturn(t)
  <2>1. Return(t) /\ UNCHANGED <<context, mem>>
    BY <1>8 DEF FftNeonReturn, ReturnStep
  <2>2. StackOf(t, S)
    BY <1>1, <2>1, ReturnOK
  <2> QED BY <2>1, <2>2 DEF Stores
<1> QED BY <1>4, <1>5, <1>6, <1>7, <1>8 DEF FftNeonStep

(***************************************************************************)
(* A step of the complex FFT, on any thread of any caller: it leaves the    *)
(* contexts alone, stays with the call it works for, and stores complex     *)
(* numbers in that call's share of its output only.                         *)
(***************************************************************************)
THEOREM FftStepOK ==
  ASSUME MemOK, NEW S, Closed(S), NEW t, stack[t] \in Seq(S), FftStep(t)
  PROVE  /\ stack[t] # << >> /\ Top(t) \in S \cap OKFrames
         /\ StackOf(t, S) /\ UNCHANGED context
         /\ Stores(Top(t).dst, 0..(Total(Top(t)) - 1))
  BY StepFftDefault, StepFftNeon DEF FftStep

(* The call that starts a recursion is well placed.                         *)
LEMMA FftCallOK ==
  ASSUME NEW fn \in {"fft_default", "fft_neon"}, NEW c \in Contexts,
         NEW src \in Buffers, NEW dst \in Buffers, NEW count \in Nat,
         NEW inverse \in BOOLEAN, HasTable(c, inverse),
         isPowerOfTwo(count), count \notin {1, 2}, count <= context[c].maxCount,
         count <= BufLen[src], count <= BufLen[dst]
  PROVE  /\ FftCall(fn, c, src, dst, count, inverse) \in OKFrames
         /\ Serves(FftCall(fn, c, src, dst, count, inverse)) =
              [context |-> c, src |-> src, dst |-> dst, count |-> count, inverse |-> inverse]
<1> DEFINE f == FftCall(fn, c, src, dst, count, inverse)
           max == context[c].maxCount
           e == max \div count
<1>1. count >= 4
  <2>1. count # 3 /\ count # 0
    BY DEF isPowerOfTwo
  <2> QED BY <2>1
<1>2. max \in Nat /\ isPowerOfTwo(max) /\ count <= max
  BY DEF HasTable
<1>3. e \in Nat /\ count * e = max
  BY <1>2, PowerOfTwoQuotient
<1>4. f = [fn |-> fn, context |-> c, src |-> src, input |-> 0,
           dst |-> dst, output |-> 0, count |-> count, inverse |-> inverse,
           stride |-> 1, expTableStride |-> e, k |-> 0, i |-> 0]
  BY DEF FftCall
<1> HIDE DEF e, f
<1>5. f \in Frame
  BY <1>3, <1>4 DEF Frame
<1>6. Passed(f) = 0 /\ 0 <= count \div 4
  BY <1>4 DEF Passed
<1>7. Total(f) = count
  BY <1>4 DEF Total
<1>8. FrameOK(f)
  BY <1>1, <1>3, <1>4, <1>6, <1>7 DEF FrameOK
<1>9. f \in OKFrames /\ Serves(f) = [context |-> c, src |-> src, dst |-> dst,
                                     count |-> count, inverse |-> inverse]
  BY <1>4, <1>5, <1>7, <1>8 DEF OKFrames, Serves
<1> QED BY <1>9 DEF f

(* fft() itself: it stores the trivial results, or starts a recursion.      *)
THEOREM FftOK ==
  ASSUME MemOK, NEW S, NEW t, stack[t] = << >>,
         NEW c \in Contexts, NEW src \in Buffers, NEW dst \in Buffers,
         NEW count \in Nat, NEW inverse \in BOOLEAN, HasTable(c, inverse),
         isPowerOfTwo(count), count <= context[c].maxCount,
         count <= BufLen[src], count <= BufLen[dst],
         NEW a, a = [context |-> c, src |-> src, dst |-> dst, count |-> count,
                     inverse |-> inverse],
         \A g \in OKFrames : Serves(g) = a => g \in S,
         fft(t, c, src, dst, count, inverse)
  PROVE  StackOf(t, S) /\ UNCHANGED context /\ Stores(dst, 0..(count - 1))
<1>1. UNCHANGED context
  BY DEF fft
<1>2. CASE count \in {1, 2} /\ mem' = FftTrivial(src, dst, count) /\ UNCHANGED stack
  <2> DEFINE x == mem[src]
             y == mem[dst]
             X == IF count = 1 THEN [y EXCEPT ![0] = x[0]]
                  ELSE [y EXCEPT ![0] = add(x[0], x[1]), ![1] = subtract(x[0], x[1])]
  <2>1. mem' = [mem EXCEPT ![dst] = X]
    BY <1>2 DEF FftTrivial
  <2>2. /\ x \in [0..(BufLen[src] - 1) -> CkFftComplex]
        /\ y \in [0..(BufLen[dst] - 1) -> CkFftComplex]
        /\ BufLen[src] \in Nat
    BY BufferAssumption DEF MemOK, BufferType
  <2>3. x[0] \in CkFftComplex /\ (count # 1 => x[1] \in CkFftComplex)
    <3>1. 0 \in 0..(BufLen[src] - 1) /\ (count # 1 => 1 \in 0..(BufLen[src] - 1))
      BY <1>2, <2>2
    <3> QED BY <2>2, <3>1
  <2> HIDE DEF x, y
  <2>4. X \in BufferType(dst)
    BY <1>2, <2>2, <2>3, ComplexOps DEF BufferType
  <2>5. ASSUME NEW j \in 0..(BufLen[dst] - 1), j \notin 0..(count - 1)
        PROVE  X[j] = y[j]
    <3>1. j # 0 /\ (count # 1 => j # 1)
      BY <1>2, <2>5
    <3> QED BY <2>2, <2>5, <3>1
  <2> HIDE DEF X
  <2> QED BY <1>1, <1>2, <2>1, <2>4, <2>5 DEF Stores, StackOf, y
<1>3. ASSUME NEW fn \in {"fft_default", "fft_neon"}, count \notin {1, 2},
             stack' = [stack EXCEPT ![t] =
                         Append(@, FftCall(fn, c, src, dst, count, inverse))]
      PROVE  StackOf(t, S)
  <2> DEFINE f == FftCall(fn, c, src, dst, count, inverse)
  <2>1. stack' = [stack EXCEPT ![t] = << f >>]
    BY <1>3
  <2>2. f \in OKFrames /\ Serves(f) = [context |-> c, src |-> src, dst |-> dst,
                                       count |-> count, inverse |-> inverse]
    BY <1>3, FftCallOK
  <2> HIDE DEF f
  <2>3. << f >> \in Seq(S)
    BY <2>2
  <2> QED BY <2>1, <2>3 DEF StackOf
<1>4. CASE count \notin {1, 2} /\ UNCHANGED mem
           /\ (fft_neon(t, c, src, dst, count, inverse)
               \/ fft_default(t, c, src, dst, count, inverse))
  <2>1. CASE fft_default(t, c, src, dst, count, inverse)
    BY <1>1, <1>3, <1>4, <2>1 DEF fft_default, Stores
  <2>2. CASE fft_neon(t, c, src, dst, count, inverse)
    BY <1>1, <1>3, <1>4, <2>2 DEF fft_neon, Stores, StackOf
  <2> QED BY <1>4, <2>1, <2>2
<1> QED BY <1>2, <1>4 DEF fft

(* A new context has the tables of both directions.                         *)
LEMMA NewContextTables ==
  ASSUME NEW n \in Nat, isPowerOfTwo(n), NEW neon
  PROVE  /\ NewContext(n, neon).maxCount = n
         /\ NewContext(n, neon).fwdExpTable = [i \in 0..(n - 1) |-> Root(i, n, FALSE)]
         /\ NewContext(n, neon).invExpTable = [i \in 0..(n - 1) |-> Root(i, n, TRUE)]
<1>1. \A i \in 0..(n - 1) : i % n = i
  OBVIOUS
<1>2. \A i \in 0..(n - 1) : Root(i, n, FALSE) = Twiddle(i, n)
                           /\ Root(i, n, TRUE) = conjugate(Twiddle(i, n))
  BY <1>1 DEF Root
<1> QED BY <1>2 DEF NewContext

LEMMA CreatedTables ==
  ASSUME NEW c, NEW n \in Nat, isPowerOfTwo(n), NEW neon, context[c] = NewContext(n, neon)
  PROVE  context[c].maxCount = n /\ \A inverse \in BOOLEAN : HasTable(c, inverse)
<1>1. ASSUME NEW x, x = NewContext(n, neon)
      PROVE  /\ x.maxCount = n
             /\ x.fwdExpTable = [i \in 0..(n - 1) |-> Root(i, n, FALSE)]
             /\ x.invExpTable = [i \in 0..(n - 1) |-> Root(i, n, TRUE)]
  <2>1. x.maxCount = n
    BY <1>1, NewContextTables
  <2>2. x.fwdExpTable = [i \in 0..(n - 1) |-> Root(i, n, FALSE)]
    BY <1>1, NewContextTables
  <2>3. x.invExpTable = [i \in 0..(n - 1) |-> Root(i, n, TRUE)]
    BY <1>1, NewContextTables
  <2> QED BY <2>1, <2>2, <2>3
<1>2. /\ context[c].maxCount = n
      /\ context[c].fwdExpTable = [i \in 0..(n - 1) |-> Root(i, n, FALSE)]
      /\ context[c].invExpTable = [i \in 0..(n - 1) |-> Root(i, n, TRUE)]
  BY <1>1
<1>3. HasTable(c, TRUE) /\ HasTable(c, FALSE)
  BY <1>2 DEF HasTable, TableOf
<1> QED BY <1>2, <1>3

=============================================================================
