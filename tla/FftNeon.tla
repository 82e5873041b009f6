------------------------------ MODULE FftNeon ------------------------------
(***************************************************************************)
(* The complex FFT in NEON vectors, src/src/ckfft/fft_neon.cpp: the         *)
(* recursion of fft_default, with two butterflies to a step for count = 8   *)
(* and four in the loop.  A vector is a function from its lanes to          *)
(* CkFftComplex, as vld2 and vst2 load and store real and imaginary parts;  *)
(* its arithmetic is that of its lanes.                                     *)
(*                                                                          *)
(* A definition whose name ends in "Bug" is a faulty variant of the         *)
(* definition that follows it: a plausible slip in the code, which the      *)
(* properties must notice.  No specification uses it.                       *)
(***************************************************************************)
EXTENDS FftCalls

(***************************************************************************)
(* The butterflies X[l] of all lanes stored into out0 .. out3, which are n  *)
(* elements apart.  What is stored past the end of a buffer makes it        *)
(* longer, and TypeOK fails.                                                *)
(***************************************************************************)
StoreLanes(buf, out0, n, X) ==
  LET vector(j) == (j - out0) \div n
      lane(j) == (j - out0) % n
      written == {out0 + m * n + l : m \in 0..3, l \in DOMAIN X}
  IN  [j \in DOMAIN buf \cup written |->
         IF j \in written THEN X[lane(j)][vector(j) + 1] ELSE buf[j]]

\* exp2_v left with the second lane of exp1_v
NeonLeaf8Bug(f) ==
  LET Fw(q, l) == multiply(Pair(f, q, l), Exp(f, l, IF q = 2 THEN 1 ELSE q))
      X == [l \in 0..1 |->
              Radix4(Pair(f, 0, l), Fw(1, l), Fw(2, l), Fw(3, l), f.inverse)]
  IN  StoreLanes(mem[f.dst], f.output, 2, X)

(* count = 8: both butterflies in the two lanes of a vector, each with its  *)
(* twiddle factors.                                                         *)
NeonLeaf8(f) ==
  LET Fw(q, l) == multiply(Pair(f, q, l), Exp(f, l, q))
      X == [l \in 0..1 |->
              Radix4(Pair(f, 0, l), Fw(1, l), Fw(2, l), Fw(3, l), f.inverse)]
  IN  StoreLanes(mem[f.dst], f.output, 2, X)

\* exp1 .. exp3 not moved on from one iteration to the next
NeonCombineBug(f) ==
  LET n == f.count \div 4
      Fw(i, m) == multiply(Out(f, i + m * n), Exp(f, i % 4, m))
      Lane(i) == Radix4(Out(f, i), Fw(i, 1), Fw(i, 2), Fw(i, 3), f.inverse)
  IN  StoreLanes(mem[f.dst], OutIdx(f, 4 * f.i), n, [l \in 0..3 |-> Lane(4 * f.i + l)])

(* One iteration of the loop of the general case: four butterflies.         *)
NeonCombine(f) ==
  LET n == f.count \div 4
      Fw(i, m) == multiply(Out(f, i + m * n), Exp(f, i, m))
      Lane(i) == Radix4(Out(f, i), Fw(i, 1), Fw(i, 2), Fw(i, 3), f.inverse)
  IN  StoreLanes(mem[f.dst], OutIdx(f, 4 * f.i), n, [l \in 0..3 |-> Lane(4 * f.i + l)])

(* m = n/4 iterations.                                                      *)
MoreVectors(f) == f.i < (f.count \div 4) \div 4

-----------------------------------------------------------------------------
FftNeon4(t) ==
  Running(t, "fft_neon") /\ Top(t).count = 4 /\ LeafStep(t, Leaf4(Top(t)))

FftNeon8(t) ==
  Running(t, "fft_neon") /\ Top(t).count = 8 /\ LeafStep(t, NeonLeaf8(Top(t)))

FftNeonRecurse(t) == General(t, "fft_neon") /\ Recurse(t)

FftNeonCombine(t) ==
  /\ Combining(t, "fft_neon")
  /\ MoreVectors(Top(t))
  /\ IterationStep(t, NeonCombine(Top(t)))

FftNeonReturn(t) ==
  /\ Combining(t, "fft_neon")
  /\ ~MoreVectors(Top(t))
  /\ ReturnStep(t)

FftNeonStep(t) ==
  \/ FftNeon4(t)
  \/ FftNeon8(t)
  \/ FftNeonRecurse(t)
  \/ FftNeonCombine(t)
  \/ FftNeonReturn(t)

(* A build without NEON has an empty function.                              *)
fft_neon(t, c, src, dst, count, inverse) ==
  IF ArmNeon
  THEN stack' = [stack EXCEPT ![t] =
                   Append(@, FftCall("fft_neon", c, src, dst, count, inverse))]
  ELSE UNCHANGED stack
=============================================================================
