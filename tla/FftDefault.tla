----------------------------- MODULE FftDefault -----------------------------
(***************************************************************************)
(* The complex FFT in plain C++, src/src/ckfft/fft_default.cpp: one step    *)
(* per leaf, recursive call, butterfly (loop iteration) and return.         *)
(*                                                                          *)
(* A definition whose name ends in "Bug" is a faulty variant of the         *)
(* definition that follows it: a plausible slip in the code, which the      *)
(* properties must notice.  No specification uses it.                       *)
(***************************************************************************)
EXTENDS FftCalls

\* exp3 taken for exp1 as well
Leaf8Bug(f) ==
  LET X0 == Radix4(Pair(f, 0, 0), Pair(f, 1, 0), Pair(f, 2, 0), Pair(f, 3, 0), f.inverse)
      Fw(q, m) == multiply(Pair(f, q, 1), Exp(f, 1, m))
      X1 == Radix4(Pair(f, 0, 1), Fw(1, 3), Fw(2, 2), Fw(3, 3), f.inverse)
  IN  StoreQuad(StoreQuad(mem[f.dst], f.output, 2, X0), OutIdx(f, 1), 2, X1)

(***************************************************************************)
(* count = 8: the four FFTs of length 2, then the butterfly loop unrolled,  *)
(* without twiddle factors for i = 0.                                       *)
(***************************************************************************)
Leaf8(f) ==
  LET X0 == Radix4(Pair(f, 0, 0), Pair(f, 1, 0), Pair(f, 2, 0), Pair(f, 3, 0), f.inverse)
      Fw(q) == multiply(Pair(f, q, 1), Exp(f, 1, q))
      X1 == Radix4(Pair(f, 0, 1), Fw(1), Fw(2), Fw(3), f.inverse)
  IN  StoreQuad(StoreQuad(mem[f.dst], f.output, 2, X0), OutIdx(f, 1), 2, X1)

(* One iteration of the butterfly loop of the general case.                 *)
Combine(f) ==
  LET n == f.count \div 4
      Fw(m) == multiply(Out(f, f.i + m * n), Exp(f, f.i, m))
  IN  StoreQuad(mem[f.dst], OutIdx(f, f.i), n,
                Radix4(Out(f, f.i), Fw(1), Fw(2), Fw(3), f.inverse))

-----------------------------------------------------------------------------
FftDefault4(t) ==
  Running(t, "fft_default") /\ Top(t).count = 4 /\ LeafStep(t, Leaf4(Top(t)))

FftDefault8(t) ==
  Running(t, "fft_default") /\ Top(t).count = 8 /\ LeafStep(t, Leaf8(Top(t)))

FftDefaultRecurse(t) == General(t, "fft_default") /\ Recurse(t)

FftDefaultCombine(t) ==
  /\ Combining(t, "fft_default")
  /\ Top(t).i < Top(t).count \div 4
  /\ IterationStep(t, Combine(Top(t)))

FftDefaultReturn(t) ==
  /\ Combining(t, "fft_default")
  /\ Top(t).i >= Top(t).count \div 4
  /\ ReturnStep(t)

FftDefaultStep(t) ==
  \/ FftDefault4(t)
  \/ FftDefault8(t)
  \/ FftDefaultRecurse(t)
  \/ FftDefaultCombine(t)
  \/ FftDefaultReturn(t)

fft_default(t, c, src, dst, count, inverse) ==
  stack' = [stack EXCEPT ![t] =
              Append(@, FftCall("fft_default", c, src, dst, count, inverse))]
=============================================================================
