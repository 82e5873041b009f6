------------------------------ MODULE FftReal ------------------------------
(***************************************************************************)
(* fft_real() and fft_real_inverse() of src/src/ckfft/fft_real.cpp, which   *)
(* do the trivial counts themselves and otherwise call the NEON or the      *)
(* default code, as the context says.                                       *)
(***************************************************************************)
EXTENDS FftRealDefault, FftRealNeon

float(b, j) == IF j % 2 = 0 THEN mem[b][j \div 2].real ELSE mem[b][j \div 2].imag

(* fft_real for count 1, 2 and 4: the new contents of output.               *)
RealTrivial(src, dst, count) ==
  LET x(j) == float(src, j)
      re(r) == [real |-> Twice(r), imag |-> 0]
  IN  CASE count = 1 -> [mem[dst] EXCEPT ![0] = re(x(0))]
        [] count = 2 -> [mem[dst] EXCEPT ![0] = re(x(0) + x(1)), ![1] = re(x(0) - x(1))]
        [] count = 4 ->
             [mem[dst] EXCEPT
                ![0] = re(x(0) + x(2) + x(1) + x(3)),
                ![1] = [real |-> Twice(x(0) - x(2)), imag |-> Neg(Twice(x(1) - x(3)))],
                ![2] = re(x(0) + x(2) - x(1) - x(3)),
                ![3] = [real |-> Twice(x(0) - x(2)), imag |-> Twice(x(1) - x(3))]]

(* fft_real_inverse for count 1, 2 and 4.                                   *)
RealInverseTrivial(src, dst, count) ==
  LET X == mem[src]
  IN  CASE count = 1 -> [mem[dst] EXCEPT ![0].real = X[0].real]
        [] count = 2 ->
             [mem[dst] EXCEPT ![0] = [real |-> (X[0].real + X[1].real) % P,
                                      imag |-> (X[0].real - X[1].real) % P]]
        [] count = 4 ->
             LET sum02 == X[0].real + X[2].real
                 sum13 == 2 * X[1].real
                 diff02 == X[0].real - X[2].real
                 diff13 == 2 * X[1].imag
             IN  [mem[dst] EXCEPT
                    ![0] = [real |-> (sum02 + sum13) % P, imag |-> (diff02 - diff13) % P],
                    ![1] = [real |-> (sum02 - sum13) % P, imag |-> (diff02 + diff13) % P]]

FftRealStep(t) == RealDefaultStep(t) \/ RealNeonStep(t) \/ FftStep(t)

fft_real(t, c, src, dst, count) ==
  /\ \/ /\ count \in {1, 2, 4}
        /\ mem' = [mem EXCEPT ![dst] = RealTrivial(src, dst, count)]
        /\ UNCHANGED stack
     \/ /\ count \notin {1, 2, 4}
        /\ IF context[c].neon THEN fft_real_neon(t, c, src, dst, count)
                              ELSE fft_real_default(t, c, src, dst, count)
        /\ UNCHANGED mem
  /\ UNCHANGED context

fft_real_inverse(t, c, src, dst, count, tmpBuf) ==
  /\ \/ /\ count \in {1, 2, 4}
        /\ mem' = [mem EXCEPT ![dst] = RealInverseTrivial(src, dst, count)]
        /\ UNCHANGED stack
     \/ /\ count \notin {1, 2, 4}
        /\ IF context[c].neon THEN fft_real_inverse_neon(t, c, src, dst, count, tmpBuf)
                              ELSE fft_real_inverse_default(t, c, src, dst, count, tmpBuf)
        /\ UNCHANGED mem
  /\ UNCHANGED context

-----------------------------------------------------------------------------
(* The number of elements ckfft.h asks for: n floats, n/2 + 1 CkFftComplex. *)
Pairs(n) == (n + 1) \div 2
HalfSpectrum(n) == n \div 2 + 1

(* A vector of the last iteration may reach past the middle, for count = 8. *)
LoopInBounds(f) ==
  \/ f.i <= f.count \div 4
  \/ f.fn \in {"fft_real_neon", "fft_real_inverse_neon"} /\ f.count = 8 /\ f.i = 4
=============================================================================
