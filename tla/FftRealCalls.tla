---------------------------- MODULE FftRealCalls ----------------------------
(***************************************************************************)
(* What the real transforms of fft_real_default.cpp and fft_real_neon.cpp   *)
(* share.  A real transform of count elements is a complex one of count/2   *)
(* elements and a loop that untangles it (forward) or tangles its input     *)
(* (inverse), from both ends towards the middle.                            *)
(*                                                                          *)
(* An array of floats is the array of CkFftComplex it is cast to: element   *)
(* 2*j is the real part of pair j and 2*j + 1 the imaginary part.           *)
(*                                                                          *)
(* A definition whose name ends in "Bug" is a faulty variant of the         *)
(* definition that follows it: a plausible slip in the code, which the      *)
(* properties must notice.  No specification uses it.                       *)
(***************************************************************************)
EXTENDS Fft

(* The running call of a real transform.  i is the offset of p0; copied     *)
(* says that output[countDiv2] has been set, and the inverse ones have no   *)
(* such step.                                                               *)
RealFrame == [fn: {"fft_real_default", "fft_real_inverse_default",
                   "fft_real_neon", "fft_real_inverse_neon"},
              context: Contexts, src: Buffers, dst: Buffers, tmpBuf: Buffers,
              count: Nat, copied: BOOLEAN, i: Nat]

Looping(t, fn) == Running(t, fn) /\ Top(t).copied /\ Top(t).i < Top(t).count \div 4
Looped(t, fn) == Running(t, fn) /\ Top(t).copied /\ Top(t).i >= Top(t).count \div 4

RealCall(fn, c, src, dst, tmpBuf, count) ==
  [fn |-> fn, context |-> c, src |-> src, dst |-> dst, tmpBuf |-> tmpBuf, count |-> count,
   copied |-> fn \in {"fft_real_inverse_default", "fft_real_inverse_neon"}, i |-> 0]

Twice(x) == (2 * x) % P
Neg(x) == (-x) % P

(***************************************************************************)
(* Both elements of one iteration, for z0 = x[i] and z1 = x[countDiv2 - i]: *)
(* their new values.                                                        *)
(***************************************************************************)
TimesI(w) == [real |-> Neg(w.imag), imag |-> w.real]

\* sum not negated for the second element
UntangleBug(z0, z1, exp0, exp1, inverse) ==
  LET sum == add(z0, conjugate(z1))
      diff == subtract(z0, conjugate(z1))
      p0 == multiply(TimesI(exp0), diff)
      p1 == multiply(TimesI(exp1), [diff EXCEPT !.real = Neg(@)])
  IN  IF inverse THEN << add(sum, p0), add(sum, p1) >>
                 ELSE << subtract(sum, p0), subtract(sum, p1) >>

Untangle(z0, z1, exp0, exp1, inverse) ==
  LET sum == add(z0, conjugate(z1))
      diff == subtract(z0, conjugate(z1))
      p0 == multiply(TimesI(exp0), diff)
      p1 == multiply(TimesI(exp1), [diff EXCEPT !.real = Neg(@)])
      sum1 == conjugate(sum)
  IN  IF inverse THEN << add(sum, p0), add(sum1, p1) >>
                 ELSE << subtract(sum, p0), subtract(sum1, p1) >>

(* exp0 and exp1 of element i, from the two ends of half the table.         *)
Exp0(f, table, i) == table[i * (context[f.context].maxCount \div f.count)]
Exp1(f, table, i) ==
  table[(f.count \div 2 - i) * (context[f.context].maxCount \div f.count)]

(* The middle element, after the loop.                                      *)
Middle(from, to, m) ==
  [to EXCEPT ![m] = [real |-> Twice(from[m].real), imag |-> Neg(Twice(from[m].imag))]]

-----------------------------------------------------------------------------
(* The steps of all four functions: output[countDiv2] = output[0], an       *)
(* iteration that stores X in buffer b and moves p0 on, and the end.        *)
\* output[countDiv2] written one element too far
CopyBug(t, fn) ==
  LET f == Top(t)
  IN  /\ Running(t, fn) /\ ~f.copied
      /\ mem' = [mem EXCEPT ![f.dst][f.count \div 2 + 1] = mem[f.dst][0]]
      /\ stack' = [stack EXCEPT ![t] = ReplaceTop(@, [f EXCEPT !.copied = TRUE])]
      /\ UNCHANGED context

Copy(t, fn) ==
  LET f == Top(t)
  IN  /\ Running(t, fn) /\ ~f.copied
      /\ mem' = [mem EXCEPT ![f.dst][f.count \div 2] = mem[f.dst][0]]
      /\ stack' = [stack EXCEPT ![t] = ReplaceTop(@, [f EXCEPT !.copied = TRUE])]
      /\ UNCHANGED context

LoopStep(t, b, X, step) ==
  /\ mem' = [mem EXCEPT ![b] = X]
  /\ stack' = [stack EXCEPT ![t] = ReplaceTop(@, [Top(t) EXCEPT !.i = @ + step])]
  /\ UNCHANGED context

ForwardEnd(t, X) ==
  /\ mem' = [mem EXCEPT ![Top(t).dst] = X]
  /\ Return(t)
  /\ UNCHANGED context

(* The inverse ends with the call of the complex FFT fn.                    *)
InverseEnd(t, X, fn) ==
  LET f == Top(t)
  IN  /\ mem' = [mem EXCEPT ![f.tmpBuf] = X]
      /\ stack' = [stack EXCEPT ![t] = ReplaceTop(@,
                     FftCall(fn, f.context, f.tmpBuf, f.dst, f.count \div 2, TRUE))]
      /\ UNCHANGED context

(* The forward transform begins with a complex one.                         *)
Forwards(fn, fftFn, c, src, dst, count) ==
  << RealCall(fn, c, src, dst, dst, count),
     FftCall(fftFn, c, src, dst, count \div 2, FALSE) >>
=============================================================================
