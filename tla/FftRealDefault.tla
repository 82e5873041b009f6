--------------------------- MODULE FftRealDefault ---------------------------
(***************************************************************************)
(* The real transforms in plain C++, src/src/ckfft/fft_real_default.cpp:    *)
(* the loop takes one element from either end.                              *)
(*                                                                          *)
(* A definition whose name ends in "Bug" is a faulty variant of the         *)
(* definition that follows it: a plausible slip in the code, which the      *)
(* properties must notice.  No specification uses it.                       *)
(***************************************************************************)
EXTENDS FftRealCalls

\* counted from the last of countDiv2 elements, not from the one after it
IterationBug(f, from, to, table, inverse) ==
  LET last == f.count \div 2 - 1 - f.i
      new == Untangle(from[f.i], from[last], Exp0(f, table, f.i), Exp1(f, table, f.i), inverse)
  IN  [to EXCEPT ![f.i] = new[1], ![last] = new[2]]

(* One iteration of either loop, which reads from and writes to.            *)
Iteration(f, from, to, table, inverse) ==
  LET last == f.count \div 2 - f.i
      new == Untangle(from[f.i], from[last], Exp0(f, table, f.i), Exp1(f, table, f.i), inverse)
  IN  [to EXCEPT ![f.i] = new[1], ![last] = new[2]]

-----------------------------------------------------------------------------
RealForwardCopy(t) == Copy(t, "fft_real_default")

\* i <= countDiv4 for i < countDiv4
RealForwardLoopLimitBug(t) ==
  LET f == Top(t)
      out == mem[f.dst]
  IN  /\ Running(t, "fft_real_default") /\ f.copied /\ f.i <= f.count \div 4
      /\ LoopStep(t, f.dst, Iteration(f, out, out, context[f.context].fwdExpTable, FALSE), 1)

RealForwardLoop(t) ==
  LET f == Top(t)
      out == mem[f.dst]
  IN  /\ Looping(t, "fft_real_default")
      /\ LoopStep(t, f.dst, Iteration(f, out, out, context[f.context].fwdExpTable, FALSE), 1)

RealForwardMiddle(t) ==
  LET f == Top(t)
  IN  /\ Looped(t, "fft_real_default")
      /\ ForwardEnd(t, Middle(mem[f.dst], mem[f.dst], f.count \div 4))

\* the forward table
RealInverseLoopBug(t) ==
  LET f == Top(t)
  IN  /\ Looping(t, "fft_real_inverse_default")
      /\ LoopStep(t, f.tmpBuf, Iteration(f, mem[f.src], mem[f.tmpBuf],
                                         context[f.context].fwdExpTable, TRUE), 1)

RealInverseLoop(t) ==
  LET f == Top(t)
  IN  /\ Looping(t, "fft_real_inverse_default")
      /\ LoopStep(t, f.tmpBuf, Iteration(f, mem[f.src], mem[f.tmpBuf],
                                         context[f.context].invExpTable, TRUE), 1)

\* the middle element forgotten
RealInverseMiddleBug(t) ==
  LET f == Top(t)
  IN  /\ Looped(t, "fft_real_inverse_default")
      /\ InverseEnd(t, mem[f.tmpBuf], "fft_default")

RealInverseMiddle(t) ==
  LET f == Top(t)
  IN  /\ Looped(t, "fft_real_inverse_default")
      /\ InverseEnd(t, Middle(mem[f.src], mem[f.tmpBuf], f.count \div 4), "fft_default")

RealDefaultStep(t) ==
  \/ RealForwardCopy(t)
  \/ RealForwardLoop(t)
  \/ RealForwardMiddle(t)
  \/ RealInverseLoop(t)
  \/ RealInverseMiddle(t)

fft_real_default(t, c, src, dst, count) ==
  stack' = [stack EXCEPT ![t] =
              Forwards("fft_real_default", "fft_default", c, src, dst, count)]

fft_real_inverse_default(t, c, src, dst, count, tmpBuf) ==
  stack' = [stack EXCEPT ![t] =
              << RealCall("fft_real_inverse_default", c, src, dst, tmpBuf, count) >>]
=============================================================================
