---------------------------- MODULE FftRealNeon ----------------------------
(***************************************************************************)
(* The real transforms in NEON vectors, src/src/ckfft/fft_real_neon.cpp:    *)
(* the loop takes four elements from either end, the far ones in reverse.   *)
(* For count = 8 the vectors from the two ends overlap.                     *)
(*                                                                          *)
(* A definition whose name ends in "Bug" is a faulty variant of the         *)
(* definition that follows it: a plausible slip in the code, which the      *)
(* properties must notice.  No specification uses it.                       *)
(***************************************************************************)
EXTENDS FftRealCalls

Lanes == 0..3
Load(buf, at) == [l \in Lanes |-> buf[at + l]]
Reversed(v) == [l \in Lanes |-> v[3 - l]]

(* What is stored outside a buffer makes it longer, and TypeOK fails.       *)
Store(buf, at, v) ==
  [j \in DOMAIN buf \cup {at + l : l \in Lanes} |->
     IF j - at \in Lanes THEN v[j - at] ELSE buf[j]]

\* the far vector stored as it was computed
VectorIterationReverseBug(f, from, to, table, inverse) ==
  LET p1 == f.count \div 2 - 3 - f.i
      z0 == Load(from, f.i)
      z1 == Reversed(Load(from, p1))
      new == [l \in Lanes |-> Untangle(z0[l], z1[l], Exp0(f, table, f.i + l),
                                       Exp1(f, table, f.i + l), inverse)]
  IN  Store(Store(to, f.i, [l \in Lanes |-> new[l][1]]), p1, [l \in Lanes |-> new[l][2]])

\* the far vector loaded after the near one is stored
VectorIterationOrderBug(f, from, to, table, inverse) ==
  LET p1 == f.count \div 2 - 3 - f.i
      z0 == Load(from, f.i)
      near == Store(to, f.i, [l \in Lanes |->
                Untangle(z0[l], from[p1 + 3 - l], Exp0(f, table, f.i + l),
                         Exp1(f, table, f.i + l), inverse)[1]])
      z1 == Reversed(Load(IF from = to THEN near ELSE from, p1))
  IN  Store(near, p1, Reversed([l \in Lanes |->
                Untangle(z0[l], z1[l], Exp0(f, table, f.i + l),
                         Exp1(f, table, f.i + l), inverse)[2]]))

(* One iteration of either loop: both vectors are loaded, the far one is    *)
(* reversed, and both results are stored.                                   *)
VectorIteration(f, from, to, table, inverse) ==
  LET p1 == f.count \div 2 - 3 - f.i
      z0 == Load(from, f.i)
      z1 == Reversed(Load(from, p1))
      new == [l \in Lanes |-> Untangle(z0[l], z1[l], Exp0(f, table, f.i + l),
                                       Exp1(f, table, f.i + l), inverse)]
  IN  Store(Store(to, f.i, [l \in Lanes |-> new[l][1]]),
            p1, Reversed([l \in Lanes |-> new[l][2]]))

-----------------------------------------------------------------------------
NeonForwardCopy(t) == Copy(t, "fft_real_neon")

NeonForwardLoop(t) ==
  LET f == Top(t)
      out == mem[f.dst]
  IN  /\ Looping(t, "fft_real_neon")
      /\ LoopStep(t, f.dst,
                  VectorIteration(f, out, out, context[f.context].fwdExpTable, FALSE), 4)

\* the middle element of count = 8 done again
NeonForwardMiddleBug(t) ==
  LET f == Top(t)
  IN  /\ Looped(t, "fft_real_neon")
      /\ ForwardEnd(t, Middle(mem[f.dst], mem[f.dst], f.i))

(* The vectors of count = 8 have covered the middle.                        *)
NeonForwardMiddle(t) ==
  LET f == Top(t)
      out == mem[f.dst]
  IN  /\ Looped(t, "fft_real_neon")
      /\ ForwardEnd(t, IF f.count > 8 THEN Middle(out, out, f.i) ELSE out)

\* i not incremented
NeonInverseLoopStuckBug(t) ==
  LET f == Top(t)
  IN  /\ Looping(t, "fft_real_inverse_neon")
      /\ LoopStep(t, f.tmpBuf, VectorIteration(f, mem[f.src], mem[f.tmpBuf],
                                               context[f.context].invExpTable, TRUE), 0)

NeonInverseLoop(t) ==
  LET f == Top(t)
  IN  /\ Looping(t, "fft_real_inverse_neon")
      /\ LoopStep(t, f.tmpBuf, VectorIteration(f, mem[f.src], mem[f.tmpBuf],
                                               context[f.context].invExpTable, TRUE), 4)

(* For count = 8 this is the element after those that the FFT reads.        *)
NeonInverseMiddle(t) ==
  LET f == Top(t)
  IN  /\ Looped(t, "fft_real_inverse_neon")
      /\ InverseEnd(t, Middle(mem[f.src], mem[f.tmpBuf], f.i), "fft_neon")

RealNeonStep(t) ==
  \/ NeonForwardCopy(t)
  \/ NeonForwardLoop(t)
  \/ NeonForwardMiddle(t)
  \/ NeonInverseLoop(t)
  \/ NeonInverseMiddle(t)

(* A build without NEON has empty functions.                                *)
fft_real_neon(t, c, src, dst, count) ==
  IF ArmNeon
  THEN stack' = [stack EXCEPT ![t] =
                   Forwards("fft_real_neon", "fft_neon", c, src, dst, count)]
  ELSE UNCHANGED stack

fft_real_inverse_neon(t, c, src, dst, count, tmpBuf) ==
  IF ArmNeon
  THEN stack' = [stack EXCEPT ![t] =
                   << RealCall("fft_real_inverse_neon", c, src, dst, tmpBuf, count) >>]
  ELSE UNCHANGED stack
=============================================================================
