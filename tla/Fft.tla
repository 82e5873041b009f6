-------------------------------- MODULE Fft --------------------------------
(***************************************************************************)
(* fft() of src/src/ckfft/fft.cpp, which does the trivial counts itself and *)
(* otherwise calls fft_neon or fft_default, as the context says.            *)
(*                                                                          *)
(* A definition whose name ends in "Bug" is a faulty variant of the         *)
(* definition that follows it: a plausible slip in the code, which the      *)
(* properties must notice.  No specification uses it.                       *)
(***************************************************************************)
EXTENDS FftDefault, FftNeon

(* A context as _CkFftContext::create makes it, for both directions.        *)
NewContext(maxCount, neon) ==
  [neon |-> neon,
   maxCount |-> maxCount,
   fwdExpTable |-> [i \in 0..(maxCount - 1) |-> Twiddle(i, maxCount)],
   invExpTable |-> [i \in 0..(maxCount - 1) |-> conjugate(Twiddle(i, maxCount))]]

(* The trivial counts are done by fft() itself.                             *)
FftTrivial(src, dst, count) ==
  LET x == mem[src]
  IN  IF count = 1
      THEN [mem EXCEPT ![dst][0] = x[0]]
      ELSE [mem EXCEPT ![dst] = [@ EXCEPT ![0] = add(x[0], x[1]),
                                          ![1] = subtract(x[0], x[1])]]

\* the table for the direction kept in the context: the context has state
fftContextStateBug(t, c, src, dst, count, inverse) ==
  \/ /\ count \in {1, 2}
     /\ mem' = FftTrivial(src, dst, count)
     /\ UNCHANGED <<stack, context>>
  \/ /\ count \notin {1, 2}
     /\ IF context[c].neon THEN fft_neon(t, c, src, dst, count, inverse)
                           ELSE fft_default(t, c, src, dst, count, inverse)
     /\ LET new == NewContext(context[c].maxCount, context[c].neon)
            table == IF inverse THEN new.invExpTable ELSE new.fwdExpTable
        IN  context' = [context EXCEPT ![c].fwdExpTable = table,
                                       ![c].invExpTable = table]
     /\ UNCHANGED mem

fft(t, c, src, dst, count, inverse) ==
  /\ \/ /\ count \in {1, 2}
        /\ mem' = FftTrivial(src, dst, count)
        /\ UNCHANGED stack
     \/ /\ count \notin {1, 2}
        /\ IF context[c].neon THEN fft_neon(t, c, src, dst, count, inverse)
                              ELSE fft_default(t, c, src, dst, count, inverse)
        /\ UNCHANGED mem
  /\ UNCHANGED context

FftStep(t) == FftDefaultStep(t) \/ FftNeonStep(t)
=============================================================================
