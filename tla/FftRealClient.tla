---------------------------- MODULE FftRealClient ----------------------------
(***************************************************************************)
(* Threads that call fft_real() and fft_real_inverse() on shared contexts,  *)
(* as the users of the real transforms in ckfft.cpp do, and what the real   *)
(* transforms promise them.                                                 *)
(***************************************************************************)
EXTENDS FftReal

CONSTANTS Threads, MaxCount, Neon, Counts, InitMem, NoCall   \* as in FftClient

Args == [op: {"forward", "inverse"}, context: Contexts, src: Buffers, dst: Buffers,
         tmpBuf: Buffers, count: Counts, data: Buffers]

ASSUME CallerAssumption ==
  /\ MaxCount \in [Contexts -> {m \in Nat : isPowerOfTwo(m)}]
  /\ Neon \in [Contexts -> BOOLEAN]
  /\ Counts \subseteq Nat
  /\ \A m \in InitMem :
       /\ DOMAIN m = Buffers
       /\ \A b \in Buffers : m[b] \in [0..(BufLen[b] - 1) -> CkFftComplex]
  /\ NoCall \notin Args

VARIABLE
  call    \* the arguments of each thread's last real transform, and the
          \* buffer of the real data it goes back to

vars == <<context, mem, stack, call>>

-----------------------------------------------------------------------------
(* The buffers of a call are not written by the calls of other threads, and *)
(* it writes none that they use.                                            *)
Apart(t, reads, writes) ==
  \A u \in Threads \ {t} : call[u] # NoCall =>
    /\ writes \cap {call[u].src, call[u].dst, call[u].tmpBuf} = {}
    /\ reads \cap {call[u].dst, call[u].tmpBuf} = {}
    /\ call[u].data \notin writes

(***************************************************************************)
(* The caller: a forward transform of its real data, then the inverse of    *)
(* what it got, on any contexts that allow the count, with buffers of at    *)
(* least the sizes ckfft.h asks for, all of them different.                 *)
(***************************************************************************)
CallForward(t) ==
  \E c \in Contexts, src, dst \in Buffers, count \in Counts :
    /\ call[t] = NoCall
    /\ isPowerOfTwo(count) /\ count <= context[c].maxCount
    /\ src # dst
    /\ Pairs(count) <= BufLen[src] /\ HalfSpectrum(count) <= BufLen[dst]
    /\ Apart(t, {src}, {dst})
    /\ call' = [call EXCEPT ![t] = [op |-> "forward", context |-> c, src |-> src,
                                    dst |-> dst, tmpBuf |-> dst, count |-> count,
                                    data |-> src]]
    /\ fft_real(t, c, src, dst, count)

CallInverse(t) ==
  \E c \in Contexts, dst, tmpBuf \in Buffers :
    /\ call[t] # NoCall /\ call[t].op = "forward" /\ stack[t] = << >>
    /\ LET src == call[t].dst
           count == call[t].count
       IN  /\ count <= context[c].maxCount
           /\ dst # call[t].src /\ tmpBuf # call[t].src
           /\ src # dst /\ src # tmpBuf /\ dst # tmpBuf
           /\ Pairs(count) <= BufLen[dst] /\ HalfSpectrum(count) <= BufLen[tmpBuf]
           /\ Apart(t, {src}, {dst, tmpBuf})
           /\ call' = [call EXCEPT ![t] = [op |-> "inverse", context |-> c, src |-> src,
                                           dst |-> dst, tmpBuf |-> tmpBuf, count |-> count,
                                           data |-> call[t].data]]
           /\ fft_real_inverse(t, c, src, dst, count, tmpBuf)

Init ==
  /\ context = [c \in Contexts |-> NewContext(MaxCount[c], Neon[c])]
  /\ mem \in InitMem
  /\ stack = [t \in Threads |-> << >>]
  /\ call = [t \in Threads |-> NoCall]

Step(t) == FftRealStep(t) /\ UNCHANGED call

Next == \E t \in Threads : CallForward(t) \/ CallInverse(t) \/ Step(t)

Spec == Init /\ [][Next]_vars

-----------------------------------------------------------------------------
(* The state has the shape the code gives it.                               *)
TypeOK ==
  /\ \A b \in Buffers : mem[b] \in [0..(BufLen[b] - 1) -> CkFftComplex]
  /\ \A t \in Threads : \A d \in 1..Len(stack[t]) :
       \/ stack[t][d] \in Frame
       \/ stack[t][d] \in RealFrame /\ LoopInBounds(stack[t][d])
  /\ call \in [Threads -> Args \cup {NoCall}]

Returned(t, op) == call[t] # NoCall /\ call[t].op = op /\ stack[t] = << >>

(* The transform of real data, scaled by 2 as the code scales it.           *)
Spectrum(b, n) ==
  LET X == DFT([j \in 0..(n - 1) |-> [real |-> float(b, j), imag |-> 0]], n, FALSE)
  IN  [k \in 0..(n - 1) |-> add(X[k], X[k])]

(***************************************************************************)
(* What CkFftRealForward promises: n/2 + 1 elements of the spectrum, from a *)
(* complex transform of half the size, with the same scale for the counts   *)
(* fft_real treats by itself (fft_real.cpp: "scale by 2 to match what       *)
(* fft_real_default would produce").                                        *)
(***************************************************************************)
ForwardCorrect ==
  \A t \in Threads : Returned(t, "forward") =>
    LET n == call[t].count
        X == Spectrum(call[t].src, n)
    IN  \A k \in 0..(n \div 2) : mem[call[t].dst][k] = X[k]

(***************************************************************************)
(* ckfft.h: "if you apply a forward FFT followed by an inverse FFT to a set *)
(* of real data, the result is the original data, scaled by 2*n", for every *)
(* float of the output, on whatever contexts the two are done.              *)
(***************************************************************************)
RoundTrip ==
  \A t \in Threads : Returned(t, "inverse") =>
    LET n == call[t].count
    IN  \A j \in 0..(n - 1) :
          float(call[t].dst, j) = (2 * n * float(call[t].data, j)) % P

(***************************************************************************)
(* The loops of fft_real_default and fft_real_neon work in place: the       *)
(* elements between the two ends still hold the complex transform of the    *)
(* pairs, those outside are final, so no iteration reads what an earlier    *)
(* one has overwritten.                                                     *)
(***************************************************************************)
UntangledInPlace ==
  \A t \in Threads :
    ((Running(t, "fft_real_default") \/ Running(t, "fft_real_neon")) /\ Top(t).copied) =>
      LET f == Top(t)
          half == f.count \div 2
          Z == DFT([j \in 0..(half - 1) |-> mem[f.src][j]], half, FALSE)
          X == Spectrum(f.src, f.count)
      IN  \A k \in 0..half :
            mem[f.dst][k] = IF k \in f.i..(half - f.i) THEN Z[k % half] ELSE X[k]

(***************************************************************************)
(* ckfft.h, lines 70, 97 and 98: a forward transform of n floats writes     *)
(* n/2 + 1 elements of its output; an inverse one writes n floats and at    *)
(* most n/2 + 1 elements of tmpBuf.  Nothing else is ever written, neither  *)
(* an input nor what follows these elements in memory.                      *)
(***************************************************************************)
Writable(a) ==
  IF a.op = "forward"
  THEN {a.dst} \X (0..(HalfSpectrum(a.count) - 1))
  ELSE ({a.dst} \X (0..(Pairs(a.count) - 1)))
       \cup ({a.tmpBuf} \X (0..(HalfSpectrum(a.count) - 1)))

WritesDocumented ==
  [][\A b \in Buffers : \A j \in 0..(BufLen[b] - 1) :
       mem'[b][j] # mem[b][j] =>
         \E t \in Threads : call'[t] # NoCall /\ <<b, j>> \in Writable(call'[t])]_vars
=============================================================================
