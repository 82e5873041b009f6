------------------------------ MODULE FftCalls ------------------------------
(***************************************************************************)
(* What the complex FFTs of fft_default.cpp and fft_neon.cpp share: the     *)
(* state they work on, the call stacks, the elements and twiddle factors a  *)
(* call touches, and the parts of the recursion that the two functions      *)
(* spell out in the same words.  Threads share contexts; each runs the      *)
(* recursion on a call stack of its own.                                    *)
(*                                                                          *)
(* A definition whose name ends in "Bug" is a faulty variant of the         *)
(* definition that follows it: a plausible slip in the code, which the      *)
(* properties must notice.  No specification uses it.                       *)
(***************************************************************************)
EXTENDS CkComplex, Sequences

CONSTANTS
  Contexts,
  Buffers,    \* the callers' buffers of CkFftComplex
  BufLen,     \* BufLen[b]: the number of elements of buffer b
  ArmNeon     \* whether the build has the NEON code, CKFFT_ARM_NEON

ASSUME BufferAssumption == BufLen \in [Buffers -> Nat] /\ ArmNeon \in BOOLEAN

VARIABLES
  context,    \* the contexts, shared by the threads
  mem,        \* the contents of the buffers
  stack       \* the call stack of each thread, the running call last

-----------------------------------------------------------------------------
(* The calls of fft_default and fft_neon: the pointers are a buffer and an  *)
(* offset; k is the number of recursive calls made, i the counter of the    *)
(* loop of butterflies.                                                     *)
Frame == [fn: {"fft_default", "fft_neon"}, context: Contexts,
          src: Buffers, input: Nat, dst: Buffers, output: Nat,
          count: Nat, inverse: BOOLEAN, stride: Nat, expTableStride: Nat,
          k: 0..4, i: Nat]

Top(t) == stack[t][Len(stack[t])]
ReplaceTop(s, f) == [s EXCEPT ![Len(s)] = f]
Running(t, fn) == stack[t] # << >> /\ Top(t).fn = fn

Return(t) == stack' = [stack EXCEPT ![t] = SubSeq(@, 1, Len(@) - 1)]

(* The elements a call touches. *)
InIdx(f, j) == f.input + j * f.stride
OutIdx(f, j) == f.output + j
\* the recursion's stride forgotten
ExpIdxStrideBug(f, i, m) == i * f.expTableStride * m
ExpIdx(f, i, m) == i * f.stride * f.expTableStride * m

In(f, j) == mem[f.src][InIdx(f, j)]
Out(f, j) == mem[f.dst][OutIdx(f, j)]
Exp(f, i, m) ==
  IF f.inverse THEN context[f.context].invExpTable[ExpIdx(f, i, m)]
               ELSE context[f.context].fwdExpTable[ExpIdx(f, i, m)]

(***************************************************************************)
(* One radix-4 butterfly: X0 .. X3 from F0, F1*W, F2*W2 and F3*W3.          *)
(***************************************************************************)
Radix4(f0, f1w, f2w2, f3w3, inverse) ==
  LET sum02 == add(f0, f2w2)
      diff02 == subtract(f0, f2w2)
      sum13 == add(f1w, f3w3)
      diff13 == subtract(f1w, f3w3)
      minusI == [real |-> (diff02.real + diff13.imag) % P,
                 imag |-> (diff02.imag - diff13.real) % P]
      plusI == [real |-> (diff02.real - diff13.imag) % P,
                imag |-> (diff02.imag + diff13.real) % P]
  IN  << add(sum02, sum13), IF inverse THEN plusI ELSE minusI,
         subtract(sum02, sum13), IF inverse THEN minusI ELSE plusI >>

(* The results X[1] .. X[4] stored into out0 .. out3, n elements apart.     *)
StoreQuad(buf, out0, n, X) ==
  [buf EXCEPT ![out0] = X[1], ![out0 + n] = X[2],
              ![out0 + 2 * n] = X[3], ![out0 + 3 * n] = X[4]]

(* count = 4: the four FFTs of length 1 are copies.                         *)
Leaf4(f) ==
  StoreQuad(mem[f.dst], f.output, 1,
            Radix4(In(f, 0), In(f, 1), In(f, 2), In(f, 3), f.inverse))

(* count = 8: element i of the FFT of length 2 of the q-th quarter.         *)
Pair(f, q, i) == IF i = 0 THEN add(In(f, q), In(f, q + 4))
                          ELSE subtract(In(f, q), In(f, q + 4))

\* radix-2 counts with radix-4 strides
SubCallRadixBug(f) ==
  [f EXCEPT !.input = InIdx(f, f.k), !.output = OutIdx(f, f.k * (f.count \div 4)),
            !.count = f.count \div 2, !.stride = f.stride * 4, !.k = 0]

\* out advanced by the whole count
SubCallOutBug(f) ==
  [f EXCEPT !.input = InIdx(f, f.k), !.output = OutIdx(f, f.k * f.count),
            !.count = f.count \div 4, !.stride = f.stride * 4, !.k = 0]

(* The recursive call on the next quarter of a call in the general case.    *)
SubCall(f) ==
  [f EXCEPT !.input = InIdx(f, f.k), !.output = OutIdx(f, f.k * (f.count \div 4)),
            !.count = f.count \div 4, !.stride = f.stride * 4, !.k = 0]

(* out < outEnd, in the loop that makes the recursive calls.                *)
MoreQuarters(f) == f.k * (f.count \div 4) < f.count

(* The elements of each quarter that the loop has passed, by one or four.   *)
Passed(f) == IF f.fn = "fft_neon" THEN 4 * f.i ELSE f.i

(* In the general case; and there, with all recursive calls made.           *)
General(t, fn) == Running(t, fn) /\ Top(t).count \notin {4, 8}
Combining(t, fn) == General(t, fn) /\ ~MoreQuarters(Top(t))

\* out <= outEnd for out < outEnd
RecurseLimitBug(t) ==
  /\ Top(t).k * (Top(t).count \div 4) <= Top(t).count
  /\ stack' = [stack EXCEPT ![t] =
                 Append(ReplaceTop(@, [Top(t) EXCEPT !.k = @ + 1]), SubCall(Top(t)))]
  /\ UNCHANGED <<context, mem>>

\* in and out not advanced
RecurseStuckBug(t) ==
  /\ MoreQuarters(Top(t))
  /\ stack' = [stack EXCEPT ![t] = Append(@, SubCall(Top(t)))]
  /\ UNCHANGED <<context, mem>>

(* The steps of both functions: the next recursive call, a leaf that stores *)
(* its result X and returns, an iteration that stores X, and the return.    *)
Recurse(t) ==
  /\ MoreQuarters(Top(t))
  /\ stack' = [stack EXCEPT ![t] =
                 Append(ReplaceTop(@, [Top(t) EXCEPT !.k = @ + 1]), SubCall(Top(t)))]
  /\ UNCHANGED <<context, mem>>

LeafStep(t, X) ==
  /\ mem' = [mem EXCEPT ![Top(t).dst] = X]
  /\ Return(t)
  /\ UNCHANGED context

IterationStep(t, X) ==
  /\ mem' = [mem EXCEPT ![Top(t).dst] = X]
  /\ stack' = [stack EXCEPT ![t] = ReplaceTop(@, [Top(t) EXCEPT !.i = @ + 1])]
  /\ UNCHANGED context

ReturnStep(t) ==
  /\ Return(t)
  /\ UNCHANGED <<context, mem>>

\* input and output passed in the wrong order
FftCallSwapBug(fn, c, src, dst, count, inverse) ==
  [fn |-> fn, context |-> c, src |-> dst, input |-> 0,
   dst |-> src, output |-> 0, count |-> count, inverse |-> inverse, stride |-> 1,
   expTableStride |-> context[c].maxCount \div count, k |-> 0, i |-> 0]

(* The call that starts a recursion, for all count elements.                *)
FftCall(fn, c, src, dst, count, inverse) ==
  [fn |-> fn, context |-> c, src |-> src, input |-> 0,
   dst |-> dst, output |-> 0, count |-> count, inverse |-> inverse, stride |-> 1,
   expTableStride |-> context[c].maxCount \div count, k |-> 0, i |-> 0]
=============================================================================
