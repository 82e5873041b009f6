------------------------------ MODULE MCCkFft ------------------------------
(* Instances of CkFft for TLC.                                              *)
EXTENDS CkFft, UnitCircle, TLC, Bitwise

CONSTANTS t1, t2, twoWay, fwd, inv, vec, in, out1, out2, tmp1

Lengths(n) == [b \in Buffers |-> n]

\* Outputs start with values no transform below leaves there by chance.
Stale(n) == [j \in 0..(n - 1) |-> [real |-> (3 * j + 5) % P, imag |-> (7 * j + 11) % P]]

\* The input may be the spectrum of real data: no imaginary part at 0, 4 and 8,
\* the middle elements for counts of 8 and 16.
Generic(n) ==
  [j \in 0..(n - 1) |-> [real |-> (j * j + 3 * j + 1) % P,
                         imag |-> IF j % 4 = 0 THEN 0 ELSE (5 * j * j * j + j + 2) % P]]

\* x & (x - 1), as the code has it, for every unsigned int of 8 bits
ASSUME PowerOfTwoIsOneBit ==
  \A x \in 0..255 : isPowerOfTwo(x) <=> (x # 0 /\ x & (x - 1) = 0)

ApiLen == Lengths(17)
ApiMem == {[b \in Buffers |-> IF b = in THEN Generic(17) ELSE Stale(17)]}

ApiMaxCount == twoWay :> 16 @@ fwd :> 8 @@ inv :> 8 @@ vec :> 16
ApiDirection ==
  [c \in {twoWay, vec} |-> {"forward", "inverse"}]
  @@ fwd :> {"forward"} @@ inv :> {"inverse"}

RealOps == {"RealForward", "RealInverse"}
ComplexOps == {"ComplexForward", "ComplexInverse"}

\* Every parameter right and wrong
GuardRequests ==
  [op: RealOps \cup ComplexOps, context: {twoWay, fwd, inv, vec, NULL},
   count: {-1, 0, 1, 2, 3, 4, 8, 16}, input: {in, NULL}, output: {out1, in, NULL},
   tmpBuf: {tmp1, NULL}]

\* INT_MIN
IntMinRequests ==
  [op: ComplexOps, context: {twoWay}, count: {-IntMax - 1}, input: {in}, output: {out1},
   tmpBuf: {NULL}]

\* Real and complex, with NEON and without, on shared contexts and one input, and one to be refused
ThreadRequests ==
  [op: {"ComplexForward"}, context: {twoWay}, count: {16}, input: {in},
   output: {out1}, tmpBuf: {NULL}]
  \cup [op: {"ComplexForward"}, context: {vec}, count: {16}, input: {in},
        output: {out2}, tmpBuf: {NULL}]
  \cup [op: {"ComplexInverse"}, context: {twoWay}, count: {16}, input: {in},
        output: {out2}, tmpBuf: {NULL}]
  \cup [op: {"RealForward"}, context: {vec, fwd}, count: {16}, input: {in},
        output: {out1}, tmpBuf: {NULL}]
  \cup [op: {"RealInverse"}, context: {inv}, count: {8}, input: {in},
        output: {out1}, tmpBuf: {tmp1}]

\* The smallest counts, and one that is left to fft_neon
StubRequests ==
  [op: {"ComplexForward"}, context: {vec}, count: {1, 2, 16}, input: {in},
   output: {out1}, tmpBuf: {NULL}]
=============================================================================
