-------------------------------- MODULE MCFft --------------------------------
(* Instances of FftClient for TLC.                                          *)
EXTENDS FftClient, UnitCircle, TLC

CONSTANTS t1, t2, c1, c2, n1, in, out1, out2

Lengths(n) == [b \in Buffers |-> n]

\* n1 is a context for NEON.
UsesNeon == [c \in Contexts |-> c = n1]

\* Outputs start with values no transform below leaves there by chance.
Stale(n) == [j \in 0..(n - 1) |-> [real |-> (3 * j + 5) % P, imag |-> (7 * j + 11) % P]]

Contents(x, n) == [b \in Buffers |-> IF b = in THEN x ELSE Stale(n)]

\* The transforms are linear: they are right on every input when they are
\* right on the inputs with one real or one imaginary part 1 and all others 0.
Basis(n) ==
  {[j \in 0..(n - 1) |-> IF j = e THEN u ELSE Zero] :
     e \in 0..(n - 1), u \in {One, [real |-> 0, imag |-> 1]}}

\* An input without zeros or symmetries.
Generic(n) ==
  [j \in 0..(n - 1) |-> [real |-> (j * j + 3 * j + 1) % P,
                         imag |-> (5 * j * j * j + j + 2) % P]]

\* Every basis input, counts up to 16
BasisMaxCount == c1 :> 16 @@ c2 :> 32 @@ n1 :> 32
BasisLen == Lengths(16)
BasisMem == {Contents(x, 16) : x \in Basis(16)}

\* Two levels of recursion above leaf 4, one above leaf 8
DeepMaxCount == c1 :> 128 @@ n1 :> 128
DeepLen == Lengths(64)
DeepMem == {Contents(Generic(64), 64)}

\* Two threads, one context, one input
ThreadsMaxCount == c1 :> 32 @@ n1 :> 32
ThreadsLen == Lengths(32)
ThreadsMem == {Contents(Generic(32), 32)}
=============================================================================
