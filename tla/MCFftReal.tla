----------------------------- MODULE MCFftReal -----------------------------
(* Instances of FftRealClient for TLC.                                      *)
EXTENDS FftRealClient, UnitCircle, TLC

CONSTANTS t1, c1, c2, n1, in, out1, back, tmp

Lengths(n) == [b \in Buffers |-> n]

\* n1 is a context for NEON.
UsesNeon == [c \in Contexts |-> c = n1]

\* Outputs start with values no transform below leaves there by chance.
Stale(n) == [j \in 0..(n - 1) |-> [real |-> (3 * j + 5) % P, imag |-> (7 * j + 11) % P]]

Generic(n) ==
  [j \in 0..(n - 1) |-> [real |-> (j * j + 3 * j + 1) % P,
                         imag |-> (5 * j * j * j + j + 2) % P]]

Contents(x, n) == [b \in Buffers |-> IF b = in THEN x ELSE Stale(n)]

\* The transforms are linear: one float 1, all others 0.
Basis(n) ==
  {[j \in 0..(n - 1) |-> IF j = e THEN u ELSE Zero] :
     e \in 0..(n - 1), u \in {One, [real |-> 0, imag |-> 1]}}

\* Contexts of 8 and 32, one of 32 for NEON; buffers longer than 32 floats and their spectrum
\* need; a generic input and every basis input of 16 floats
RealMaxCount == c1 :> 8 @@ c2 :> 32 @@ n1 :> 32
RealLen == Lengths(18)
GenericMem == {Contents(Generic(18), 18)}
RealMem ==
  GenericMem \cup {Contents(x, 18) : x \in {b \in Basis(18) : \E j \in 0..7 : b[j] # Zero}}
=============================================================================
