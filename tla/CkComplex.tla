----------------------------- MODULE CkComplex -----------------------------
(***************************************************************************)
(* The arithmetic of src/src/ckfft/math_util.h, exactly: a float is an     *)
(* integer modulo P.  P is a Mersenne prime, so that the unit circle        *)
(* c^2 + s^2 = 1 modulo P is a cyclic group of P + 1 = 2^k elements and     *)
(* holds the sines and cosines of every angle 2*pi*j/(P + 1).  An identity  *)
(* of the real code that uses +, -, *, halving, sines and cosines only is   *)
(* an identity here; rounding is what the abstraction leaves out.           *)
(***************************************************************************)
EXTENDS Integers

CONSTANTS
  P,     \* the modulus
  Expi   \* Expi[k] = cosf(x) + I*sinf(x) at the angle x = k * 2*pi/(P + 1)

Float == 0..(P - 1)
CkFftComplex == [real: Float, imag: Float]

Zero == [real |-> 0, imag |-> 0]
One == [real |-> 1 % P, imag |-> 0]

add(a, b) == [real |-> (a.real + b.real) % P,
              imag |-> (a.imag + b.imag) % P]

subtract(a, b) == [real |-> (a.real - b.real) % P,
                   imag |-> (a.imag - b.imag) % P]

multiply(a, b) == [real |-> (a.real * b.real - a.imag * b.imag) % P,
                   imag |-> (a.imag * b.real + a.real * b.imag) % P]

conjugate(a) == [real |-> a.real, imag |-> (-a.imag) % P]

(***************************************************************************)
(* x & (x - 1) clears the lowest set bit, so the test holds when exactly    *)
(* one bit is set: x is not zero and 1 is its only odd divisor.             *)
(***************************************************************************)
isPowerOfTwo(x) ==
  /\ x # 0
  /\ \A d \in 1..x : x % d = 0 /\ d % 2 = 1 => d = 1

(***************************************************************************)
(* What the code asks of the C library's cosf and sinf: the angle 0, the    *)
(* quarter turn, the addition theorem, the opposite angle, and that no two  *)
(* of the P + 1 angles of a turn have the same cosine and sine.             *)
(***************************************************************************)
ASSUME ModulusAssumption == P \in Nat \ {0}

ASSUME ExpiAssumption ==
  /\ Expi \in [0..P -> CkFftComplex]
  /\ Expi[0] = One
  /\ \E q \in 0..P : 4 * q = P + 1 /\ Expi[q] = [real |-> 0, imag |-> 1 % P]
  /\ \A j, k \in 0..P :
       /\ Expi[(j + k) % (P + 1)] = multiply(Expi[j], Expi[k])
       /\ j + k = P + 1 => Expi[j] = conjugate(Expi[k])
       /\ Expi[j] = Expi[k] => j = k

(* exp(-2*pi*I*i/count), for a count that divides P + 1.                   *)
Twiddle(i, count) == conjugate(Expi[(i * ((P + 1) \div count)) % (P + 1)])

-----------------------------------------------------------------------------
(* y[0] + ... + y[n - 1]                                                    *)
SumOf(y, n) ==
  LET partial[j \in 0..n] == IF j = 0 THEN Zero ELSE add(partial[j - 1], y[j - 1])
  IN  partial[n]

(***************************************************************************)
(* The reference: the discrete Fourier transform by its definition, the     *)
(* sum over j of x[j] * exp(-+2*pi*I*j*k/count).  x is a function on        *)
(* 0..(count - 1).                                                          *)
(***************************************************************************)
Root(j, count, inverse) ==
  IF inverse THEN conjugate(Twiddle(j % count, count)) ELSE Twiddle(j % count, count)

DFT(x, count, inverse) ==
  [k \in 0..(count - 1) |->
     SumOf([j \in 0..(count - 1) |-> multiply(x[j], Root(j * k, count, inverse))], count)]
=============================================================================
