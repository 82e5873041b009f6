----------------------------- MODULE UnitCircle -----------------------------
(***************************************************************************)
(* Values for the constants of CkComplex: the powers of a generator of the  *)
(* unit circle modulo a Mersenne prime, cos + I*sin at each angle of a      *)
(* turn divided into modulus + 1 equal parts.                               *)
(***************************************************************************)
EXTENDS Integers

Powers(modulus, cosStep, sinStep) ==
  LET times(x, y) == [real |-> (x.real * y.real - x.imag * y.imag) % modulus,
                      imag |-> (x.imag * y.real + x.real * y.imag) % modulus]
      e[k \in 0..modulus] ==
        CASE k = 0 -> [real |-> 1, imag |-> 0]
          [] k = 1 -> [real |-> cosStep, imag |-> sinStep]
          [] OTHER -> times(e[k \div 2], e[k - k \div 2])
  IN  [k \in 0..modulus |-> e[k]]

\* 32 angles to the turn
Expi31 == Powers(31, 2, 20)

\* 128 angles to the turn
Expi127 == Powers(127, 2, 39)
=============================================================================
