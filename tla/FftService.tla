----------------------------- MODULE FftService -----------------------------
(***************************************************************************)
(* What ckfft.h promises of the four transforms, with no word of how they   *)
(* do it: a call is answered once.  When a parameter is invalid the answer  *)
(* is 0; otherwise it is 1 and the output holds, all at once, the transform *)
(* of the data that was in the input when the call was made.                *)
(***************************************************************************)
EXTENDS CkComplex

CONSTANTS
  Threads,
  Requests,    \* the arguments calls are made with
  MaxCount,    \* MaxCount[c]: the nMax that context c was created with
  Direction,   \* Direction[c]: the directions it was created for
  NULL,
  NoCall

VARIABLES
  call,     \* call[t]: the arguments of the call of thread t
  data,     \* data[t]: the contents of its input
  answer    \* answer[t]: the value it returns, NULL before, and its output

vars == <<call, data, answer>>

-----------------------------------------------------------------------------
IsForward(op) == op \in {"RealForward", "ComplexForward"}
IsReal(op) == op \in {"RealForward", "RealInverse"}

(* The parameters that ckfft.h allows.                                      *)
Valid(a) ==
  /\ a.context # NULL
  /\ (IF IsForward(a.op) THEN "forward" ELSE "inverse") \in Direction[a.context]
  /\ a.count > 0 /\ isPowerOfTwo(a.count) /\ a.count <= MaxCount[a.context]
  /\ a.input # NULL /\ a.output # NULL /\ a.input # a.output
  /\ a.op = "RealInverse" => a.tmpBuf # NULL

(* Real data are read and written as pairs of floats.                       *)
FloatOf(x, j) == IF j % 2 = 0 THEN x[j \div 2].real ELSE x[j \div 2].imag

(* A forward transform of n floats has n/2 + 1 elements, and all n of them  *)
(* follow from these.                                                       *)
Half(n) == n \div 2 + 1

Hermitian(x, n) ==
  [k \in 0..(n - 1) |->
     IF k = 0 \/ 2 * k = n THEN [real |-> x[k].real, imag |-> 0]
     ELSE IF 2 * k < n THEN x[k] ELSE conjugate(x[n - k])]

(* The output, from the data x.  Real transforms are scaled by 2.           *)
Result(op, n, x) ==
  CASE op = "ComplexForward" -> DFT(x, n, FALSE)
    [] op = "ComplexInverse" -> DFT(x, n, TRUE)
    [] op = "RealForward" ->
         LET X == DFT([j \in 0..(n - 1) |-> [real |-> FloatOf(x, j), imag |-> 0]], n, FALSE)
         IN  [k \in 0..(Half(n) - 1) |-> add(X[k], X[k])]
    [] op = "RealInverse" ->
         LET X == DFT(Hermitian(x, n), n, TRUE)
         IN  [j \in 0..(n - 1) |-> X[j].real]

Pending == [value |-> NULL, output |-> << >>]
Refused == [value |-> 0, output |-> << >>]

-----------------------------------------------------------------------------
Init ==
  /\ call = [t \in Threads |-> NoCall]
  /\ data = [t \in Threads |-> << >>]
  /\ answer = [t \in Threads |-> Pending]

(* A thread makes its call, on any data.                                    *)
Request(t) ==
  /\ call[t] = NoCall
  /\ call'[t] \in Requests
  /\ \A u \in Threads \ {t} : call'[u] = call[u] /\ data'[u] = data[u]
  /\ UNCHANGED answer

Refuse(t) ==
  /\ call[t] # NoCall /\ answer[t] = Pending
  /\ ~Valid(call[t])
  /\ answer' = [answer EXCEPT ![t] = Refused]
  /\ UNCHANGED <<call, data>>

Perform(t) ==
  /\ call[t] # NoCall /\ answer[t] = Pending
  /\ Valid(call[t])
  /\ answer' = [answer EXCEPT ![t] =
                  [value |-> 1, output |-> Result(call[t].op, call[t].count, data[t])]]
  /\ UNCHANGED <<call, data>>

Next == \E t \in Threads : Request(t) \/ Refuse(t) \/ Perform(t)

Spec == Init /\ [][Next]_vars
=============================================================================
