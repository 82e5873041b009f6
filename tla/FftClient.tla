------------------------------ MODULE FftClient ------------------------------
(***************************************************************************)
(* Threads that call fft() on shared contexts, as the users of the complex  *)
(* transforms in ckfft.cpp do, and what the complex FFT promises them.      *)
(***************************************************************************)
EXTENDS Fft

CONSTANTS
  Threads,
  MaxCount,   \* MaxCount[c]: the maxCount that context c was created with
  Neon,       \* Neon[c]: whether context c says that NEON is to be used
  Counts,     \* the counts callers ask for
  InitMem,    \* the contents the buffers may start with
  NoCall

Args == [context: Contexts, src: Buffers, dst: Buffers, count: Nat, inverse: BOOLEAN]

ASSUME CallerAssumption ==
  /\ MaxCount \in [Contexts -> {m \in Nat : isPowerOfTwo(m)}]
  /\ Neon \in [Contexts -> BOOLEAN]
  /\ Counts \subseteq Nat
  /\ \A m \in InitMem :
       /\ DOMAIN m = Buffers
       /\ \A b \in Buffers : m[b] \in [0..(BufLen[b] - 1) -> CkFftComplex]
  /\ NoCall \notin Args

VARIABLE
  call        \* the arguments of each thread's call of fft(), kept on return

vars == <<context, mem, stack, call>>

-----------------------------------------------------------------------------
(***************************************************************************)
(* A thread calls fft() once, on an input and an output that are different  *)
(* buffers and large enough, with a count its context allows; no thread     *)
(* writes a buffer another one uses.  This is what ckfft.h asks of callers. *)
(***************************************************************************)
MayCall(t, c, src, dst, count) ==
  /\ call[t] = NoCall
  /\ isPowerOfTwo(count) /\ count <= context[c].maxCount
  /\ src # dst /\ count <= BufLen[src] /\ count <= BufLen[dst]
  /\ \A u \in Threads : call[u] # NoCall =>
       dst \notin {call[u].src, call[u].dst} /\ src # call[u].dst

Init ==
  /\ context = [c \in Contexts |-> NewContext(MaxCount[c], Neon[c])]
  /\ mem \in InitMem
  /\ stack = [t \in Threads |-> << >>]
  /\ call = [t \in Threads |-> NoCall]

Call(t) ==
  \E c \in Contexts, src, dst \in Buffers, count \in Counts, inverse \in BOOLEAN :
    /\ MayCall(t, c, src, dst, count)
    /\ call' = [call EXCEPT ![t] = [context |-> c, src |-> src, dst |-> dst,
                                    count |-> count, inverse |-> inverse]]
    /\ fft(t, c, src, dst, count, inverse)

Step(t) == FftStep(t) /\ UNCHANGED call

Next == \E t \in Threads : Call(t) \/ Step(t)

Spec == Init /\ [][Next]_vars

(* A thread that is inside a call of the library is scheduled again.        *)
FairSpec == Spec /\ \A t \in Threads : WF_vars(Step(t))

-----------------------------------------------------------------------------
(* The state has the shape the code gives it: a stack of fft_default and    *)
(* fft_neon calls for each thread, tables of maxCount elements, buffers     *)
(* that keep their lengths under the stores of elements and of vectors.     *)
TypeOK ==
  /\ DOMAIN context = Contexts
  /\ \A c \in Contexts :
       LET Table == [0..(context[c].maxCount - 1) -> CkFftComplex]
       IN  context[c] \in [neon: {Neon[c]}, maxCount: {MaxCount[c]},
                          fwdExpTable: Table, invExpTable: Table]
  /\ DOMAIN mem = Buffers
  /\ \A b \in Buffers : mem[b] \in [0..(BufLen[b] - 1) -> CkFftComplex]
  /\ stack \in [Threads -> Seq(Frame)]
  /\ call \in [Threads -> Args \cup {NoCall}]

(***************************************************************************)
(* Every element that a call on any stack reads or writes, through all the  *)
(* strides and offsets the recursion has built up, is one of the count      *)
(* elements of the input or the output that ckfft.h documents, and every    *)
(* twiddle factor it reads is inside the context's table (fft_default.cpp   *)
(* and fft_neon.cpp, the pointers in, out and exp1 .. exp3).  A call in the *)
(* general case has a count that its quarters divide evenly, which its      *)
(* assert checks, and no vector of its loop leaves its quarter.             *)
(***************************************************************************)
FrameInBounds(n, f) ==
  /\ \A j \in 0..(f.count - 1) :
       InIdx(f, j) \in 0..(n - 1) /\ OutIdx(f, j) \in 0..(n - 1)
  /\ f.count % 4 = 0 /\ Passed(f) <= f.count \div 4
  /\ f.count > 4 =>
       \A i \in 0..(f.count \div 4 - 1), m \in 0..3 :
         ExpIdx(f, i, m) \in 0..(MaxCount[f.context] - 1)

InBounds ==
  \A t \in Threads : \A d \in 1..Len(stack[t]) :
    FrameInBounds(call[t].count, stack[t][d])

(* 4^d                                                                      *)
PowerOf4(d) ==
  LET power[j \in 0..d] == IF j = 0 THEN 1 ELSE 4 * power[j - 1]
  IN  power[d]

(***************************************************************************)
(* The recursion is as deep as the count has powers of 4, whatever the      *)
(* stride it is entered with: it always reaches one of its two leaves.      *)
(***************************************************************************)
RecursionDepth ==
  \A t \in Threads : stack[t] # << >> => PowerOf4(Len(stack[t])) <= call[t].count

(***************************************************************************)
(* The loop invariant of fft_default and fft_neon, for every call on a      *)
(* stack: a quarter of the output holds the transform of every fourth input *)
(* element once its recursive call has returned, and the elements the loop  *)
(* of butterflies has passed hold the transform of the whole input.         *)
(***************************************************************************)
PartialResults ==
  \A t \in Threads : \A d \in 1..Len(stack[t]) :
    LET f == stack[t][d]
        n == f.count \div 4
        returned == IF d = Len(stack[t]) THEN f.k ELSE f.k - 1
        whole == DFT([j \in 0..(f.count - 1) |-> In(f, j)], f.count, f.inverse)
        quarter(q) == DFT([j \in 0..(n - 1) |-> In(f, 4 * j + q)], n, f.inverse)
    IN  /\ Passed(f) < n => \A q \in 0..(returned - 1) :
             LET X == quarter(q)
             IN  \A j \in Passed(f)..(n - 1) : Out(f, q * n + j) = X[j]
        /\ f.i > 0 => \A j \in 0..(Passed(f) - 1), m \in 0..3 :
             Out(f, j + m * n) = whole[j + m * n]

(***************************************************************************)
(* What fft() promises: when a call has returned, its output is the         *)
(* transform of its input, whatever the maxCount of the context, and        *)
(* whatever other threads did meanwhile with the same context and input     *)
(* ("contexts can be used simultaneously on different threads", ckfft.h).   *)
(***************************************************************************)
Returned(t) == call[t] # NoCall /\ stack[t] = << >>

Correctness ==
  \A t \in Threads : Returned(t) =>
    LET n == call[t].count
        X == DFT([j \in 0..(n - 1) |-> mem[call[t].src][j]], n, call[t].inverse)
    IN  \A j \in 0..(n - 1) : mem[call[t].dst][j] = X[j]

(***************************************************************************)
(* No step of any thread changes the input of a call, running or returned,  *)
(* or the output of a call that has returned: a call writes its own output  *)
(* only and keeps nothing in the context (input is a const pointer).        *)
(***************************************************************************)
CallUntouched(t) ==
  call[t] # NoCall =>
    /\ mem'[call[t].src] = mem[call[t].src]
    /\ Returned(t) => mem'[call[t].dst] = mem[call[t].dst]

NoInterference == [][\A t \in Threads : CallUntouched(t)]_vars

(* Every call of fft() returns.                                             *)
Termination == \A t \in Threads : call[t] # NoCall ~> Returned(t)
=============================================================================
