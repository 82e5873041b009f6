------------------------------- MODULE CkFft -------------------------------
(***************************************************************************)
(* The interface of the library, ckfft.cpp: the four transforms with the    *)
(* checks of their parameters, on contexts for one direction or both, above *)
(* the real and the complex transforms they call.  Threads pass what they   *)
(* like: null pointers, counts that are no powers of two, contexts for the  *)
(* other direction, one buffer for two purposes.                            *)
(*                                                                          *)
(* A definition whose name ends in "Bug" is a faulty variant of the         *)
(* definition that follows it: a plausible slip in the code, which the      *)
(* properties must notice.  No specification uses it.                       *)
(***************************************************************************)
EXTENDS FftReal

CONSTANTS
  Threads,
  MaxCount,    \* MaxCount[c]: the maxCount that context c was created with
  Direction,   \* Direction[c]: the directions it was created for
  Platform,    \* the platform the library is built for
  CpuNeon,     \* whether the processor says that it has NEON
  NoNeon,      \* the contexts whose neon flag their creator has cleared
  Requests,    \* the arguments calls are made with
  InitMem,
  IntMax,      \* INT_MAX
  NULL,
  NoCall

(* The lengths that ckfft.h documents, for the callers' buffers.            *)
InputLen(a) ==
  CASE a.op = "RealForward" -> Pairs(a.count)
    [] a.op = "RealInverse" -> HalfSpectrum(a.count)
    [] OTHER -> a.count

OutputLen(a) ==
  CASE a.op = "RealForward" -> HalfSpectrum(a.count)
    [] a.op = "RealInverse" -> Pairs(a.count)
    [] OTHER -> a.count

ASSUME RequestAssumption ==
  /\ MaxCount \in [Contexts -> {m \in Nat : isPowerOfTwo(m)}]
  /\ Direction \in [Contexts -> (SUBSET {"forward", "inverse"}) \ {{}}]
  /\ Requests \subseteq
       [op: {"RealForward", "RealInverse", "ComplexForward", "ComplexInverse"},
        context: Contexts \cup {NULL}, count: (-IntMax - 1)..IntMax,
        input: Buffers \cup {NULL}, output: Buffers \cup {NULL},
        tmpBuf: Buffers \cup {NULL}]
  /\ \A a \in Requests : a.count > 0 =>
       /\ a.input # NULL => InputLen(a) <= BufLen[a.input]
       /\ a.output # NULL => OutputLen(a) <= BufLen[a.output]
       /\ a.tmpBuf # NULL => HalfSpectrum(a.count) <= BufLen[a.tmpBuf]
  /\ \A m \in InitMem :
       /\ DOMAIN m = Buffers
       /\ \A b \in Buffers : m[b] \in [0..(BufLen[b] - 1) -> CkFftComplex]
  /\ Platform \in {"ios", "android", "macos", "win"}
  /\ CpuNeon \in BOOLEAN /\ NoNeon \subseteq Contexts
  /\ IntMax \in Nat /\ isPowerOfTwo(IntMax + 1)
  /\ NULL \notin Contexts \cup Buffers \cup {0, 1} /\ NoCall \notin Requests
  /\ \A c \in Contexts : NULL \notin [0..(MaxCount[c] - 1) -> CkFftComplex]

VARIABLES
  call,   \* the arguments of each thread's call
  ret     \* the value it returns, NULL until it is known

vars == <<context, mem, stack, call, ret>>

(* On Android the processor is asked at run time; on iOS the build decides. *)
isNeonSupported ==
  \/ Platform = "android" /\ CpuNeon
  \/ Platform = "ios" /\ ArmNeon

-----------------------------------------------------------------------------
(* The guards.  isPowerOfTwo takes an unsigned int.                         *)
GoodContext(c, table) == c # NULL /\ context[c][table] # NULL

\* count not compared with the context's maxCount
GoodCountBug(a) == isPowerOfTwo(a.count % (2 * (IntMax + 1)))

GoodCount(a) ==
  /\ isPowerOfTwo(a.count % (2 * (IntMax + 1)))
  /\ a.count <= context[a.context].maxCount

GoodBuffers(a) == a.input # NULL /\ a.output # NULL /\ a.input # a.output

(* A transform returns 0 and does nothing else, or will return 1.           *)
Called(t, op) == call[t] # NoCall /\ call[t].op = op /\ ret[t] = NULL

Return0(t) ==
  /\ ret' = [ret EXCEPT ![t] = 0]
  /\ UNCHANGED <<context, mem, stack, call>>

WillReturn1(t) ==
  /\ ret' = [ret EXCEPT ![t] = 1]
  /\ UNCHANGED call

CkFftRealForward(t) ==
  LET a == call[t]
      good == GoodContext(a.context, "fwdExpTable") /\ GoodCount(a) /\ GoodBuffers(a)
  IN  /\ Called(t, "RealForward")
      /\ \/ ~good /\ Return0(t)
         \/ /\ good /\ WillReturn1(t)
            /\ fft_real(t, a.context, a.input, a.output, a.count)

CkFftRealInverse(t) ==
  LET a == call[t]
      good == /\ a.tmpBuf # NULL
              /\ GoodContext(a.context, "invExpTable") /\ GoodCount(a) /\ GoodBuffers(a)
  IN  /\ Called(t, "RealInverse")
      /\ \/ ~good /\ Return0(t)
         \/ /\ good /\ WillReturn1(t)
            /\ fft_real_inverse(t, a.context, a.input, a.output, a.count, a.tmpBuf)

CkFftComplexForward(t) ==
  LET a == call[t]
      good == GoodContext(a.context, "fwdExpTable") /\ GoodCount(a) /\ GoodBuffers(a)
  IN  /\ Called(t, "ComplexForward")
      /\ \/ ~good /\ Return0(t)
         \/ /\ good /\ WillReturn1(t)
            /\ fft(t, a.context, a.input, a.output, a.count, FALSE)

\* the table of the forward transform checked
CkFftComplexInverseBug(t) ==
  LET a == call[t]
      good == GoodContext(a.context, "fwdExpTable") /\ GoodCount(a) /\ GoodBuffers(a)
  IN  /\ Called(t, "ComplexInverse")
      /\ \/ ~good /\ Return0(t)
         \/ /\ good /\ WillReturn1(t)
            /\ fft(t, a.context, a.input, a.output, a.count, TRUE)

CkFftComplexInverse(t) ==
  LET a == call[t]
      good == GoodContext(a.context, "invExpTable") /\ GoodCount(a) /\ GoodBuffers(a)
  IN  /\ Called(t, "ComplexInverse")
      /\ \/ ~good /\ Return0(t)
         \/ /\ good /\ WillReturn1(t)
            /\ fft(t, a.context, a.input, a.output, a.count, TRUE)

(* What a thread inside the library does next.                              *)
Step(t) ==
  \/ CkFftRealForward(t)
  \/ CkFftRealInverse(t)
  \/ CkFftComplexForward(t)
  \/ CkFftComplexInverse(t)
  \/ FftRealStep(t) /\ UNCHANGED <<call, ret>>

-----------------------------------------------------------------------------
(***************************************************************************)
(* A thread makes one call.  While it lasts, and as long as its results are *)
(* looked at, no thread writes a buffer another one uses.                   *)
(***************************************************************************)
Apart(a, b) == a.output \notin {b.input, b.output, b.tmpBuf} \ {NULL}
               /\ a.tmpBuf \notin {b.input, b.output, b.tmpBuf} \ {NULL}

Call(t) ==
  /\ call[t] = NoCall
  /\ \E a \in Requests :
       /\ \A u \in Threads : call[u] # NoCall => Apart(a, call[u]) /\ Apart(call[u], a)
       /\ call' = [call EXCEPT ![t] = a]
  /\ UNCHANGED <<context, mem, stack, ret>>

(* Contexts as CkFftInit makes them: no table for a direction not asked for.*)
Table(c, direction, table) == IF direction \in Direction[c] THEN table ELSE NULL

Init ==
  /\ context = [c \in Contexts |->
       LET new == NewContext(MaxCount[c], isNeonSupported /\ c \notin NoNeon)
       IN  [neon |-> new.neon,
            maxCount |-> new.maxCount,
            fwdExpTable |-> Table(c, "forward", new.fwdExpTable),
            invExpTable |-> Table(c, "inverse", new.invExpTable)]]
  /\ mem \in InitMem
  /\ stack = [t \in Threads |-> << >>]
  /\ call = [t \in Threads |-> NoCall]
  /\ ret = [t \in Threads |-> NULL]

Next == \E t \in Threads : Call(t) \/ Step(t)

Spec == Init /\ [][Next]_vars

(* A thread that is inside a call of the library is scheduled again.        *)
FairSpec == Spec /\ \A t \in Threads : WF_vars(Step(t))

-----------------------------------------------------------------------------
(* The state has the shape the code gives it.                               *)
TypeOK ==
  /\ \A b \in Buffers : mem[b] \in [0..(BufLen[b] - 1) -> CkFftComplex]
  /\ \A t \in Threads : \A d \in 1..Len(stack[t]) :
       \/ stack[t][d] \in Frame
       \/ stack[t][d] \in RealFrame /\ LoopInBounds(stack[t][d])
  /\ call \in [Threads -> Requests \cup {NoCall}]
  /\ ret \in [Threads -> {NULL, 0, 1}]

Returned(t) == ret[t] # NULL /\ stack[t] = << >>

(* Every call returns.                                                      *)
Answered == \A t \in Threads : call[t] # NoCall ~> Returned(t)

(***************************************************************************)
(* No call runs on a context without the table of its direction: what the   *)
(* interface checks is what the transforms below it rely on, for they read  *)
(* fwdExpTable and invExpTable without looking (fft.cpp:34,                 *)
(* fft_real_default.cpp:26 and 75, fft_real_neon.cpp:30 and 136).           *)
(***************************************************************************)
TablePresent ==
  \A t \in Threads : \A d \in 1..Len(stack[t]) :
    LET f == stack[t][d]
        inverse == IF f.fn \in {"fft_default", "fft_neon"} THEN f.inverse
                   ELSE f.fn \in {"fft_real_inverse_default", "fft_real_inverse_neon"}
    IN  context[f.context][IF inverse THEN "invExpTable" ELSE "fwdExpTable"] # NULL

(***************************************************************************)
(* The library implements the service that ckfft.h describes.  The data of  *)
(* a call are what its input holds now, so that they must not change while  *)
(* it runs, nor its output after it.                                        *)
(***************************************************************************)
Data ==
  [t \in Threads |->
     IF call[t] = NoCall THEN << >>
     ELSE IF call[t].input = NULL \/ call[t].count <= 0 THEN << >>
     ELSE [j \in 0..(InputLen(call[t]) - 1) |-> mem[call[t].input][j]]]

Answer ==
  [t \in Threads |->
     IF ~Returned(t) THEN [value |-> NULL, output |-> << >>]
     ELSE [value |-> ret[t],
           output |->
             IF ret[t] = 0 THEN << >>
             ELSE IF call[t].op = "RealInverse"
             THEN [j \in 0..(call[t].count - 1) |-> float(call[t].output, j)]
             ELSE [j \in 0..(OutputLen(call[t]) - 1) |-> mem[call[t].output][j]]]]

Service == INSTANCE FftService WITH data <- Data, answer <- Answer

ImplementsService == Service!Spec
=============================================================================
