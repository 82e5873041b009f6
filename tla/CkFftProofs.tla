---------------------------- MODULE CkFftProofs ----------------------------
(* Proofs about CkFft, for every platform, every set of contexts, buffers   *)
(* and threads, and every argument but one: the count INT_MIN, which the    *)
(* guards let pass (the run ApiIntMin).                                     *)
EXTENDS CkFft, FftRealProofs

NoIntMin == \A a \in Requests : a.count # -IntMax - 1

(***************************************************************************)
(* The frames of a call with the arguments a, in terms of the transform     *)
(* that does its work.                                                      *)
(***************************************************************************)
RealArgs(a) ==
  IF a.op = "RealForward"
  THEN [op |-> "forward", context |-> a.context, src |-> a.input, dst |-> a.output,
        tmpBuf |-> a.output, count |-> a.count]
  ELSE [op |-> "inverse", context |-> a.context, src |-> a.input, dst |-> a.output,
        tmpBuf |-> a.tmpBuf, count |-> a.count]

ComplexArgs(a) ==
  IF a.op = "ComplexForward"
  THEN [context |-> a.context, src |-> a.input, dst |-> a.output,
        count |-> a.count, inverse |-> FALSE]
  ELSE [context |-> a.context, src |-> a.input, dst |-> a.output,
        count |-> a.count, inverse |-> TRUE]

CallFrames(a) ==
  IF a.op \in {"RealForward", "RealInverse"}
  THEN FramesOf(RealArgs(a))
  ELSE {f \in OKFrames : Serves(f) = ComplexArgs(a)}

TableOfOp(op) ==
  IF op \in {"RealForward", "ComplexForward"} THEN "fwdExpTable" ELSE "invExpTable"

(***************************************************************************)
(* The inductive invariant: contexts are as CkFftInit made them, a call     *)
(* that was refused or not yet answered has no frames, one that will return *)
(* 1 has good frames of its own, and the table of its direction exists.     *)
(***************************************************************************)
ContextsOK ==
  context = [c \in Contexts |->
       LET new == NewContext(MaxCount[c], isNeonSupported /\ c \notin NoNeon)
       IN  [neon |-> new.neon,
            maxCount |-> new.maxCount,
            fwdExpTable |-> Table(c, "forward", new.fwdExpTable),
            invExpTable |-> Table(c, "inverse", new.invExpTable)]]

StacksOK ==
  /\ stack \in [Threads -> Seq(Frame \cup RealFrame)]
  /\ \A t \in Threads :
       /\ stack[t] \in Seq(CallFrames(call[t]))
       /\ ret[t] # 1 => stack[t] = << >>

CallsOK ==
  /\ call \in [Threads -> Requests \cup {NoCall}]
  /\ ret \in [Threads -> {NULL, 0, 1}]
  /\ \A t \in Threads :
       /\ ret[t] = 1 => GoodContext(call[t].context, TableOfOp(call[t].op))
       /\ call[t] = NoCall => ret[t] = NULL

IInv == ContextsOK /\ MemOK /\ StacksOK /\ CallsOK

-----------------------------------------------------------------------------
(* The guards accept only counts that are positive powers of two.           *)
LEMMA GoodCounts ==
  ASSUME NEW n \in (-IntMax)..IntMax, isPowerOfTwo(n % (2 * (IntMax + 1)))
  PROVE  n \in Nat /\ n > 0 /\ isPowerOfTwo(n)
<1> DEFINE m == IntMax + 1
<1>1. IntMax \in Nat /\ m \in Nat /\ m > 0 /\ isPowerOfTwo(m)
  BY RequestAssumption
<1>2. n \in Int /\ n < m /\ -n < m
  BY <1>1
<1>3. isPowerOfTwo(n % (2 * m))
  OBVIOUS
<1> HIDE DEF m
<1>4. CASE n >= 0
  <2>1. n % (2 * m) = n
    BY <1>1, <1>2, <1>4
  <2>2. isPowerOfTwo(n)
    BY <1>3, <2>1
  <2> QED BY <1>2, <1>4, <2>2 DEF isPowerOfTwo
<1>5. CASE n < 0
  <2> DEFINE r == n + 2 * m
  <2>1. r \in Nat /\ m < r /\ r < 2 * m
    BY <1>1, <1>2, <1>5
  <2>2. n % (2 * m) = r
    BY <1>1, <1>2, <1>5
  <2>3. isPowerOfTwo(r)
    BY <1>3, <2>2
  <2> HIDE DEF r
  <2>4. PICK q \in Nat \ {0} : r = m * q
    BY <1>1, <2>1, <2>3, PowerOfTwoDivides
  <2>5. q # 1
    BY <1>1, <2>1, <2>4
  <2>6. m * q >= m * 2
    <3>1. q >= 2
      BY <2>5
    <3> QED BY <1>1, <3>1
  <2> QED BY <1>1, <2>1, <2>4, <2>6
<1> QED BY <1>2, <1>4, <1>5

LEMMA CallFramesClosed ==
  ASSUME NEW a
  PROVE  RealClosed(CallFrames(a)) /\ CallFrames(a) \subseteq Frame \cup RealFrame
<1>1. CASE a.op \in {"RealForward", "RealInverse"}
  BY <1>1, FramesClosed DEF CallFrames
<1>2. CASE a.op \notin {"RealForward", "RealInverse"}
  <2>1. CallFrames(a) = {f \in OKFrames : Serves(f) = ComplexArgs(a)}
    BY <1>2 DEF CallFrames
  <2> QED BY <2>1, FrameKinds DEF RealClosed, Closed
<1> QED BY <1>1, <1>2

LEMMA CallFramesUnchanged ==
  ASSUME UNCHANGED context, NEW a
  PROVE  CallFrames(a)' = CallFrames(a)
<1>1. OKFrames' = OKFrames
  BY DEF OKFrames, FrameOK, HasTable, TableOf
<1>2. FramesOf(RealArgs(a))' = FramesOf(RealArgs(a))
  <2>1. \A x : FramesOf(x)' = FramesOf(x)
    BY FramesUnchanged
  <2> QED BY <2>1 DEF RealArgs
<1> QED BY <1>1, <1>2 DEF CallFrames, ComplexArgs, RealArgs

LEMMA SeqCallFrames ==
  ASSUME NEW a, NEW s \in Seq(CallFrames(a))
  PROVE  s \in Seq(Frame \cup RealFrame)
  BY CallFramesClosed

(* A context that has the table of a direction has the right one.           *)
LEMMA ContextFacts ==
  ASSUME ContextsOK, NEW c \in Contexts
  PROVE  /\ MaxCount[c] \in Nat /\ context[c].maxCount = MaxCount[c]
         /\ context[c].fwdExpTable # NULL => HasTable(c, FALSE)
         /\ context[c].invExpTable # NULL => HasTable(c, TRUE)
<1> DEFINE n == MaxCount[c]
           new == NewContext(n, isNeonSupported /\ c \notin NoNeon)
<1>1. n \in Nat /\ isPowerOfTwo(n)
  BY RequestAssumption
<1>2. /\ context[c].maxCount = new.maxCount
      /\ context[c].fwdExpTable = Table(c, "forward", new.fwdExpTable)
      /\ context[c].invExpTable = Table(c, "inverse", new.invExpTable)
  BY DEF ContextsOK
<1>3. ASSUME NEW neon
      PROVE  /\ NewContext(n, neon).maxCount = n
             /\ NewContext(n, neon).fwdExpTable = [i \in 0..(n - 1) |-> Root(i, n, FALSE)]
             /\ NewContext(n, neon).invExpTable = [i \in 0..(n - 1) |-> Root(i, n, TRUE)]
  <2> HIDE DEF n
  <2> QED BY <1>1, NewContextTables
<1>4. /\ new.maxCount = n
      /\ new.fwdExpTable = [i \in 0..(n - 1) |-> Root(i, n, FALSE)]
      /\ new.invExpTable = [i \in 0..(n - 1) |-> Root(i, n, TRUE)]
  BY <1>3, Zenon
<1> HIDE DEF new
<1>5. context[c].maxCount = n
  BY <1>2, <1>4
<1> HIDE DEF n
<1>6. ASSUME context[c].fwdExpTable # NULL PROVE HasTable(c, FALSE)
  <2>1. context[c].fwdExpTable = [i \in 0..(n - 1) |-> Root(i, n, FALSE)]
    BY <1>2, <1>4, <1>6 DEF Table
  <2> QED BY <1>1, <1>5, <2>1 DEF HasTable, TableOf
<1>7. ASSUME context[c].invExpTable # NULL PROVE HasTable(c, TRUE)
  <2>1. context[c].invExpTable = [i \in 0..(n - 1) |-> Root(i, n, TRUE)]
    BY <1>2, <1>4, <1>7 DEF Table
  <2> QED BY <1>1, <1>5, <2>1 DEF HasTable, TableOf
<1> QED BY <1>1, <1>5, <1>6, <1>7 DEF n

(* A step of thread t that gives it a stack of the frames of its call keeps *)
(* StacksOK.                                                                *)
LEMMA StackStep ==
  ASSUME StacksOK, NEW t \in Threads, StackOf(t, CallFrames(call[t])), UNCHANGED context,
         UNCHANGED call, ret'[t] = 1, \A u \in Threads \ {t} : ret'[u] = ret[u]
  PROVE  StacksOK'
<1>1. /\ stack \in [Threads -> Seq(Frame \cup RealFrame)]
      /\ \A u \in Threads : /\ stack[u] \in Seq(CallFrames(call[u]))
                            /\ ret[u] # 1 => stack[u] = << >>
  BY DEF StacksOK
<1>2. PICK s \in Seq(CallFrames(call[t])) :
        stack'[t] = s /\ \A u \in Threads \ {t} : stack'[u] = stack[u]
  BY <1>1 DEF StackOf
<1>3. stack' \in [Threads -> Seq(Frame \cup RealFrame)]
  <2>1. CASE UNCHANGED stack
    BY <1>1, <2>1
  <2>2. CASE \E q \in Seq(CallFrames(call[t])) : stack' = [stack EXCEPT ![t] = q]
    <3>1. PICK q \in Seq(CallFrames(call[t])) : stack' = [stack EXCEPT ![t] = q]
      BY <2>2
    <3>2. q \in Seq(Frame \cup RealFrame)
      BY SeqCallFrames
    <3> QED BY <1>1, <3>1, <3>2
  <2> QED BY <2>1, <2>2 DEF StackOf
<1>4. ASSUME NEW u \in Threads
      PROVE  /\ (stack[u] \in Seq(CallFrames(call[u])))'
             /\ (ret[u] # 1 => stack[u] = << >>)'
  <2>1. stack'[u] \in Seq(CallFrames(call[u])) /\ (ret'[u] # 1 => stack'[u] = << >>)
    BY <1>1, <1>2
  <2>2. ASSUME NEW a, a = call[u]
        PROVE  (stack[u] \in Seq(CallFrames(call[u])))'
    <3>1. CallFrames(a)' = CallFrames(a)
      BY CallFramesUnchanged
    <3> QED BY <2>1, <2>2, <3>1
  <2> QED BY <2>1, <2>2
<1> QED BY <1>3, <1>4 DEF StacksOK

LEMMA InitIInv == Init => IInv
<1> SUFFICES ASSUME Init PROVE IInv
  OBVIOUS
<1>1. /\ ContextsOK /\ mem \in InitMem /\ stack = [t \in Threads |-> << >>]
      /\ call = [t \in Threads |-> NoCall] /\ ret = [t \in Threads |-> NULL]
  BY DEF Init, ContextsOK
<1>2. MemOK
  BY <1>1, RequestAssumption DEF MemOK, BufferType
<1>3. StacksOK
  BY <1>1 DEF StacksOK
<1>4. CallsOK
  <2>1. NULL # 1
    BY RequestAssumption
  <2> QED BY <1>1, <2>1 DEF CallsOK
<1> QED BY <1>1, <1>2, <1>3, <1>4 DEF IInv

(* The answer 0, which leaves everything else as it is.                     *)
LEMMA Return0Step ==
  ASSUME IInv, NEW t \in Threads, call[t] # NoCall, ret[t] = NULL, Return0(t)
  PROVE  IInv'
<1>1. /\ ContextsOK /\ MemOK /\ StacksOK /\ CallsOK /\ NULL \notin {0, 1}
      /\ UNCHANGED <<context, mem, stack, call>> /\ ret' = [ret EXCEPT ![t] = 0]
  BY RequestAssumption DEF IInv, Return0
<1>2. /\ ret \in [Threads -> {NULL, 0, 1}] /\ ret' \in [Threads -> {NULL, 0, 1}]
      /\ \A u \in Threads : u # t => ret'[u] = ret[u]
      /\ ret'[t] = 0
  BY <1>1 DEF CallsOK
<1>3. stack[t] = << >>
  BY <1>1 DEF StacksOK
<1>4. ContextsOK' /\ MemOK'
  BY <1>1 DEF ContextsOK, MemOK
<1>5. StacksOK'
  <2>1. ASSUME NEW u \in Threads PROVE (stack[u] \in Seq(CallFrames(call[u])))'
    <3>1. ASSUME NEW a, a = call[u] PROVE (stack[u] \in Seq(CallFrames(call[u])))'
      <4>1. CallFrames(a)' = CallFrames(a)
        BY <1>1, CallFramesUnchanged
      <4> QED BY <1>1, <3>1, <4>1 DEF StacksOK
    <3> QED BY <3>1
  <2>2. \A u \in Threads : ret'[u] # 1 => stack'[u] = << >>
    BY <1>1, <1>2, <1>3 DEF StacksOK
  <2> QED BY <1>1, <2>1, <2>2 DEF StacksOK
<1>6. CallsOK'
  BY <1>1, <1>2 DEF CallsOK, GoodContext
<1> QED BY <1>4, <1>5, <1>6 DEF IInv

(* A call that is accepted: the transform it starts works for it.           *)
LEMMA AcceptStep ==
  ASSUME IInv, NEW t \in Threads, call[t] # NoCall, WillReturn1(t),
         GoodContext(call[t].context, TableOfOp(call[t].op)),
         StackOf(t, CallFrames(call[t])), UNCHANGED context,
         NEW b \in Buffers, NEW R, Stores(b, R)
  PROVE  IInv'
<1>1. /\ ContextsOK /\ MemOK /\ StacksOK /\ CallsOK
      /\ UNCHANGED call /\ ret' = [ret EXCEPT ![t] = 1]
  BY DEF IInv, WillReturn1
<1>2. /\ ret' \in [Threads -> {NULL, 0, 1}] /\ ret'[t] = 1
      /\ \A u \in Threads \ {t} : ret'[u] = ret[u]
  BY <1>1 DEF CallsOK
<1>3. ContextsOK' /\ MemOK'
  BY <1>1, StoresKeepsMem DEF ContextsOK
<1>4. StacksOK'
  BY <1>1, <1>2, StackStep
<1>5. CallsOK'
  BY <1>1, <1>2 DEF CallsOK, GoodContext
<1> QED BY <1>3, <1>4, <1>5 DEF IInv

(* What the guards establish, for the transforms below.                     *)
LEMMA GuardsEstablish ==
  ASSUME IInv, NoIntMin, NEW a \in Requests,
         GoodContext(a.context, TableOfOp(a.op)), GoodCount(a), GoodBuffers(a)
  PROVE  /\ a.context \in Contexts /\ a.input \in Buffers /\ a.output \in Buffers
         /\ a.count \in Nat /\ a.count > 0 /\ isPowerOfTwo(a.count)
         /\ a.count <= context[a.context].maxCount
         /\ InputLen(a) <= BufLen[a.input] /\ OutputLen(a) <= BufLen[a.output]
         /\ a.tmpBuf # NULL =>
              a.tmpBuf \in Buffers /\ HalfSpectrum(a.count) <= BufLen[a.tmpBuf]
         /\ a.op \in {"RealForward", "ComplexForward"} => HasTable(a.context, FALSE)
         /\ a.op \notin {"RealForward", "ComplexForward"} => HasTable(a.context, TRUE)
<1>1. /\ a.context \in Contexts \cup {NULL} /\ a.count \in (-IntMax - 1)..IntMax
      /\ a.input \in Buffers \cup {NULL} /\ a.output \in Buffers \cup {NULL}
      /\ a.tmpBuf \in Buffers \cup {NULL} /\ IntMax \in Nat
  BY RequestAssumption
<1>2. /\ a.context \in Contexts /\ a.input \in Buffers /\ a.output \in Buffers
      /\ isPowerOfTwo(a.count % (2 * (IntMax + 1)))
      /\ a.count <= context[a.context].maxCount
  BY <1>1 DEF GoodContext, GoodCount, GoodBuffers
<1>3. a.count \in (-IntMax)..IntMax
  BY <1>1 DEF NoIntMin
<1>4. a.count \in Nat /\ a.count > 0 /\ isPowerOfTwo(a.count)
  BY <1>2, <1>3, GoodCounts
<1>5. /\ InputLen(a) <= BufLen[a.input] /\ OutputLen(a) <= BufLen[a.output]
      /\ a.tmpBuf # NULL => HalfSpectrum(a.count) <= BufLen[a.tmpBuf]
  BY <1>2, <1>4, RequestAssumption DEF GoodBuffers
<1>6. ContextsOK
  BY DEF IInv
<1>7. ASSUME a.op \in {"RealForward", "ComplexForward"}
      PROVE  HasTable(a.context, FALSE)
  BY <1>2, <1>6, <1>7, ContextFacts DEF GoodContext, TableOfOp
<1>8. ASSUME a.op \notin {"RealForward", "ComplexForward"}
      PROVE  HasTable(a.context, TRUE)
  BY <1>2, <1>6, <1>8, ContextFacts DEF GoodContext, TableOfOp
<1> QED BY <1>1, <1>2, <1>4, <1>5, <1>7, <1>8

(* The call of a thread that has not been answered yet.                     *)
LEMMA PendingCall ==
  ASSUME IInv, NEW t \in Threads, NEW op, Called(t, op)
  PROVE  /\ call[t] \in Requests /\ call[t] # NoCall /\ call[t].op = op
         /\ ret[t] = NULL /\ stack[t] = << >> /\ MemOK
<1>1. NULL # 1
  BY RequestAssumption
<1> QED BY <1>1 DEF IInv, CallsOK, StacksOK, Called

(* A forward real transform that is accepted.                               *)
LEMMA ForwardAccepted ==
  ASSUME IInv, NoIntMin, NEW t \in Threads, NEW a \in Requests, a = call[t],
         a.op = "RealForward", stack[t] = << >>,
         GoodContext(a.context, TableOfOp(a.op)), GoodCount(a), GoodBuffers(a),
         fft_real(t, a.context, a.input, a.output, a.count)
  PROVE  /\ StackOf(t, CallFrames(a)) /\ UNCHANGED context
         /\ a.output \in Buffers /\ Stores(a.output, RealShare(a.count))
<1>1. /\ a.context \in Contexts /\ a.input \in Buffers /\ a.output \in Buffers
      /\ a.count \in Nat /\ a.count > 0 /\ isPowerOfTwo(a.count)
      /\ a.count <= context[a.context].maxCount
      /\ InputLen(a) <= BufLen[a.input] /\ OutputLen(a) <= BufLen[a.output]
      /\ a.op \in {"RealForward", "ComplexForward"} => HasTable(a.context, FALSE)
  BY GuardsEstablish
<1>2. /\ Pairs(a.count) <= BufLen[a.input] /\ HalfSpectrum(a.count) <= BufLen[a.output]
      /\ HasTable(a.context, FALSE) /\ MemOK
  BY <1>1 DEF InputLen, OutputLen, IInv
<1> DEFINE S == CallFrames(a)
<1>3. \A fn \in ForwardFns :
        StartFrames(fn, a.context, a.input, a.output, a.output, a.count) \subseteq S
  BY DEF CallFrames, FramesOf, RealFramesOf, FnsOf, RealArgs
<1>4. \A g \in OKFrames :
        Serves(g) = [context |-> a.context, src |-> a.input, dst |-> a.output,
                     count |-> a.count \div 2, inverse |-> FALSE] => g \in S
  BY DEF CallFrames, FramesOf, HalfFft, RealArgs
<1> HIDE DEF S
<1>5. ASSUME NEW c \in Contexts, c = a.context, NEW src \in Buffers, src = a.input,
             NEW dst \in Buffers, dst = a.output, NEW count \in Nat, count = a.count
      PROVE  StackOf(t, S) /\ UNCHANGED context /\ Stores(dst, RealShare(count))
  <2>1. /\ HasTable(c, FALSE) /\ isPowerOfTwo(count) /\ count <= context[c].maxCount
        /\ Pairs(count) <= BufLen[src] /\ HalfSpectrum(count) <= BufLen[dst]
        /\ fft_real(t, c, src, dst, count)
    BY <1>1, <1>2, <1>5
  <2>2. \A fn \in ForwardFns : StartFrames(fn, c, src, dst, dst, count) \subseteq S
    BY <1>3, <1>5
  <2>3. \A g \in OKFrames :
          Serves(g) = [context |-> c, src |-> src, dst |-> dst,
                       count |-> count \div 2, inverse |-> FALSE] => g \in S
    BY <1>4, <1>5
  <2> QED BY <1>2, <2>1, <2>2, <2>3, FftRealOK
<1> QED BY <1>1, <1>5 DEF S

LEMMA RealForwardStep ==
  ASSUME IInv, NoIntMin, NEW t \in Threads, CkFftRealForward(t)
  PROVE  IInv'
<1>1. Called(t, "RealForward")
  BY DEF CkFftRealForward
<1>2. /\ call[t] \in Requests /\ call[t] # NoCall /\ call[t].op = "RealForward"
      /\ ret[t] = NULL /\ stack[t] = << >> /\ MemOK
  BY <1>1, PendingCall
<1>3. CASE Return0(t)
  BY <1>2, <1>3, Return0Step
<1>4. ASSUME NEW a \in Requests, a = call[t], WillReturn1(t),
             GoodContext(a.context, "fwdExpTable"), GoodCount(a), GoodBuffers(a),
             fft_real(t, a.context, a.input, a.output, a.count)
      PROVE  IInv'
  <2>1. TableOfOp(a.op) = "fwdExpTable" /\ a.op = "RealForward"
    BY <1>2, <1>4 DEF TableOfOp
  <2>2. /\ StackOf(t, CallFrames(a)) /\ UNCHANGED context
        /\ a.output \in Buffers /\ Stores(a.output, RealShare(a.count))
    BY <1>2, <1>4, <2>1, ForwardAccepted
  <2> QED BY <1>2, <1>4, <2>1, <2>2, AcceptStep
<1> QED BY <1>2, <1>3, <1>4 DEF CkFftRealForward

(* An inverse real transform that is accepted.                              *)
LEMMA InverseAccepted ==
  ASSUME IInv, NoIntMin, NEW t \in Threads, NEW a \in Requests, a = call[t],
         a.op = "RealInverse", stack[t] = << >>, a.tmpBuf # NULL,
         GoodContext(a.context, TableOfOp(a.op)), GoodCount(a), GoodBuffers(a),
         fft_real_inverse(t, a.context, a.input, a.output, a.count, a.tmpBuf)
  PROVE  /\ StackOf(t, CallFrames(a)) /\ UNCHANGED context
         /\ a.output \in Buffers /\ Stores(a.output, 0..(Pairs(a.count) - 1))
<1>1. /\ a.context \in Contexts /\ a.input \in Buffers /\ a.output \in Buffers
      /\ a.count \in Nat /\ a.count > 0 /\ isPowerOfTwo(a.count)
      /\ a.count <= context[a.context].maxCount
      /\ InputLen(a) <= BufLen[a.input] /\ OutputLen(a) <= BufLen[a.output]
      /\ a.tmpBuf \in Buffers /\ HalfSpectrum(a.count) <= BufLen[a.tmpBuf]
      /\ a.op \notin {"RealForward", "ComplexForward"} => HasTable(a.context, TRUE)
  BY GuardsEstablish
<1>2. /\ Pairs(a.count) <= BufLen[a.output] /\ HalfSpectrum(a.count) <= BufLen[a.input]
      /\ HasTable(a.context, TRUE) /\ MemOK
  BY <1>1 DEF InputLen, OutputLen, IInv
<1> DEFINE S == CallFrames(a)
<1>3. \A fn \in InverseFns :
        StartFrames(fn, a.context, a.input, a.output, a.tmpBuf, a.count) \subseteq S
  BY DEF CallFrames, FramesOf, RealFramesOf, FnsOf, RealArgs
<1> HIDE DEF S
<1>4. ASSUME NEW c \in Contexts, c = a.context, NEW src \in Buffers, src = a.input,
             NEW dst \in Buffers, dst = a.output, NEW count \in Nat, count = a.count,
             NEW tmpBuf \in Buffers, tmpBuf = a.tmpBuf
      PROVE  StackOf(t, S) /\ UNCHANGED context /\ Stores(dst, 0..(Pairs(count) - 1))
  <2>1. /\ HasTable(c, TRUE) /\ isPowerOfTwo(count) /\ count <= context[c].maxCount
        /\ HalfSpectrum(count) <= BufLen[src] /\ Pairs(count) <= BufLen[dst]
        /\ HalfSpectrum(count) <= BufLen[tmpBuf]
        /\ fft_real_inverse(t, c, src, dst, count, tmpBuf)
    BY <1>1, <1>2, <1>4
  <2>2. \A fn \in InverseFns :
          StartFrames(fn, c, src, dst, tmpBuf, count) \subseteq S
    BY <1>3, <1>4
  <2> QED BY <1>2, <2>1, <2>2, FftRealInverseOK
<1> QED BY <1>1, <1>4 DEF S

LEMMA RealInverseStep ==
  ASSUME IInv, NoIntMin, NEW t \in Threads, CkFftRealInverse(t)
  PROVE  IInv'
<1>1. Called(t, "RealInverse")
  BY DEF CkFftRealInverse
<1>2. /\ call[t] \in Requests /\ call[t] # NoCall /\ call[t].op = "RealInverse"
      /\ ret[t] = NULL /\ stack[t] = << >> /\ MemOK
  BY <1>1, PendingCall
<1>3. CASE Return0(t)
  BY <1>2, <1>3, Return0Step
<1>4. ASSUME NEW a \in Requests, a = call[t], WillReturn1(t), a.tmpBuf # NULL,
             GoodContext(a.context, "invExpTable"), GoodCount(a), GoodBuffers(a),
             fft_real_inverse(t, a.context, a.input, a.output, a.count, a.tmpBuf)
      PROVE  IInv'
  <2>1. TableOfOp(a.op) = "invExpTable" /\ a.op = "RealInverse"
    BY <1>2, <1>4 DEF TableOfOp
  <2>2. /\ StackOf(t, CallFrames(a)) /\ UNCHANGED context
        /\ a.output \in Buffers /\ Stores(a.output, 0..(Pairs(a.count) - 1))
    BY <1>2, <1>4, <2>1, InverseAccepted
  <2> QED BY <1>2, <1>4, <2>1, <2>2, AcceptStep
<1> QED BY <1>2, <1>3, <1>4 DEF CkFftRealInverse

(* A complex transform that is accepted.                                    *)
LEMMA ComplexAccepted ==
  ASSUME IInv, NoIntMin, NEW t \in Threads, NEW a \in Requests, a = call[t],
         stack[t] = << >>, NEW inverse \in BOOLEAN,
         a.op = IF inverse THEN "ComplexInverse" ELSE "ComplexForward",
         GoodContext(a.context, TableOfOp(a.op)), GoodCount(a), GoodBuffers(a),
         fft(t, a.context, a.input, a.output, a.count, inverse)
  PROVE  /\ StackOf(t, CallFrames(a)) /\ UNCHANGED context
         /\ a.output \in Buffers /\ Stores(a.output, 0..(a.count - 1))
<1>1. /\ a.context \in Contexts /\ a.input \in Buffers /\ a.output \in Buffers
      /\ a.count \in Nat /\ isPowerOfTwo(a.count)
      /\ a.count <= context[a.context].maxCount
      /\ InputLen(a) <= BufLen[a.input] /\ OutputLen(a) <= BufLen[a.output]
      /\ a.op \in {"RealForward", "ComplexForward"} => HasTable(a.context, FALSE)
      /\ a.op \notin {"RealForward", "ComplexForward"} => HasTable(a.context, TRUE)
  BY GuardsEstablish
<1>2. /\ a.count <= BufLen[a.input] /\ a.count <= BufLen[a.output]
      /\ HasTable(a.context, inverse) /\ MemOK
  BY <1>1 DEF InputLen, OutputLen, IInv
<1> DEFINE S == CallFrames(a)
<1>3. ComplexArgs(a) = [context |-> a.context, src |-> a.input, dst |-> a.output,
                        count |-> a.count, inverse |-> inverse]
  BY DEF ComplexArgs
<1>4. \A g \in OKFrames : Serves(g) = ComplexArgs(a) => g \in S
  BY DEF CallFrames
<1> HIDE DEF S
<1>5. StackOf(t, S) /\ UNCHANGED context /\ Stores(a.output, 0..(a.count - 1))
  <2>1. ASSUME NEW c \in Contexts, c = a.context, NEW src \in Buffers, src = a.input,
               NEW dst \in Buffers, dst = a.output, NEW count \in Nat, count = a.count,
               NEW x, x = ComplexArgs(a)
        PROVE  StackOf(t, S) /\ UNCHANGED context /\ Stores(dst, 0..(count - 1))
    <3>1. /\ HasTable(c, inverse) /\ isPowerOfTwo(count) /\ count <= context[c].maxCount
          /\ count <= BufLen[src] /\ count <= BufLen[dst]
          /\ fft(t, c, src, dst, count, inverse)
      BY <1>1, <1>2, <2>1
    <3>2. /\ x = [context |-> c, src |-> src, dst |-> dst, count |-> count,
                  inverse |-> inverse]
          /\ \A g \in OKFrames : Serves(g) = x => g \in S
      BY <1>3, <1>4, <2>1
    <3> QED BY <1>2, <3>1, <3>2, FftOK, SMTT(60)
  <2> QED BY <1>1, <2>1
<1> QED BY <1>1, <1>5 DEF S

LEMMA ComplexForwardStep ==
  ASSUME IInv, NoIntMin, NEW t \in Threads, CkFftComplexForward(t)
  PROVE  IInv'
<1>1. Called(t, "ComplexForward")
  BY DEF CkFftComplexForward
<1>2. /\ call[t] \in Requests /\ call[t] # NoCall /\ call[t].op = "ComplexForward"
      /\ ret[t] = NULL /\ stack[t] = << >> /\ MemOK
  BY <1>1, PendingCall
<1>3. CASE Return0(t)
  BY <1>2, <1>3, Return0Step
<1>4. ASSUME NEW a, a = call[t], WillReturn1(t),
             GoodContext(a.context, "fwdExpTable"), GoodCount(a), GoodBuffers(a),
             fft(t, a.context, a.input, a.output, a.count, FALSE)
      PROVE  IInv'
  <2>1. TableOfOp(a.op) = "fwdExpTable" /\ a \in Requests /\ a.op = "ComplexForward"
    BY <1>2, <1>4 DEF TableOfOp
  <2>2. /\ StackOf(t, CallFrames(a)) /\ UNCHANGED context
        /\ a.output \in Buffers /\ Stores(a.output, 0..(a.count - 1))
    BY <1>2, <1>4, <2>1, ComplexAccepted
  <2> QED BY <1>2, <1>4, <2>1, <2>2, AcceptStep
<1> QED BY <1>2, <1>3, <1>4 DEF CkFftComplexForward

LEMMA ComplexInverseStep ==
  ASSUME IInv, NoIntMin, NEW t \in Threads, CkFftComplexInverse(t)
  PROVE  IInv'
<1>1. Called(t, "ComplexInverse")
  BY DEF CkFftComplexInverse
<1>2. /\ call[t] \in Requests /\ call[t] # NoCall /\ call[t].op = "ComplexInverse"
      /\ ret[t] = NULL /\ stack[t] = << >> /\ MemOK
  BY <1>1, PendingCall
<1>3. CASE Return0(t)
  BY <1>2, <1>3, Return0Step
<1>4. ASSUME NEW a, a = call[t], WillReturn1(t),
             GoodContext(a.context, "invExpTable"), GoodCount(a), GoodBuffers(a),
             fft(t, a.context, a.input, a.output, a.count, TRUE)
      PROVE  IInv'
  <2>1. TableOfOp(a.op) = "invExpTable" /\ a \in Requests /\ a.op = "ComplexInverse"
    BY <1>2, <1>4 DEF TableOfOp
  <2>2. /\ StackOf(t, CallFrames(a)) /\ UNCHANGED context
        /\ a.output \in Buffers /\ Stores(a.output, 0..(a.count - 1))
    BY <1>2, <1>4, <2>1, ComplexAccepted
  <2> QED BY <1>2, <1>4, <2>1, <2>2, AcceptStep
<1> QED BY <1>2, <1>3, <1>4 DEF CkFftComplexInverse

(* A new call: nothing of it has been done.                                 *)
LEMMA NewCallStep ==
  ASSUME IInv, NEW t \in Threads, Call(t)
  PROVE  IInv'
<1>1. PICK a \in Requests : call' = [call EXCEPT ![t] = a]
  BY DEF Call
<1>2. /\ ContextsOK /\ MemOK /\ StacksOK /\ CallsOK /\ NULL # 1
      /\ call[t] = NoCall /\ UNCHANGED <<context, mem, stack, ret>>
  BY RequestAssumption DEF IInv, Call
<1>3. ret[t] = NULL /\ stack[t] = << >>
  BY <1>2 DEF CallsOK, StacksOK
<1>4. /\ call' \in [Threads -> Requests \cup {NoCall}]
      /\ \A u \in Threads \ {t} : call'[u] = call[u]
      /\ call'[t] # NoCall
  <2>1. a # NoCall
    BY RequestAssumption
  <2> QED BY <1>1, <1>2, <2>1 DEF CallsOK
<1>5. StacksOK'
  <2>1. ASSUME NEW u \in Threads PROVE (stack[u] \in Seq(CallFrames(call[u])))'
    <3>1. ASSUME NEW x, x = call'[u] PROVE (stack[u] \in Seq(CallFrames(call[u])))'
      <4>1. CallFrames(x)' = CallFrames(x)
        BY <1>2, CallFramesUnchanged
      <4>2. stack[u] \in Seq(CallFrames(x))
        BY <1>2, <1>3, <1>4, <3>1 DEF StacksOK
      <4> QED BY <1>2, <3>1, <4>1, <4>2
    <3> QED BY <3>1
  <2> QED BY <1>2, <2>1 DEF StacksOK
<1>6. CallsOK'
  BY <1>2, <1>3, <1>4 DEF CallsOK, GoodContext
<1> QED BY <1>2, <1>5, <1>6 DEF IInv, ContextsOK, MemOK

(* A step of a transform: it goes on working for the thread's call.         *)
LEMMA TransformStep ==
  ASSUME IInv, NEW t \in Threads, FftRealStep(t), UNCHANGED <<call, ret>>
  PROVE  IInv'
<1> DEFINE S == CallFrames(call[t])
<1>1. ContextsOK /\ MemOK /\ StacksOK /\ CallsOK
  BY DEF IInv
<1>2. RealClosed(S) /\ stack[t] \in Seq(S) /\ (ret[t] # 1 => stack[t] = << >>)
  BY <1>1, CallFramesClosed DEF StacksOK
<1>3. /\ stack[t] # << >> /\ Top(t) \in S
      /\ StackOf(t, S) /\ UNCHANGED context
      /\ \/ /\ Top(t) \in OKFrames
            /\ Stores(Top(t).dst, 0..(Total(Top(t)) - 1))
         \/ /\ Top(t) \in OKRealFrames
            /\ Stores(Top(t).tmpBuf, 0..(Top(t).count \div 2))
  <2> HIDE DEF S
  <2> QED BY <1>1, <1>2, FftRealStepOK
<1>4. ret[t] = 1
  BY <1>2, <1>3
<1>5. MemOK'
  BY <1>1, <1>3, StoresKeepsMem, FrameFields, RealFrameFields
<1>6. ContextsOK'
  BY <1>1, <1>3 DEF ContextsOK
<1>7. StacksOK'
  BY <1>1, <1>3, <1>4, StackStep
<1>8. CallsOK'
  BY <1>1, <1>3 DEF CallsOK, GoodContext
<1> QED BY <1>5, <1>6, <1>7, <1>8 DEF IInv

(* What the transforms rely on holds whenever one of them runs, whatever    *)
(* the callers ask for.                                                     *)
THEOREM InductiveInvariant ==
  ASSUME NoIntMin
  PROVE  Spec => []IInv
<1>1. IInv /\ [Next]_vars => IInv'
  <2> SUFFICES ASSUME IInv, [Next]_vars PROVE IInv'
    OBVIOUS
  <2>1. ASSUME NEW t \in Threads, Call(t) PROVE IInv'
    BY <2>1, NewCallStep
  <2>2. ASSUME NEW t \in Threads, CkFftRealForward(t) PROVE IInv'
    BY <2>2, RealForwardStep
  <2>3. ASSUME NEW t \in Threads, CkFftRealInverse(t) PROVE IInv'
    BY <2>3, RealInverseStep
  <2>4. ASSUME NEW t \in Threads, CkFftComplexForward(t) PROVE IInv'
    BY <2>4, ComplexForwardStep
  <2>5. ASSUME NEW t \in Threads, CkFftComplexInverse(t) PROVE IInv'
    BY <2>5, ComplexInverseStep
  <2>6. ASSUME NEW t \in Threads, FftRealStep(t), UNCHANGED <<call, ret>> PROVE IInv'
    BY <2>6, TransformStep
  <2>7. CASE UNCHANGED vars
    <3> USE <2>7 DEF vars
    <3>1. ASSUME NEW a PROVE CallFrames(a)' = CallFrames(a)
      BY CallFramesUnchanged
    <3>2. StacksOK'
      BY <3>1 DEF IInv, StacksOK
    <3>3. CallsOK' /\ MemOK' /\ ContextsOK'
      BY DEF IInv, CallsOK, GoodContext, MemOK, ContextsOK
    <3> QED BY <3>2, <3>3 DEF IInv
  <2> QED BY <2>1, <2>2, <2>3, <2>4, <2>5, <2>6, <2>7 DEF Next, Step
<1> QED BY InitIInv, <1>1, PTL DEF Spec

-----------------------------------------------------------------------------
(* Whatever arguments the interface is called with, INT_MIN apart, buffers  *)
(* keep their lengths and calls their frames, and the answer is 0 or 1.     *)
THEOREM TypeCorrect ==
  ASSUME NoIntMin
  PROVE  Spec => []TypeOK
<1>1. IInv => TypeOK
  <2> SUFFICES ASSUME IInv PROVE TypeOK
    OBVIOUS
  <2>1. MemOK /\ StacksOK /\ CallsOK
    BY DEF IInv
  <2>2. \A b \in Buffers : mem[b] \in [0..(BufLen[b] - 1) -> CkFftComplex]
    BY <2>1 DEF MemOK, BufferType
  <2>3. ASSUME NEW t \in Threads, NEW d \in 1..Len(stack[t])
        PROVE  \/ stack[t][d] \in Frame
               \/ stack[t][d] \in RealFrame /\ LoopInBounds(stack[t][d])
    <3>1. stack[t][d] \in CallFrames(call[t])
      BY <2>1 DEF StacksOK
    <3>2. stack[t][d] \in OKFrames \cup OKRealFrames
      BY <3>1, RealFramesFields DEF CallFrames, FramesOf
    <3> QED BY <3>2 DEF OKFrames, OKRealFrames, RealFrameOK
  <2> QED BY <2>1, <2>2, <2>3 DEF TypeOK, CallsOK
<1> QED BY <1>1, InductiveInvariant, PTL

(* The guards of the interface are enough: no transform ever runs on a      *)
(* context that lacks the table it reads.                                   *)
THEOREM TablesPresent ==
  ASSUME NoIntMin
  PROVE  Spec => []TablePresent
<1>1. IInv => TablePresent
  <2> SUFFICES ASSUME IInv, NEW t \in Threads, NEW d \in 1..Len(stack[t]),
                      NEW f, f = stack[t][d]
               PROVE  LET inverse == IF f.fn \in {"fft_default", "fft_neon"} THEN f.inverse
                                     ELSE f.fn \in {"fft_real_inverse_default",
                                                    "fft_real_inverse_neon"}
                      IN  context[f.context][IF inverse THEN "invExpTable"
                                                        ELSE "fwdExpTable"] # NULL
    BY DEF TablePresent
  <2> DEFINE a == call[t]
  <2>1. StacksOK /\ CallsOK
    BY DEF IInv
  <2>2. f \in CallFrames(a) /\ stack[t] # << >>
    BY <2>1 DEF StacksOK
  <2>3. ret[t] = 1
    BY <2>1, <2>2 DEF StacksOK
  <2>4. a.context # NULL /\ context[a.context][TableOfOp(a.op)] # NULL
    BY <2>1, <2>3 DEF CallsOK, GoodContext
  <2>5. a \in Requests
    <3>1. NULL # 1
      BY RequestAssumption
    <3> QED BY <2>1, <2>3, <3>1 DEF CallsOK
  <2>6. a.op \in {"RealForward", "RealInverse", "ComplexForward", "ComplexInverse"}
    BY <2>5, RequestAssumption
  <2> HIDE DEF a
  <2>7. CASE f \in OKFrames
    <3>1. f.fn \in {"fft_default", "fft_neon"} /\ f.inverse \in BOOLEAN
      BY <2>7, FrameKinds DEF Frame
    <3>2. CASE a.op \in {"RealForward", "RealInverse"}
      <4>1. Serves(f) = HalfFft(RealArgs(a))
        BY <2>2, <2>7, <3>2, RealFramesFields, FrameKinds DEF CallFrames, FramesOf
      <4>2. CASE a.op = "RealForward"
        <5>1. Serves(f) = [context |-> a.context, src |-> a.input, dst |-> a.output,
                           count |-> a.count \div 2, inverse |-> FALSE]
          BY <4>1, <4>2 DEF HalfFft, RealArgs
        <5>2. f.context = a.context /\ f.inverse = FALSE
          BY <5>1 DEF Serves
        <5> QED BY <2>4, <3>1, <4>2, <5>2 DEF TableOfOp
      <4>3. CASE a.op = "RealInverse"
        <5>1. Serves(f) = [context |-> a.context, src |-> a.tmpBuf, dst |-> a.output,
                           count |-> a.count \div 2, inverse |-> TRUE]
          BY <4>1, <4>3 DEF HalfFft, RealArgs
        <5>2. f.context = a.context /\ f.inverse = TRUE
          BY <5>1 DEF Serves
        <5> QED BY <2>4, <3>1, <4>3, <5>2 DEF TableOfOp
      <4> QED BY <3>2, <4>2, <4>3
    <3>3. CASE a.op \in {"ComplexForward", "ComplexInverse"}
      <4>1. Serves(f) = ComplexArgs(a)
        BY <2>2, <3>3 DEF CallFrames
      <4>2. f.context = a.context /\ f.inverse = (a.op # "ComplexForward")
        BY <4>1 DEF Serves, ComplexArgs
      <4> QED BY <2>4, <3>1, <3>3, <4>2 DEF TableOfOp
    <3> QED BY <2>6, <3>2, <3>3
  <2>8. CASE f \notin OKFrames
    <3>1. a.op \in {"RealForward", "RealInverse"} /\ f \in RealFramesOf(RealArgs(a))
      BY <2>2, <2>8 DEF CallFrames, FramesOf
    <3>2. /\ f \in OKRealFrames /\ f.fn \in FnsOf(RealArgs(a))
          /\ f.context = RealArgs(a).context
      BY <3>1, RealFramesFields
    <3>3. f.context = a.context
      BY <3>1, <3>2 DEF RealArgs
    <3>4. a.op = "RealForward" => f.fn \in ForwardFns
      BY <3>2 DEF RealArgs, FnsOf
    <3>5. a.op = "RealInverse" => f.fn \in InverseFns
      BY <3>2 DEF RealArgs, FnsOf
    <3> QED BY <2>4, <3>1, <3>3, <3>4, <3>5 DEF TableOfOp, ForwardFns, InverseFns
  <2> QED BY <2>7, <2>8
<1> QED BY <1>1, InductiveInvariant, PTL

-----------------------------------------------------------------------------
(***************************************************************************)
(* What FftService computes with is what the library computes with.         *)
(***************************************************************************)
LEMMA SameOps ==
  /\ \A x : Service!isPowerOfTwo(x) <=> isPowerOfTwo(x)
  /\ \A x : Service!conjugate(x) = conjugate(x)
  /\ \A x, y : Service!add(x, y) = add(x, y)
BY DEF Service!isPowerOfTwo, isPowerOfTwo, Service!conjugate, conjugate, Service!add, add

LEMMA SameSum == \A y, n : Service!SumOf(y, n) = SumOf(y, n)
BY DEF Service!SumOf, SumOf, Service!add, add, Service!Zero, Zero

LEMMA SameRoot == \A j, n, inverse : Service!Root(j, n, inverse) = Root(j, n, inverse)
BY DEF Service!Root, Root, Service!Twiddle, Twiddle, Service!conjugate, conjugate

LEMMA SameDft == \A x, n, inverse : Service!DFT(x, n, inverse) = DFT(x, n, inverse)
<1> TAKE x, n, inverse
<1>1. \A k, j : Service!multiply(x[j], Service!Root(j * k, n, inverse))
               = multiply(x[j], Root(j * k, n, inverse))
  BY SameRoot DEF Service!multiply, multiply
<1>2. \A k : [j \in 0..(n - 1) |-> Service!multiply(x[j], Service!Root(j * k, n, inverse))]
           = [j \in 0..(n - 1) |-> multiply(x[j], Root(j * k, n, inverse))]
  BY <1>1
<1> QED BY <1>2, SameSum DEF Service!DFT, DFT

(***************************************************************************)
(* What the refinement assumes: that the angles are exact, that contexts    *)
(* have the NEON flag only in builds that have the NEON code, that the      *)
(* temporary buffer is no buffer of the data, and that an inverse real      *)
(* transform of 8 or more elements is given a spectrum of real data, which  *)
(* has no imaginary part at its two ends.                                   *)
(***************************************************************************)
AnglesExact == \A c \in Contexts : Divisor(MaxCount[c])

NeonBuilt == \A c \in Contexts \ NoNeon : isNeonSupported => ArmNeon

OwnTmpBuf ==
  \A a \in Requests : a.op = "RealInverse" /\ a.tmpBuf # NULL =>
    a.tmpBuf # a.input /\ a.tmpBuf # a.output

SpectraGiven ==
  \A m \in InitMem : \A a \in Requests :
    a.op = "RealInverse" /\ a.input # NULL /\ a.count >= 8 =>
      m[a.input][0].imag = 0 /\ m[a.input][a.count \div 2].imag = 0

(* The parameters of a call that ckfft.h allows.                            *)
LEMMA ValidCall ==
  ASSUME NEW a \in Requests, Service!Valid(a)
  PROVE  /\ a.context \in Contexts /\ a.input \in Buffers /\ a.output \in Buffers
         /\ a.input # a.output
         /\ a.count \in Nat \ {0} /\ isPowerOfTwo(a.count) /\ a.count <= MaxCount[a.context]
         /\ InputLen(a) <= BufLen[a.input] /\ OutputLen(a) <= BufLen[a.output]
         /\ a.op \in {"RealForward", "RealInverse", "ComplexForward", "ComplexInverse"}
         /\ a.op = "RealInverse" =>
              a.tmpBuf \in Buffers /\ HalfSpectrum(a.count) <= BufLen[a.tmpBuf]
<1>1. /\ a.context \in Contexts \cup {NULL} /\ a.count \in (-IntMax - 1)..IntMax
      /\ a.input \in Buffers \cup {NULL} /\ a.output \in Buffers \cup {NULL}
      /\ a.tmpBuf \in Buffers \cup {NULL} /\ IntMax \in Nat
      /\ a.op \in {"RealForward", "RealInverse", "ComplexForward", "ComplexInverse"}
  BY RequestAssumption
<1>2. /\ a.context # NULL /\ a.count > 0 /\ isPowerOfTwo(a.count)
      /\ a.count <= MaxCount[a.context] /\ a.input # NULL /\ a.output # NULL
      /\ a.input # a.output /\ (a.op = "RealInverse" => a.tmpBuf # NULL)
  BY SameOps DEF Service!Valid
<1>3. /\ a.input # NULL => InputLen(a) <= BufLen[a.input]
      /\ a.output # NULL => OutputLen(a) <= BufLen[a.output]
      /\ a.tmpBuf # NULL => HalfSpectrum(a.count) <= BufLen[a.tmpBuf]
  BY <1>2, RequestAssumption
<1> QED BY <1>1, <1>2, <1>3

(***************************************************************************)
(* The guards of the interface accept exactly the parameters that ckfft.h   *)
(* allows.                                                                  *)
(***************************************************************************)
Accepts(a) ==
  /\ a.op = "RealInverse" => a.tmpBuf # NULL
  /\ GoodContext(a.context, TableOfOp(a.op)) /\ GoodCount(a) /\ GoodBuffers(a)

LEMMA TablesOfContext ==
  ASSUME ContextsOK, NEW c \in Contexts, NEW op
  PROVE  /\ context[c].maxCount = MaxCount[c]
         /\ context[c][TableOfOp(op)] # NULL <=>
              (IF Service!IsForward(op) THEN "forward" ELSE "inverse") \in Direction[c]
<1> DEFINE n == MaxCount[c]
           new == NewContext(n, isNeonSupported /\ c \notin NoNeon)
<1>1. n \in Nat /\ isPowerOfTwo(n) /\ NULL \notin [0..(n - 1) -> CkFftComplex]
  BY RequestAssumption
<1>2. /\ context[c].fwdExpTable = Table(c, "forward", new.fwdExpTable)
      /\ context[c].invExpTable = Table(c, "inverse", new.invExpTable)
  BY DEF ContextsOK
<1>3. \A neon : /\ NewContext(n, neon).fwdExpTable = [i \in 0..(n - 1) |-> Root(i, n, FALSE)]
                /\ NewContext(n, neon).invExpTable = [i \in 0..(n - 1) |-> Root(i, n, TRUE)]
  <2> HIDE DEF n
  <2> QED BY <1>1, NewContextTables
<1>4. new.fwdExpTable # NULL /\ new.invExpTable # NULL
  <2>1. n \in Nat \ {0}
    BY <1>1 DEF isPowerOfTwo
  <2> HIDE DEF n
  <2>2. \A b \in BOOLEAN : \A i \in 0..(n - 1) : Root(i, n, b) \in CkFftComplex
    BY <2>1, RootType
  <2>3. \A b \in BOOLEAN : [i \in 0..(n - 1) |-> Root(i, n, b)] \in [0..(n - 1) -> CkFftComplex]
    BY <2>2
  <2> QED BY <1>1, <1>3, <2>3
<1> HIDE DEF new
<1>5. /\ context[c].fwdExpTable # NULL <=> "forward" \in Direction[c]
      /\ context[c].invExpTable # NULL <=> "inverse" \in Direction[c]
  BY <1>2, <1>4 DEF Table
<1>6. TableOfOp(op) = IF Service!IsForward(op) THEN "fwdExpTable" ELSE "invExpTable"
  BY DEF TableOfOp, Service!IsForward
<1> QED BY <1>5, <1>6, ContextFacts

THEOREM GuardsAccept ==
  ASSUME IInv, NoIntMin, NEW a \in Requests
  PROVE  Accepts(a) <=> Service!Valid(a)
<1>1. ContextsOK
  BY DEF IInv
<1>2. /\ a.context \in Contexts \cup {NULL} /\ a.count \in (-IntMax - 1)..IntMax
      /\ IntMax \in Nat
  BY RequestAssumption
<1>3. ASSUME Accepts(a) PROVE Service!Valid(a)
  <2>1. /\ a.context \in Contexts /\ a.count \in Nat /\ a.count > 0
        /\ isPowerOfTwo(a.count) /\ a.count <= context[a.context].maxCount
    BY <1>3, GuardsEstablish DEF Accepts
  <2>2. a.input # NULL /\ a.output # NULL /\ a.input # a.output
        /\ (a.op = "RealInverse" => a.tmpBuf # NULL)
    BY <1>3 DEF Accepts, GoodBuffers
  <2>3. context[a.context][TableOfOp(a.op)] # NULL /\ a.context # NULL
    BY <1>3 DEF Accepts, GoodContext
  <2> DEFINE c == a.context
  <2>4. /\ context[c].maxCount = MaxCount[c]
        /\ (IF Service!IsForward(a.op) THEN "forward" ELSE "inverse") \in Direction[c]
    BY <1>1, <2>1, <2>3, TablesOfContext
  <2> QED BY <2>1, <2>2, <2>3, <2>4, SameOps DEF Service!Valid
<1>4. ASSUME Service!Valid(a) PROVE Accepts(a)
  <2>1. /\ a.context \in Contexts /\ a.context # NULL
        /\ a.count \in Nat \ {0} /\ isPowerOfTwo(a.count) /\ a.count <= MaxCount[a.context]
    BY <1>4, ValidCall DEF Service!Valid
  <2>2. GoodBuffers(a) /\ (a.op = "RealInverse" => a.tmpBuf # NULL)
    BY <1>4 DEF Service!Valid, GoodBuffers
  <2>3. (IF Service!IsForward(a.op) THEN "forward" ELSE "inverse") \in Direction[a.context]
    BY <1>4 DEF Service!Valid
  <2> DEFINE c == a.context
  <2>4. context[c].maxCount = MaxCount[c] /\ context[c][TableOfOp(a.op)] # NULL
    BY <1>1, <2>1, <2>3, TablesOfContext
  <2>5. a.count % (2 * (IntMax + 1)) = a.count
    BY <1>2, <2>1
  <2> QED BY <2>1, <2>2, <2>4, <2>5 DEF Accepts, GoodContext, GoodCount
<1> QED BY <1>3, <1>4

-----------------------------------------------------------------------------
(***************************************************************************)
(* How far a call with the arguments a, whose call stack is s, has come: x, *)
(* w and y are the contents of its input, its temporary buffer and its      *)
(* output.                                                                  *)
(***************************************************************************)
ComplexWay(s, n, inverse, x, y) ==
  IF s = << >> THEN HasResult(n, inverse, x, y) ELSE Progress(s, 0, x, y)

CallWay(a, s, x, w, y) ==
  /\ a.op = "ComplexForward" => ComplexWay(s, a.count, FALSE, x, y)
  /\ a.op = "ComplexInverse" => ComplexWay(s, a.count, TRUE, x, y)
  /\ a.op = "RealForward" => ForwardWay(s, a.count, x, y)
  /\ a.op = "RealInverse" => InverseWay(s, a.count, InverseData(a.count, x), x, w, y)

(* The elements that a call reads and the values that it returns.           *)
InputOf(a, x) == [j \in 0..(InputLen(a) - 1) |-> x[j]]
OutputOf(a, y) ==
  IF a.op = "RealInverse" THEN [j \in 0..(a.count - 1) |-> FloatAt(y, j)]
                          ELSE [j \in 0..(OutputLen(a) - 1) |-> y[j]]

(* The data that an inverse real transform may be given.                    *)
InputGood(a, x) ==
  a.op = "RealInverse" =>
    /\ HalfHeld(x, a.count)
    /\ a.count >= 8 => x[0].imag = 0 /\ x[a.count \div 2].imag = 0

(* A complex transform that has come to its end has the documented result.  *)
LEMMA ComplexAnswer ==
  ASSUME NEW n \in Nat, NEW inverse \in BOOLEAN, NEW x, NEW y, HasResult(n, inverse, x, y)
  PROVE  [j \in 0..(n - 1) |-> y[j]] = DFT([j \in 0..(n - 1) |-> x[j]], n, inverse)
BY DEF HasResult, DFT

LEMMA ForwardAnswer ==
  ASSUME NEW n \in Nat \ {0}, NEW x, NEW y, HasSpectrum(n, x, y)
  PROVE  Service!Result("RealForward", n, [j \in 0..(Pairs(n) - 1) |-> x[j]])
           = [j \in 0..(HalfSpectrum(n) - 1) |-> y[j]]
<1> DEFINE d == [j \in 0..(Pairs(n) - 1) |-> x[j]]
           r == [j \in 0..(n - 1) |-> [real |-> Service!FloatOf(d, j), imag |-> 0]]
           X == DFT(RealInput(x, n), n, FALSE)
<1>1. ASSUME NEW j \in 0..(n - 1) PROVE Service!FloatOf(d, j) = FloatAt(x, j)
  <2>1. j \div 2 \in 0..(Pairs(n) - 1)
    BY DEF Pairs
  <2>2. d[j \div 2] = x[j \div 2]
    BY <2>1
  <2> HIDE DEF d
  <2> QED BY <2>2 DEF Service!FloatOf, FloatAt
<1>2. r = RealInput(x, n)
  <2> HIDE DEF d
  <2> QED BY <1>1 DEF RealInput
<1> HIDE DEF r, d
<1>3. Service!DFT(r, n, FALSE) = X
  BY <1>2, SameDft
<1>4. \A k \in 0..(n \div 2) : y[k] = add(X[k], X[k])
  <2> SUFFICES ASSUME NEW k \in 0..(n \div 2) PROVE y[k] = add(X[k], X[k])
    OBVIOUS
  <2>1. k \in 0..(n - 1)
    BY HalfBounds
  <2>2. y[k] = SpectrumOf(x, n)[k]
    BY DEF HasSpectrum
  <2> QED BY <2>1, <2>2 DEF SpectrumOf
<1> HIDE DEF X
<1>5. HalfSpectrum(n) - 1 = n \div 2 /\ Service!Half(n) - 1 = n \div 2
  BY DEF HalfSpectrum, Service!Half
<1>6. Service!Result("RealForward", n, d) =
        [k \in 0..(Service!Half(n) - 1) |-> Service!add(X[k], X[k])]
  BY <1>3 DEF Service!Result, r
<1>7. \A k : Service!add(X[k], X[k]) = add(X[k], X[k])
  BY SameOps
<1> QED BY <1>4, <1>5, <1>6, <1>7 DEF d

LEMMA InverseAnswer ==
  ASSUME NEW n \in Nat \ {0}, isPowerOfTwo(n), Divisor(n), NEW x, NEW y, HalfHeld(x, n),
         n >= 8 => x[0].imag = 0 /\ x[n \div 2].imag = 0,
         ScaledBack(n, InverseData(n, x), y)
  PROVE  Service!Result("RealInverse", n, [j \in 0..(HalfSpectrum(n) - 1) |-> x[j]])
           = [j \in 0..(n - 1) |-> FloatAt(y, j)]
<1> DEFINE d == [j \in 0..(HalfSpectrum(n) - 1) |-> x[j]]
           X == DFT(Whole(x, n), n, TRUE)
<1>1. \A j \in 0..(n - 1) : FloatAt(y, j) = X[j].real
  BY InverseDataFacts
<1>2. ASSUME NEW k \in Nat, 2 * k <= n PROVE d[k] = x[k]
  <2>1. k \in 0..(HalfSpectrum(n) - 1)
    BY <1>2, HalfBounds DEF HalfSpectrum
  <2> QED BY <2>1
<1> HIDE DEF d
<1>3. Service!Hermitian(d, n) = Whole(x, n)
  <2>1. ASSUME NEW k \in 0..(n - 1)
        PROVE  (IF k = 0 \/ 2 * k = n THEN [real |-> d[k].real, imag |-> 0]
                ELSE IF 2 * k < n THEN d[k] ELSE conjugate(d[n - k]))
             = (IF k = 0 \/ 2 * k = n THEN [real |-> x[k].real, imag |-> 0]
                ELSE IF 2 * k < n THEN x[k] ELSE conjugate(x[n - k]))
    <3>1. 2 * k <= n => d[k] = x[k]
      BY <1>2
    <3>2. ~(2 * k < n) => d[n - k] = x[n - k]
      BY <1>2
    <3>3. k = 0 \/ 2 * k = n \/ 2 * k < n => 2 * k <= n
      OBVIOUS
    <3> QED BY <3>1, <3>2, <3>3
  <2> QED BY <2>1, SameOps DEF Service!Hermitian, Whole
<1>4. Service!DFT(Service!Hermitian(d, n), n, TRUE) = X
  BY <1>3, SameDft
<1> HIDE DEF X
<1>5. Service!Result("RealInverse", n, d) = [j \in 0..(n - 1) |-> X[j].real]
  BY <1>4 DEF Service!Result
<1> QED BY <1>1, <1>5 DEF d

(* Where a call has come to its end, its output is what ckfft.h says.       *)
LEMMA EndOfWay ==
  ASSUME AnglesExact, NEW a \in Requests, Service!Valid(a), NEW x, NEW w, NEW y,
         InputGood(a, x), CallWay(a, << >>, x, w, y)
  PROVE  OutputOf(a, y) = Service!Result(a.op, a.count, InputOf(a, x))
<1> DEFINE n == a.count
<1>1. /\ a.context \in Contexts /\ n \in Nat \ {0} /\ isPowerOfTwo(n) /\ n <= MaxCount[a.context]
      /\ a.op \in {"RealForward", "RealInverse", "ComplexForward", "ComplexInverse"}
  BY ValidCall
<1>2. Divisor(n)
  <2>1. /\ MaxCount[a.context] \in Nat /\ isPowerOfTwo(MaxCount[a.context])
        /\ Divisor(MaxCount[a.context])
    BY <1>1, RequestAssumption DEF AnglesExact
  <2> HIDE DEF n
  <2> QED BY <1>1, <2>1, PowerDivisor
<1>3. \A z, b : Service!DFT(z, n, b) = DFT(z, n, b)
  BY SameDft
<1>4. CASE a.op = "ComplexForward"
  <2>1. HasResult(n, FALSE, x, y)
    BY <1>4 DEF CallWay, ComplexWay
  <2>2. OutputOf(a, y) = [j \in 0..(n - 1) |-> y[j]] /\ InputOf(a, x) = [j \in 0..(n - 1) |-> x[j]]
    BY <1>4 DEF OutputOf, InputOf, InputLen, OutputLen
  <2> HIDE DEF n
  <2>3. Service!Result(a.op, n, InputOf(a, x)) = DFT(InputOf(a, x), n, FALSE)
    BY <1>3, <1>4 DEF Service!Result
  <2>4. \A b \in BOOLEAN : HasResult(n, b, x, y) =>
          [j \in 0..(n - 1) |-> y[j]] = DFT([j \in 0..(n - 1) |-> x[j]], n, b)
    BY <1>1, ComplexAnswer
  <2> QED BY <2>1, <2>2, <2>3, <2>4 DEF n
<1>5. CASE a.op = "ComplexInverse"
  <2>1. HasResult(n, TRUE, x, y)
    BY <1>5 DEF CallWay, ComplexWay
  <2>2. OutputOf(a, y) = [j \in 0..(n - 1) |-> y[j]] /\ InputOf(a, x) = [j \in 0..(n - 1) |-> x[j]]
    BY <1>5 DEF OutputOf, InputOf, InputLen, OutputLen
  <2> HIDE DEF n
  <2>3. Service!Result(a.op, n, InputOf(a, x)) = DFT(InputOf(a, x), n, TRUE)
    BY <1>3, <1>5 DEF Service!Result
  <2>4. \A b \in BOOLEAN : HasResult(n, b, x, y) =>
          [j \in 0..(n - 1) |-> y[j]] = DFT([j \in 0..(n - 1) |-> x[j]], n, b)
    BY <1>1, ComplexAnswer
  <2> QED BY <2>1, <2>2, <2>3, <2>4 DEF n
<1>6. CASE a.op = "RealForward"
  <2>1. HasSpectrum(n, x, y)
    BY <1>6 DEF CallWay, ForwardWay
  <2>2. /\ OutputOf(a, y) = [j \in 0..(HalfSpectrum(n) - 1) |-> y[j]]
        /\ InputOf(a, x) = [j \in 0..(Pairs(n) - 1) |-> x[j]]
    BY <1>6 DEF OutputOf, InputOf, InputLen, OutputLen
  <2> HIDE DEF n
  <2> QED BY <1>1, <1>6, <2>1, <2>2, ForwardAnswer DEF n
<1>7. CASE a.op = "RealInverse"
  <2>1. ScaledBack(n, InverseData(n, x), y)
    BY <1>7 DEF CallWay, InverseWay
  <2>2. /\ OutputOf(a, y) = [j \in 0..(n - 1) |-> FloatAt(y, j)]
        /\ InputOf(a, x) = [j \in 0..(HalfSpectrum(n) - 1) |-> x[j]]
    BY <1>7 DEF OutputOf, InputOf, InputLen
  <2>3. HalfHeld(x, n) /\ (n >= 8 => x[0].imag = 0 /\ x[n \div 2].imag = 0)
    BY <1>7 DEF InputGood
  <2> HIDE DEF n
  <2> QED BY <1>1, <1>2, <1>7, <2>1, <2>2, <2>3, InverseAnswer DEF n
<1> QED BY <1>1, <1>4, <1>5, <1>6, <1>7

(* What the transforms below need of a call that is allowed.                *)
LEMMA ValidJob ==
  ASSUME IInv, AnglesExact, NeonBuilt, OwnTmpBuf, NEW a \in Requests, Service!Valid(a)
  PROVE  /\ context[a.context].neon => ArmNeon
         /\ Divisor(context[a.context].maxCount)
         /\ a.op = "RealForward" => ForwardJob(RealArgs(a))
         /\ a.op = "RealInverse" => InverseJob(RealArgs(a))
<1> DEFINE c == a.context
           n == a.count
<1>1. /\ c \in Contexts /\ a.input \in Buffers /\ a.output \in Buffers
      /\ a.input # a.output
      /\ n \in Nat \ {0} /\ isPowerOfTwo(n) /\ n <= MaxCount[c]
      /\ InputLen(a) <= BufLen[a.input] /\ OutputLen(a) <= BufLen[a.output]
      /\ a.op = "RealInverse" =>
           a.tmpBuf \in Buffers /\ HalfSpectrum(n) <= BufLen[a.tmpBuf]
  BY ValidCall
<1>2. ContextsOK
  BY DEF IInv
<1>3. /\ MaxCount[c] \in Nat /\ context[c].maxCount = MaxCount[c]
      /\ context[c].fwdExpTable # NULL => HasTable(c, FALSE)
      /\ context[c].invExpTable # NULL => HasTable(c, TRUE)
  <2> HIDE DEF c
  <2> QED BY <1>1, <1>2, ContextFacts
<1>4. context[c][TableOfOp(a.op)] # NULL
  <2>1. (IF Service!IsForward(a.op) THEN "forward" ELSE "inverse") \in Direction[c]
    BY DEF Service!Valid
  <2> HIDE DEF c
  <2> QED BY <1>1, <1>2, <2>1, TablesOfContext
<1>5. context[c].neon => ArmNeon
  <2>1. context[c].neon = (isNeonSupported /\ c \notin NoNeon)
    BY <1>1, <1>2 DEF ContextsOK, NewContext
  <2> QED BY <1>1, <2>1 DEF NeonBuilt
<1>6. Divisor(MaxCount[c]) /\ isPowerOfTwo(MaxCount[c])
  BY <1>1, RequestAssumption DEF AnglesExact
<1>7. Divisor(n)
  <2> HIDE DEF n, c
  <2> QED BY <1>1, <1>3, <1>6, PowerDivisor
<1>8. ASSUME a.op = "RealForward" PROVE ForwardJob(RealArgs(a))
  <2>1. HasTable(c, FALSE)
    BY <1>3, <1>4, <1>8 DEF TableOfOp
  <2>2. Pairs(n) <= BufLen[a.input] /\ HalfSpectrum(n) <= BufLen[a.output]
    BY <1>1, <1>8 DEF InputLen, OutputLen
  <2> QED BY <1>1, <1>3, <1>6, <1>7, <1>8, <2>1, <2>2 DEF ForwardJob, RealArgs
<1>9. ASSUME a.op = "RealInverse" PROVE InverseJob(RealArgs(a))
  <2>1. HasTable(c, TRUE)
    BY <1>3, <1>4, <1>9 DEF TableOfOp
  <2>2. HalfSpectrum(n) <= BufLen[a.input] /\ Pairs(n) <= BufLen[a.output]
    BY <1>1, <1>9 DEF InputLen, OutputLen
  <2>3. a.tmpBuf # NULL
    BY <1>9 DEF Service!Valid
  <2>4. a.tmpBuf # a.input /\ a.tmpBuf # a.output
    BY <1>9, <2>3 DEF OwnTmpBuf
  <2> QED BY <1>1, <1>3, <1>6, <1>7, <1>9, <2>1, <2>2, <2>4 DEF InverseJob, RealArgs
<1> QED BY <1>3, <1>5, <1>6, <1>8, <1>9

-----------------------------------------------------------------------------
(* A complex transform begins.                                              *)
LEMMA ComplexStart ==
  ASSUME MemOK, NEW c, NEW src \in Buffers, NEW dst \in Buffers, src # dst,
         NEW count, count <= BufLen[src], count <= BufLen[dst], NEW inverse \in BOOLEAN,
         context[c].neon => ArmNeon, NEW t, t \in DOMAIN stack, stack[t] = << >>,
         fft(t, c, src, dst, count, inverse)
  PROVE  ComplexWay(stack'[t], count, inverse, mem'[src], mem'[dst])
<1>1. CASE count \in {1, 2}
  <2>1. mem' = FftTrivial(src, dst, count) /\ UNCHANGED stack
    BY <1>1 DEF fft
  <2>2. HasResult(count, inverse, mem'[src], mem'[dst])
    BY <1>1, <2>1, TrivialRight
  <2> QED BY <2>1, <2>2 DEF ComplexWay
<1>2. CASE count \notin {1, 2}
  <2>1. PICK fn \in {"fft_default", "fft_neon"} :
          stack' = [stack EXCEPT ![t] =
                      Append(@, FftCall(fn, c, src, dst, count, inverse))]
    <3>1. CASE context[c].neon
      <4>1. ArmNeon /\ fft_neon(t, c, src, dst, count, inverse)
        BY <1>2, <3>1 DEF fft
      <4> QED BY <4>1 DEF fft_neon
    <3>2. CASE ~context[c].neon
      <4>1. fft_default(t, c, src, dst, count, inverse)
        BY <1>2, <3>2 DEF fft
      <4> QED BY <4>1 DEF fft_default
    <3> QED BY <3>1, <3>2
  <2> DEFINE f == FftCall(fn, c, src, dst, count, inverse)
  <2>2. stack'[t] = Append(<< >>, f)
    BY <2>1
  <2>3. Append(<< >>, f) = <<f>> /\ <<f>> # << >>
    <3> HIDE DEF f
    <3>1. Len(<<f>>) = 1 /\ Len(<< >>) = 0
      OBVIOUS
    <3>2. Append(<< >>, f) = <<f>>
      OBVIOUS
    <3> QED BY <3>1, <3>2
  <2>4. Progress(<<f>>, 0, mem'[src], mem'[dst])
    <3>1. Len(<<f>>) = 0 + 1 /\ <<f>>[0 + 1] = f
      OBVIOUS
    <3> QED BY <3>1, ProgressStart
  <2> HIDE DEF f
  <2> QED BY <2>2, <2>3, <2>4 DEF ComplexWay
<1> QED BY <1>1, <1>2

(* A step of a complex transform brings it nearer to its result.            *)
LEMMA ComplexStep ==
  ASSUME MemOK, NEW c, Divisor(context[c].maxCount), NEW src \in Buffers, NEW dst \in Buffers,
         src # dst, NEW count, NEW inverse \in BOOLEAN,
         NEW a, a = [context |-> c, src |-> src, dst |-> dst, count |-> count,
                     inverse |-> inverse],
         NEW t, t \in DOMAIN stack, NEW D, stack[t] \in Seq(D),
         \A f \in D : f \in OKFrames /\ Serves(f) = a,
         NEW T, stack'[t] \in Seq(T),
         ComplexWay(stack[t], count, inverse, mem[src], mem[dst]), FftRealStep(t)
  PROVE  ComplexWay(stack'[t], count, inverse, mem[src], mem'[dst])
<1> DEFINE s == stack[t]
           r == stack'[t]
           x == mem[src]
           y == mem'[dst]
           f == Top(t)
<1>1. s # << >> /\ (FftStep(t) \/ RealDefaultStep(t) \/ RealNeonStep(t))
  BY FftStepRuns, RealStepRuns DEF FftRealStep
<1>2. Progress(s, 0, x, mem[dst])
  BY <1>1 DEF ComplexWay
<1>3. \A d \in 1..Len(s) : s[d] \in OKFrames /\ Serves(s[d]) = a
  OBVIOUS
<1>4. \A d \in 1..Len(s) : s[d].src = src /\ s[d].dst = dst /\ ExactTable(s[d])
  <2> TAKE d \in 1..Len(s)
  <2> DEFINE g == s[d]
  <2>1. Serves(g) = a
    BY <1>3
  <2> HIDE DEF g
  <2>2. g.context = c /\ g.src = src /\ g.dst = dst
    BY <2>1 DEF Serves
  <2> QED BY <2>2 DEF ExactTable, g
<1>5. s \in Seq(OKFrames) /\ Len(s) \in Nat \ {0}
  BY <1>1
<1>6. Working(OKFrames, t, 0, src, dst)
  <2>1. (0 + 1)..Len(s) = 1..Len(s) /\ 0 \in 0..Len(s)
    BY <1>5
  <2>2. Recursion(OKFrames, s, 0)
    <3> HIDE DEF s
    <3> QED BY <1>3, <1>5, <2>1 DEF Recursion
  <2> QED BY <1>2, <1>4, <2>1, <2>2 DEF Working
<1>7. Len(s) > 0
  BY <1>5
<1>8. f \in OKFrames /\ f = s[Len(s)]
  BY <1>6, <1>7, TopWorking
<1>9. FftStep(t)
  <2>1. f.fn \in {"fft_default", "fft_neon"}
    BY <1>8, FrameKinds
  <2>2. ~(RealDefaultStep(t) \/ RealNeonStep(t))
    BY <2>1, RealStepRuns DEF ForwardFns, InverseFns
  <2> QED BY <1>1, <2>2
<1>10. After(t, 0, x, y)
  BY <1>6, <1>7, <1>9, FftStepResult
<1>11. /\ Len(r) = 0 => FirstCall(f) /\ Done(f, x, y)
       /\ Len(r) # 0 => Progress(r, 0, x, y)
  BY <1>8, <1>10 DEF After, AfterStack
<1>12. CASE r = << >>
  <2>1. FirstCall(f) /\ Done(f, x, y)
    <3>1. Len(r) = 0
      BY <1>12
    <3> QED BY <1>11, <3>1
  <2>2. Serves(f) = a
    BY <1>3, <1>5, <1>8
  <2> HIDE DEF f, x, y
  <2>3. f.inverse = inverse /\ Total(f) = count
    BY <2>2 DEF Serves
  <2>4. f.count = count
    BY <1>8, <2>1, <2>3, FirstTotal
  <2>5. HasResult(f.count, f.inverse, x, y)
    BY <1>8, <2>1, FirstResult
  <2>6. HasResult(count, inverse, x, y)
    BY <2>3, <2>4, <2>5
  <2>7. ComplexWay(r, count, inverse, x, y)
    BY <1>12, <2>6 DEF ComplexWay
  <2> QED BY <2>7 DEF x, y
<1>13. CASE r # << >>
  <2>1. Len(r) # 0
    BY <1>13
  <2>2. ComplexWay(r, count, inverse, x, y)
    BY <1>11, <1>13, <2>1 DEF ComplexWay
  <2> QED BY <2>2
<1> QED BY <1>12, <1>13

-----------------------------------------------------------------------------
(***************************************************************************)
(* The inductive invariant of the refinement: no thread writes a buffer     *)
(* that another one uses; a buffer that no call writes is as it was in the  *)
(* beginning; a call that will return 1 was allowed, and is on its way to   *)
(* the result or has it.                                                    *)
(***************************************************************************)
Separate ==
  \A t, u \in Threads : t # u /\ call[t] # NoCall /\ call[u] # NoCall =>
    Apart(call[t], call[u])

InputsKept ==
  \E m \in InitMem : \A b \in Buffers :
    \/ mem[b] = m[b]
    \/ \E u \in Threads : call[u] # NoCall /\ b \in {call[u].output, call[u].tmpBuf}

Results ==
  \A t \in Threads : ret[t] = 1 =>
    /\ Service!Valid(call[t])
    /\ CallWay(call[t], stack[t], mem[call[t].input], mem[call[t].tmpBuf],
               mem[call[t].output])

RInv == IInv /\ Separate /\ InputsKept /\ Results

Assumed == NoIntMin /\ AnglesExact /\ NeonBuilt /\ OwnTmpBuf /\ SpectraGiven

(* The buffers that a call writes.                                          *)
Outputs(a) == IF a.op = "RealInverse" THEN {a.output, a.tmpBuf} ELSE {a.output}

(***************************************************************************)
(* What every step of a transform is, the first one included: it brings a   *)
(* call that was allowed nearer to its result.                              *)
(***************************************************************************)
Works(t) ==
  /\ call[t] \in Requests /\ call[t] # NoCall /\ Service!Valid(call[t])
  /\ IInv' /\ UNCHANGED call /\ ret'[t] = 1
  /\ \A u \in Threads \ {t} : ret'[u] = ret[u] /\ stack'[u] = stack[u]
  /\ \E b \in Outputs(call[t]) : \E R : Stores(b, R)
  /\ CallWay(call[t], stack'[t], mem[call[t].input], mem'[call[t].tmpBuf],
             mem'[call[t].output])

LEMMA InputIsGood ==
  ASSUME RInv, Assumed, NEW t \in Threads, call[t] \in Requests, call[t] # NoCall,
         Service!Valid(call[t])
  PROVE  InputGood(call[t], mem[call[t].input])
<1> DEFINE a == call[t]
           n == a.count
           x == mem[a.input]
<1>1. /\ a.input \in Buffers /\ a.output \in Buffers /\ a.input # a.output
      /\ n \in Nat \ {0} /\ InputLen(a) <= BufLen[a.input]
      /\ a.op = "RealInverse" => a.tmpBuf \in Buffers
  BY ValidCall
<1>2. SUFFICES ASSUME a.op = "RealInverse"
               PROVE  HalfHeld(x, n) /\ (n >= 8 => x[0].imag = 0 /\ x[n \div 2].imag = 0)
  BY DEF InputGood
<1>3. HalfHeld(x, n)
  <2>1. x \in [0..(BufLen[a.input] - 1) -> CkFftComplex] /\ BufLen[a.input] \in Nat
    BY <1>1, BufferAssumption DEF RInv, IInv, MemOK, BufferType
  <2>2. n \div 2 + 1 <= BufLen[a.input] /\ n \div 2 \in Nat
    BY <1>1, <1>2 DEF InputLen, HalfSpectrum
  <2> HIDE DEF x, n, a
  <2>3. \A k \in 0..(n \div 2) : k \in 0..(BufLen[a.input] - 1)
    BY <2>1, <2>2
  <2> QED BY <2>1, <2>3 DEF HalfHeld
<1>4. PICK m \in InitMem : \A b \in Buffers :
        \/ mem[b] = m[b]
        \/ \E u \in Threads : call[u] # NoCall /\ b \in {call[u].output, call[u].tmpBuf}
  BY DEF RInv, InputsKept
<1>5. ASSUME NEW u \in Threads, call[u] # NoCall
      PROVE  a.input \notin {call[u].output, call[u].tmpBuf}
  <2>1. CASE u = t
    <3>1. a.tmpBuf # NULL
      BY <1>1, <1>2, RequestAssumption
    <3>2. a.tmpBuf # a.input
      BY <1>2, <3>1 DEF Assumed, OwnTmpBuf
    <3> QED BY <1>1, <2>1, <3>2
  <2>2. CASE u # t
    <3>1. Apart(call[u], a)
      BY <1>5, <2>2 DEF RInv, Separate
    <3>2. a.input # NULL
      BY <1>1, RequestAssumption
    <3> HIDE DEF a
    <3> QED BY <3>1, <3>2 DEF Apart
  <2> QED BY <2>1, <2>2
<1>6. x = m[a.input]
  BY <1>1, <1>4, <1>5
<1>7. n >= 8 => m[a.input][0].imag = 0 /\ m[a.input][n \div 2].imag = 0
  <2>1. a.input # NULL
    BY <1>1, RequestAssumption
  <2> QED BY <1>2, <2>1 DEF Assumed, SpectraGiven
<1> QED BY <1>3, <1>6, <1>7

(* The buffer that a step writes is none that another call uses.            *)
LEMMA OtherBuffers ==
  ASSUME RInv, NEW t \in Threads, call[t] # NoCall, NEW b \in Outputs(call[t]), b \in Buffers,
         NEW R, Stores(b, R), NEW u \in Threads, u # t, call[u] # NoCall
  PROVE  \A z \in {call[u].input, call[u].output, call[u].tmpBuf} :
           z \in Buffers => mem'[z] = mem[z]
<1>1. Apart(call[t], call[u]) /\ MemOK
  BY DEF RInv, Separate, IInv
<1>2. b \in {call[t].output, call[t].tmpBuf} /\ b # NULL
  BY RequestAssumption DEF Outputs
<1>3. b \notin {call[u].input, call[u].output, call[u].tmpBuf}
  BY <1>1, <1>2 DEF Apart
<1> QED BY <1>1, <1>3, StoresKeepsMem

(* Nor is it the input of its own call.                                     *)
LEMMA OwnInput ==
  ASSUME RInv, Assumed, NEW t \in Threads, call[t] \in Requests, Service!Valid(call[t]),
         NEW b \in Outputs(call[t]), NEW R, Stores(b, R)
  PROVE  b \in Buffers /\ mem'[call[t].input] = mem[call[t].input]
<1> DEFINE a == call[t]
<1>1. /\ a.input \in Buffers /\ a.output \in Buffers /\ a.input # a.output
      /\ a.op = "RealInverse" => a.tmpBuf \in Buffers
  BY ValidCall
<1>2. b \in Buffers /\ b # a.input
  <2>1. a.op = "RealInverse" => a.tmpBuf # a.input
    <3>1. a.op = "RealInverse" => a.tmpBuf # NULL
      BY <1>1, RequestAssumption
    <3> QED BY <3>1 DEF Assumed, OwnTmpBuf
  <2> QED BY <1>1, <2>1 DEF Outputs
<1>3. MemOK
  BY DEF RInv, IInv
<1> HIDE DEF a
<1>4. mem'[a.input] = mem[a.input]
  BY <1>1, <1>2, <1>3, StoresKeepsMem
<1> QED BY <1>2, <1>4 DEF a

(* A way does not depend on a temporary buffer that the call does not use.  *)
LEMMA WayWithout ==
  ASSUME NEW a, a.op # "RealInverse", NEW s, NEW x, NEW w, NEW v, NEW y,
         CallWay(a, s, x, w, y)
  PROVE  CallWay(a, s, x, v, y)
BY DEF CallWay

(* The steps of a transform keep the invariant.                             *)
LEMMA WorksKeeps ==
  ASSUME RInv, Assumed, NEW t \in Threads, Works(t)
  PROVE  RInv'
<1>1. /\ call[t] \in Requests /\ call[t] # NoCall /\ Service!Valid(call[t])
      /\ IInv' /\ UNCHANGED call /\ ret'[t] = 1
      /\ \A u \in Threads \ {t} : ret'[u] = ret[u] /\ stack'[u] = stack[u]
      /\ CallWay(call[t], stack'[t], mem[call[t].input], mem'[call[t].tmpBuf],
                 mem'[call[t].output])
  BY DEF Works
<1>2. PICK b \in Outputs(call[t]) : \E R : Stores(b, R)
  BY DEF Works
<1>3. PICK R : Stores(b, R)
  BY <1>2
<1>4. b \in Buffers /\ mem'[call[t].input] = mem[call[t].input]
  BY <1>1, <1>3, OwnInput
<1>5. IInv /\ MemOK /\ Separate /\ InputsKept /\ Results
  BY DEF RInv, IInv
<1>6. Separate'
  BY <1>1, <1>5 DEF Separate, Apart
<1>7. InputsKept'
  <2>1. PICK m \in InitMem : \A d \in Buffers :
          \/ mem[d] = m[d]
          \/ \E u \in Threads : call[u] # NoCall /\ d \in {call[u].output, call[u].tmpBuf}
    BY <1>5 DEF InputsKept
  <2>2. ASSUME NEW d \in Buffers
        PROVE  \/ mem'[d] = m[d]
               \/ \E u \in Threads : call'[u] # NoCall /\ d \in {call'[u].output, call'[u].tmpBuf}
    <3>1. CASE d = b
      BY <1>1, <3>1 DEF Outputs
    <3>2. CASE d # b
      <4>1. mem'[d] = mem[d]
        BY <1>3, <1>4, <1>5, <3>2, StoresKeepsMem
      <4> QED BY <1>1, <2>1, <4>1
    <3> QED BY <3>1, <3>2
  <2> QED BY <2>2 DEF InputsKept
<1>8. ASSUME NEW u \in Threads, ret'[u] = 1
      PROVE  /\ Service!Valid(call'[u])
             /\ CallWay(call'[u], stack'[u], mem'[call'[u].input], mem'[call'[u].tmpBuf],
                        mem'[call'[u].output])
  <2>1. CASE u = t
    BY <1>1, <1>4, <2>1
  <2>2. CASE u # t
    <3> DEFINE c == call[u]
    <3>1. ret[u] = 1 /\ stack'[u] = stack[u] /\ call'[u] = c
      BY <1>1, <1>8, <2>2
    <3>2. Service!Valid(c) /\ CallWay(c, stack[u], mem[c.input], mem[c.tmpBuf], mem[c.output])
      BY <1>5, <3>1 DEF Results
    <3>3. c # NoCall /\ c \in Requests
      <4>1. NULL # 1
        BY RequestAssumption
      <4> QED BY <1>5, <3>1, <4>1 DEF IInv, CallsOK
    <3>4. /\ c.input \in Buffers /\ c.output \in Buffers
          /\ c.op = "RealInverse" => c.tmpBuf \in Buffers
      BY <3>2, <3>3, ValidCall
    <3>5. \A z \in {c.input, c.output, c.tmpBuf} : z \in Buffers => mem'[z] = mem[z]
      BY <1>1, <1>3, <1>4, <2>2, <3>3, OtherBuffers
    <3> HIDE DEF c
    <3>6. mem'[c.input] = mem[c.input] /\ mem'[c.output] = mem[c.output]
          /\ (c.op = "RealInverse" => mem'[c.tmpBuf] = mem[c.tmpBuf])
      BY <3>4, <3>5
    <3>7. CallWay(c, stack[u], mem'[c.input], mem'[c.tmpBuf], mem'[c.output])
      <4>1. CASE c.op = "RealInverse"
        BY <3>2, <3>6, <4>1
      <4>2. CASE c.op # "RealInverse"
        <5> DEFINE v == mem'[c.tmpBuf]
                   w == mem[c.tmpBuf]
        <5> HIDE DEF v, w
        <5>1. CallWay(c, stack[u], mem'[c.input], w, mem'[c.output])
          BY <3>2, <3>6 DEF w
        <5>2. CallWay(c, stack[u], mem'[c.input], v, mem'[c.output])
          BY <4>2, <5>1, WayWithout
        <5> QED BY <5>2 DEF v
      <4> QED BY <4>1, <4>2
    <3> QED BY <3>1, <3>2, <3>7
  <2> QED BY <2>1, <2>2
<1>9. Results'
  BY <1>8 DEF Results
<1> QED BY <1>1, <1>6, <1>7, <1>9 DEF RInv

-----------------------------------------------------------------------------
(* What the accepted calls have in common.                                  *)
LEMMA AcceptedWorks ==
  ASSUME RInv, NEW t \in Threads, NEW a \in Requests, a = call[t], a # NoCall,
         Service!Valid(a), IInv', WillReturn1(t), StackOf(t, CallFrames(a)),
         NEW R, Stores(a.output, R),
         CallWay(a, stack'[t], mem[a.input], mem'[a.tmpBuf], mem'[a.output])
  PROVE  Works(t)
<1>1. /\ ret' = [ret EXCEPT ![t] = 1] /\ UNCHANGED call
      /\ ret \in [Threads -> {NULL, 0, 1}]
      /\ stack \in [Threads -> Seq(Frame \cup RealFrame)]
  BY DEF WillReturn1, RInv, IInv, CallsOK, StacksOK
<1>2. ret'[t] = 1 /\ \A u \in Threads \ {t} : ret'[u] = ret[u]
  BY <1>1
<1>3. \A u \in Threads \ {t} : stack'[u] = stack[u]
  BY <1>1 DEF StackOf
<1>4. a.output \in Outputs(a)
  BY DEF Outputs
<1> QED BY <1>1, <1>2, <1>3, <1>4 DEF Works

(* The facts about a call that is accepted.                                 *)
LEMMA AcceptedFacts ==
  ASSUME RInv, Assumed, NEW t \in Threads, NEW a \in Requests, a = call[t], a # NoCall,
         stack[t] = << >>, Accepts(a)
  PROVE  /\ IInv /\ NoIntMin /\ MemOK /\ Service!Valid(a) /\ t \in DOMAIN stack
         /\ a.context \in Contexts /\ a.input \in Buffers /\ a.output \in Buffers
         /\ a.input # a.output
         /\ a.count \in Nat \ {0} /\ isPowerOfTwo(a.count)
         /\ InputLen(a) <= BufLen[a.input] /\ OutputLen(a) <= BufLen[a.output]
         /\ a.op = "RealInverse" => a.tmpBuf \in Buffers
         /\ context[a.context].neon => ArmNeon
         /\ a.op = "RealForward" => ForwardJob(RealArgs(a))
         /\ a.op = "RealInverse" => InverseJob(RealArgs(a))
<1>1. IInv /\ NoIntMin /\ AnglesExact /\ NeonBuilt /\ OwnTmpBuf
  BY DEF RInv, Assumed
<1>2. Service!Valid(a)
  BY <1>1, GuardsAccept
<1>3. MemOK /\ t \in DOMAIN stack
  BY <1>1 DEF IInv, StacksOK
<1>4. /\ context[a.context].neon => ArmNeon
      /\ a.op = "RealForward" => ForwardJob(RealArgs(a))
      /\ a.op = "RealInverse" => InverseJob(RealArgs(a))
  BY <1>1, <1>2, ValidJob
<1> QED BY <1>1, <1>2, <1>3, <1>4, ValidCall

LEMMA ForwardAcceptedWorks ==
  ASSUME RInv, Assumed, NEW t \in Threads, CkFftRealForward(t), WillReturn1(t),
         NEW a \in Requests, a = call[t], a # NoCall, a.op = "RealForward",
         stack[t] = << >>, Accepts(a),
         fft_real(t, a.context, a.input, a.output, a.count)
  PROVE  Works(t)
<1>1. /\ IInv /\ NoIntMin /\ MemOK /\ Service!Valid(a) /\ t \in DOMAIN stack
      /\ a.input \in Buffers /\ a.output \in Buffers /\ a.input # a.output
      /\ (context[a.context].neon => ArmNeon) /\ ForwardJob(RealArgs(a))
  BY AcceptedFacts
<1>2. /\ GoodContext(a.context, TableOfOp(a.op)) /\ GoodCount(a) /\ GoodBuffers(a)
  BY DEF Accepts
<1>3. /\ StackOf(t, CallFrames(a)) /\ Stores(a.output, RealShare(a.count))
  BY <1>1, <1>2, ForwardAccepted
<1>4. IInv'
  BY <1>1, RealForwardStep
<1>5. mem'[a.input] = mem[a.input]
  BY <1>1, <1>3, StoresKeepsMem
<1> DEFINE r == RealArgs(a)
<1>6. r.context = a.context /\ r.src = a.input /\ r.dst = a.output /\ r.count = a.count
  BY DEF RealArgs
<1> HIDE DEF r
<1>7. ForwardWay(stack'[t], a.count, mem'[a.input], mem'[a.output])
  <2>1. ForwardJob(r) /\ fft_real(t, r.context, r.src, r.dst, r.count)
        /\ (context[r.context].neon => ArmNeon)
    BY <1>1, <1>6 DEF r
  <2>2. ForwardWay(stack'[t], r.count, mem'[r.src], mem'[r.dst])
    BY <1>1, <2>1, ForwardStart
  <2> QED BY <1>6, <2>2
<1>8. CallWay(a, stack'[t], mem[a.input], mem'[a.tmpBuf], mem'[a.output])
  BY <1>5, <1>7 DEF CallWay
<1> QED BY <1>1, <1>3, <1>4, <1>8, AcceptedWorks

LEMMA InverseAcceptedWorks ==
  ASSUME RInv, Assumed, NEW t \in Threads, CkFftRealInverse(t), WillReturn1(t),
         NEW a \in Requests, a = call[t], a # NoCall, a.op = "RealInverse",
         stack[t] = << >>, Accepts(a),
         fft_real_inverse(t, a.context, a.input, a.output, a.count, a.tmpBuf)
  PROVE  Works(t)
<1>1. /\ IInv /\ NoIntMin /\ MemOK /\ Service!Valid(a) /\ t \in DOMAIN stack
      /\ a.context \in Contexts /\ a.input \in Buffers /\ a.output \in Buffers
      /\ a.tmpBuf \in Buffers /\ a.count \in Nat \ {0} /\ isPowerOfTwo(a.count)
      /\ (context[a.context].neon => ArmNeon) /\ InverseJob(RealArgs(a))
  BY AcceptedFacts
<1>2. /\ GoodContext(a.context, TableOfOp(a.op)) /\ GoodCount(a) /\ GoodBuffers(a)
      /\ a.tmpBuf # NULL
  BY DEF Accepts
<1>3. /\ StackOf(t, CallFrames(a)) /\ Stores(a.output, 0..(Pairs(a.count) - 1))
  BY <1>1, <1>2, InverseAccepted
<1>4. IInv'
  BY <1>1, RealInverseStep
<1> DEFINE r == RealArgs(a)
           n == a.count
           x == mem[a.input]
           d == InverseData(n, x)
<1>5. /\ r.context = a.context /\ r.src = a.input /\ r.dst = a.output /\ r.count = n
      /\ r.tmpBuf = a.tmpBuf
  BY DEF RealArgs
<1>6. RealData(n, d) /\ SpectrumGiven(n, d, x)
  <2>1. InputGood(a, x)
    BY <1>1, InputIsGood
  <2>2. HalfHeld(x, n) /\ (n >= 8 => x[0].imag = 0 /\ x[n \div 2].imag = 0)
    BY <2>1 DEF InputGood
  <2>3. Divisor(n)
    BY <1>1, <1>5 DEF InverseJob
  <2> HIDE DEF n, x
  <2> QED BY <1>1, <2>2, <2>3, InverseDataFacts DEF n
<1> HIDE DEF d
<1>7. InverseWay(stack'[t], n, d, x, mem'[a.tmpBuf], mem'[a.output])
  <2> HIDE DEF r
  <2>1. /\ InverseJob(r) /\ fft_real_inverse(t, r.context, r.src, r.dst, r.count, r.tmpBuf)
        /\ (context[r.context].neon => ArmNeon) /\ r.count = n /\ mem[r.src] = x
    BY <1>1, <1>5 DEF r
  <2> HIDE DEF n, x
  <2>2. fft_real_inverse(t, r.context, r.src, r.dst, n, r.tmpBuf) /\ n = r.count /\ x = mem[r.src]
    BY <2>1
  <2>3. InverseWay(stack'[t], n, d, x, mem'[r.tmpBuf], mem'[r.dst])
    BY <1>1, <1>6, <2>1, <2>2, InverseStart
  <2> QED BY <1>5, <2>3
<1>8. CallWay(a, stack'[t], mem[a.input], mem'[a.tmpBuf], mem'[a.output])
  BY <1>7 DEF CallWay, d
<1> QED BY <1>1, <1>3, <1>4, <1>8, AcceptedWorks

LEMMA ComplexAcceptedWorks ==
  ASSUME RInv, Assumed, NEW t \in Threads, WillReturn1(t), IInv',
         NEW a \in Requests, a = call[t], a # NoCall, NEW inverse \in BOOLEAN,
         a.op = IF inverse THEN "ComplexInverse" ELSE "ComplexForward",
         stack[t] = << >>, Accepts(a),
         fft(t, a.context, a.input, a.output, a.count, inverse)
  PROVE  Works(t)
<1>1. /\ IInv /\ NoIntMin /\ MemOK /\ Service!Valid(a) /\ t \in DOMAIN stack
      /\ a.input \in Buffers /\ a.output \in Buffers /\ a.input # a.output
      /\ InputLen(a) <= BufLen[a.input] /\ OutputLen(a) <= BufLen[a.output]
      /\ (context[a.context].neon => ArmNeon)
  BY AcceptedFacts
<1>2. /\ GoodContext(a.context, TableOfOp(a.op)) /\ GoodCount(a) /\ GoodBuffers(a)
  BY DEF Accepts
<1>3. /\ StackOf(t, CallFrames(a)) /\ Stores(a.output, 0..(a.count - 1))
  BY <1>1, <1>2, ComplexAccepted
<1>4. mem'[a.input] = mem[a.input]
  BY <1>1, <1>3, StoresKeepsMem
<1>5. a.count <= BufLen[a.input] /\ a.count <= BufLen[a.output]
  BY <1>1 DEF InputLen, OutputLen
<1>6. ComplexWay(stack'[t], a.count, inverse, mem'[a.input], mem'[a.output])
  BY <1>1, <1>5, ComplexStart
<1>7. CallWay(a, stack'[t], mem[a.input], mem'[a.tmpBuf], mem'[a.output])
  <2>1. CASE inverse = TRUE
    BY <1>4, <1>6, <2>1 DEF CallWay
  <2>2. CASE inverse = FALSE
    BY <1>4, <1>6, <2>2 DEF CallWay
  <2> QED BY <2>1, <2>2
<1> QED BY <1>1, <1>3, <1>7, AcceptedWorks

(* A step of a transform that runs.                                         *)
LEMMA TransformWorks ==
  ASSUME RInv, Assumed, NEW t \in Threads, FftRealStep(t), UNCHANGED <<call, ret>>
  PROVE  Works(t) /\ ret[t] = 1 /\ stack[t] # << >>
<1> DEFINE a == call[t]
           S == CallFrames(a)
<1>1. IInv /\ ContextsOK /\ MemOK /\ StacksOK /\ CallsOK /\ Results
  BY DEF RInv, IInv
<1>2. RealClosed(S) /\ stack[t] \in Seq(S) /\ (ret[t] # 1 => stack[t] = << >>)
      /\ stack \in [Threads -> Seq(Frame \cup RealFrame)]
  BY <1>1, CallFramesClosed DEF StacksOK
<1>3. /\ stack[t] # << >> /\ Top(t) \in S
      /\ StackOf(t, S) /\ UNCHANGED context
      /\ \/ /\ Top(t) \in OKFrames
            /\ Stores(Top(t).dst, 0..(Total(Top(t)) - 1))
         \/ /\ Top(t) \in OKRealFrames
            /\ Stores(Top(t).tmpBuf, 0..(Top(t).count \div 2))
  <2> HIDE DEF S
  <2> QED BY <1>1, <1>2, FftRealStepOK
<1>4. ret[t] = 1
  BY <1>2, <1>3
<1>5. /\ Service!Valid(a)
      /\ CallWay(a, stack[t], mem[a.input], mem[a.tmpBuf], mem[a.output])
  BY <1>1, <1>4 DEF Results
<1>6. a \in Requests /\ a # NoCall
  <2>1. NULL # 1
    BY RequestAssumption
  <2> QED BY <1>1, <1>4, <2>1 DEF CallsOK
<1>7. /\ a.input \in Buffers /\ a.output \in Buffers /\ a.input # a.output
      /\ a.op \in {"RealForward", "RealInverse", "ComplexForward", "ComplexInverse"}
      /\ a.count \in Nat \ {0} /\ isPowerOfTwo(a.count)
      /\ a.op = "RealInverse" => a.tmpBuf \in Buffers
  BY <1>5, <1>6, ValidCall
<1>8. /\ Divisor(context[a.context].maxCount)
      /\ a.op = "RealForward" => ForwardJob(RealArgs(a))
      /\ a.op = "RealInverse" => InverseJob(RealArgs(a))
  <2>1. AnglesExact /\ NeonBuilt /\ OwnTmpBuf
    BY DEF Assumed
  <2> QED BY <1>1, <1>5, <1>6, <2>1, ValidJob
<1>9. IInv'
  BY <1>1, TransformStep
<1>10. PICK s \in Seq(S) : stack'[t] = s /\ \A u \in Threads \ {t} : stack'[u] = stack[u]
  BY <1>2, <1>3 DEF StackOf
<1>11. t \in DOMAIN stack /\ stack'[t] \in Seq(S)
  BY <1>2, <1>10
<1>12. \E b \in Outputs(a) : \E R : Stores(b, R)
  <2>1. a.output \in Outputs(a) /\ (a.op = "RealInverse" => a.tmpBuf \in Outputs(a))
    BY DEF Outputs
  <2>2. CASE Top(t) \in OKFrames /\ Stores(Top(t).dst, 0..(Total(Top(t)) - 1))
    <3>1. Top(t).dst = a.output
      <4>1. CASE a.op \in {"RealForward", "RealInverse"}
        <5>1. Serves(Top(t)) = HalfFft(RealArgs(a))
          BY <1>3, <2>2, <4>1, RealFramesFields, FrameKinds DEF CallFrames, FramesOf
        <5> QED BY <5>1 DEF Serves, HalfFft, RealArgs
      <4>2. CASE a.op \notin {"RealForward", "RealInverse"}
        <5>1. Serves(Top(t)) = ComplexArgs(a)
          BY <1>3, <4>2 DEF CallFrames
        <5> QED BY <5>1 DEF Serves, ComplexArgs
      <4> QED BY <4>1, <4>2
    <3> QED BY <2>1, <2>2, <3>1
  <2>3. CASE Top(t) \in OKRealFrames /\ Stores(Top(t).tmpBuf, 0..(Top(t).count \div 2))
    <3>1. a.op \in {"RealForward", "RealInverse"} /\ Top(t).tmpBuf = RealArgs(a).tmpBuf
      <4>1. Top(t) \notin OKFrames
        BY <2>3, FrameKinds
      <4>2. a.op \in {"RealForward", "RealInverse"} /\ Top(t) \in RealFramesOf(RealArgs(a))
        BY <1>3, <4>1 DEF CallFrames, FramesOf
      <4> QED BY <4>2, RealFramesFields
    <3>2. Top(t).tmpBuf \in Outputs(a)
      BY <2>1, <3>1 DEF RealArgs
    <3> QED BY <2>3, <3>2
  <2> QED BY <1>3, <2>2, <2>3
<1>13. CASE a.op \in {"ComplexForward", "ComplexInverse"}
  <2> DEFINE n == a.count
             src == a.input
             dst == a.output
             A == ComplexArgs(a)
  <2>1. \A f \in S : f \in OKFrames /\ Serves(f) = A
    BY <1>13 DEF CallFrames
  <2>2. \A inverse \in BOOLEAN :
          A = [context |-> a.context, src |-> src, dst |-> dst, count |-> n,
               inverse |-> inverse]
          /\ ComplexWay(stack[t], n, inverse, mem[src], mem[dst]) =>
            ComplexWay(stack'[t], n, inverse, mem[src], mem'[dst])
    <3> HIDE DEF A, n, S, src, dst
    <3>1. src \in Buffers /\ dst \in Buffers /\ src # dst
      BY <1>7 DEF src, dst
    <3>2. /\ MemOK /\ Divisor(context[a.context].maxCount)
          /\ t \in DOMAIN stack /\ FftRealStep(t)
      BY <1>1, <1>8, <1>11
    <3> HIDE DEF a
    <3> SUFFICES ASSUME NEW inverse \in BOOLEAN,
                        A = [context |-> a.context, src |-> src, dst |-> dst, count |-> n,
                             inverse |-> inverse],
                        ComplexWay(stack[t], n, inverse, mem[src], mem[dst])
                 PROVE  ComplexWay(stack'[t], n, inverse, mem[src], mem'[dst])
      OBVIOUS
    <3>3. stack[t] \in Seq(S) /\ stack'[t] \in Seq(S)
          /\ \A f \in S : f \in OKFrames /\ Serves(f) = A
      BY <1>2, <1>11, <2>1
    <3> QED BY <3>1, <3>2, <3>3, ComplexStep
  <2>3. CASE a.op = "ComplexForward"
    <3>1. /\ A = [context |-> a.context, src |-> src, dst |-> dst, count |-> n,
                  inverse |-> FALSE]
          /\ ComplexWay(stack[t], n, FALSE, mem[src], mem[dst])
      BY <1>5, <2>3 DEF CallWay, ComplexArgs
    <3>2. ComplexWay(stack'[t], n, FALSE, mem[src], mem'[dst])
      <4> HIDE DEF A, n, src, dst
      <4> QED BY <2>2, <3>1
    <3>3. CallWay(a, stack'[t], mem[src], mem'[a.tmpBuf], mem'[dst])
      BY <2>3, <3>2 DEF CallWay
    <3> QED BY <1>4, <1>5, <1>6, <1>9, <1>10, <1>12, <1>3, <3>3 DEF Works
  <2>4. CASE a.op = "ComplexInverse"
    <3>1. /\ A = [context |-> a.context, src |-> src, dst |-> dst, count |-> n,
                  inverse |-> TRUE]
          /\ ComplexWay(stack[t], n, TRUE, mem[src], mem[dst])
      BY <1>5, <2>4 DEF CallWay, ComplexArgs
    <3>2. ComplexWay(stack'[t], n, TRUE, mem[src], mem'[dst])
      <4> HIDE DEF A, n, src, dst
      <4> QED BY <2>2, <3>1
    <3>3. CallWay(a, stack'[t], mem[src], mem'[a.tmpBuf], mem'[dst])
      BY <2>4, <3>2 DEF CallWay
    <3> QED BY <1>4, <1>5, <1>6, <1>9, <1>10, <1>12, <1>3, <3>3 DEF Works
  <2> QED BY <1>13, <2>3, <2>4
<1>14. CASE a.op \in {"RealForward", "RealInverse"}
  <2> DEFINE r == RealArgs(a)
  <2>1. /\ r.src = a.input /\ r.dst = a.output /\ r.count = a.count
        /\ (a.op = "RealInverse" => r.tmpBuf = a.tmpBuf)
    BY DEF RealArgs
  <2>2. stack[t] \in Seq(FramesOf(r))
    BY <1>2, <1>14 DEF CallFrames
  <2> HIDE DEF r, S
  <2>3. CallWay(a, stack'[t], mem[a.input], mem'[a.tmpBuf], mem'[a.output])
    <3>1. CASE a.op = "RealForward"
      <4>1. ForwardJob(r) /\ ForwardWay(stack[t], r.count, mem[r.src], mem[r.dst])
        BY <1>5, <1>8, <2>1, <3>1 DEF CallWay, r
      <4>2. ForwardWay(stack'[t], r.count, mem[r.src], mem'[r.dst])
        BY <1>1, <1>11, <2>2, <4>1, ForwardStep
      <4> QED BY <2>1, <3>1, <4>2 DEF CallWay
    <3>2. CASE a.op = "RealInverse"
      <4> DEFINE n == r.count
                 x == mem[r.src]
                 d == InverseData(n, x)
      <4>1. InverseJob(r) /\ InverseWay(stack[t], n, d, x, mem[r.tmpBuf], mem[r.dst])
        BY <1>5, <1>8, <2>1, <3>2 DEF CallWay, r
      <4>2. RealData(n, d)
        <5>1. InputGood(a, x)
          BY <1>5, <1>6, <2>1, InputIsGood
        <5>2. HalfHeld(x, n) /\ (n >= 8 => x[0].imag = 0 /\ x[n \div 2].imag = 0)
          BY <2>1, <3>2, <5>1 DEF InputGood
        <5>3. n \in Nat \ {0} /\ isPowerOfTwo(n) /\ Divisor(n)
          BY <1>7, <2>1, <4>1 DEF InverseJob
        <5> HIDE DEF n, x
        <5> QED BY <5>2, <5>3, InverseDataFacts
      <4> HIDE DEF d
      <4>3. InverseWay(stack'[t], n, d, x, mem'[r.tmpBuf], mem'[r.dst])
        BY <1>1, <1>11, <2>2, <4>1, <4>2, InverseStep
      <4> QED BY <2>1, <3>2, <4>3 DEF CallWay, d
    <3> QED BY <1>14, <3>1, <3>2
  <2> QED BY <1>4, <1>5, <1>6, <1>9, <1>10, <1>12, <1>3, <2>3 DEF Works
<1> QED BY <1>3, <1>4, <1>7, <1>13, <1>14

-----------------------------------------------------------------------------
(* A call that is refused.                                                  *)
Refuses(t) ==
  /\ call[t] \in Requests /\ call[t] # NoCall /\ ret[t] = NULL /\ stack[t] = << >>
  /\ ~Service!Valid(call[t]) /\ Return0(t)

(***************************************************************************)
(* Every step of the library refuses a call that was not allowed, or brings *)
(* one that was allowed nearer to its result.                               *)
(***************************************************************************)
LEMMA AnswerBegins ==
  ASSUME RInv, Assumed, NEW t \in Threads,
         \/ CkFftRealForward(t) \/ CkFftRealInverse(t)
         \/ CkFftComplexForward(t) \/ CkFftComplexInverse(t)
  PROVE  ~Returned(t) /\ (Refuses(t) \/ Works(t))
<1>1. IInv /\ NoIntMin
  BY DEF RInv, Assumed
<1>2. PICK op \in {"RealForward", "RealInverse", "ComplexForward", "ComplexInverse"} :
        /\ Called(t, op)
        /\ op = "RealForward" => CkFftRealForward(t)
        /\ op = "RealInverse" => CkFftRealInverse(t)
        /\ op = "ComplexForward" => CkFftComplexForward(t)
        /\ op = "ComplexInverse" => CkFftComplexInverse(t)
  BY DEF CkFftRealForward, CkFftRealInverse, CkFftComplexForward, CkFftComplexInverse
<1>3. /\ call[t] \in Requests /\ call[t] # NoCall /\ call[t].op = op
      /\ ret[t] = NULL /\ stack[t] = << >>
  BY <1>1, <1>2, PendingCall
<1>4. ASSUME ~Accepts(call[t]), Return0(t) PROVE Refuses(t)
  BY <1>1, <1>3, <1>4, GuardsAccept DEF Refuses
<1>5. CASE op = "RealForward"
  <2>1. \/ ~Accepts(call[t]) /\ Return0(t)
        \/ /\ Accepts(call[t]) /\ WillReturn1(t)
           /\ fft_real(t, call[t].context, call[t].input, call[t].output, call[t].count)
    BY <1>2, <1>3, <1>5 DEF CkFftRealForward, Accepts, TableOfOp
  <2>2. CASE Accepts(call[t]) /\ WillReturn1(t)
             /\ fft_real(t, call[t].context, call[t].input, call[t].output, call[t].count)
    <3>1. CkFftRealForward(t)
      BY <1>2, <1>5
    <3>2. Works(t)
      BY <1>3, <1>5, <2>2, <3>1, ForwardAcceptedWorks
    <3> QED BY <1>3, <3>2 DEF Returned
  <2> QED BY <1>3, <1>4, <2>1, <2>2 DEF Returned
<1>6. CASE op = "RealInverse"
  <2>1. \/ ~Accepts(call[t]) /\ Return0(t)
        \/ /\ Accepts(call[t]) /\ WillReturn1(t)
           /\ fft_real_inverse(t, call[t].context, call[t].input, call[t].output,
                               call[t].count, call[t].tmpBuf)
    BY <1>2, <1>3, <1>6 DEF CkFftRealInverse, Accepts, TableOfOp
  <2>2. CASE Accepts(call[t]) /\ WillReturn1(t)
             /\ fft_real_inverse(t, call[t].context, call[t].input, call[t].output,
                                 call[t].count, call[t].tmpBuf)
    <3>1. CkFftRealInverse(t)
      BY <1>2, <1>6
    <3>2. Works(t)
      BY <1>3, <1>6, <2>2, <3>1, InverseAcceptedWorks
    <3> QED BY <1>3, <3>2 DEF Returned
  <2> QED BY <1>3, <1>4, <2>1, <2>2 DEF Returned
<1>7. CASE op \in {"ComplexForward", "ComplexInverse"}
  <2>1. \/ ~Accepts(call[t]) /\ Return0(t)
        \/ /\ Accepts(call[t]) /\ WillReturn1(t)
           /\ \E inverse \in BOOLEAN :
                /\ call[t].op = IF inverse THEN "ComplexInverse" ELSE "ComplexForward"
                /\ fft(t, call[t].context, call[t].input, call[t].output, call[t].count,
                       inverse)
    <3>1. CASE op = "ComplexForward"
      <4>1. \/ ~Accepts(call[t]) /\ Return0(t)
            \/ /\ Accepts(call[t]) /\ WillReturn1(t)
               /\ fft(t, call[t].context, call[t].input, call[t].output, call[t].count, FALSE)
        BY <1>2, <1>3, <3>1 DEF CkFftComplexForward, Accepts, TableOfOp
      <4>2. call[t].op = IF FALSE THEN "ComplexInverse" ELSE "ComplexForward"
        BY <1>3, <3>1
      <4> QED BY <4>1, <4>2, Zenon
    <3>2. CASE op = "ComplexInverse"
      <4>1. \/ ~Accepts(call[t]) /\ Return0(t)
            \/ /\ Accepts(call[t]) /\ WillReturn1(t)
               /\ fft(t, call[t].context, call[t].input, call[t].output, call[t].count, TRUE)
        BY <1>2, <1>3, <3>2 DEF CkFftComplexInverse, Accepts, TableOfOp
      <4>2. call[t].op = IF TRUE THEN "ComplexInverse" ELSE "ComplexForward"
        BY <1>3, <3>2
      <4> QED BY <4>1, <4>2, Zenon
    <3> QED BY <1>7, <3>1, <3>2
  <2>2. ASSUME Accepts(call[t]), WillReturn1(t), NEW inverse \in BOOLEAN,
               call[t].op = IF inverse THEN "ComplexInverse" ELSE "ComplexForward",
               fft(t, call[t].context, call[t].input, call[t].output, call[t].count, inverse)
        PROVE  Works(t)
    <3>1. IInv'
      BY <1>1, <1>2, <1>7, ComplexForwardStep, ComplexInverseStep
    <3> QED BY <1>3, <2>2, <3>1, ComplexAcceptedWorks
  <2> QED BY <1>3, <1>4, <2>1, <2>2 DEF Returned
<1> QED BY <1>2, <1>5, <1>6, <1>7

LEMMA EveryStep ==
  ASSUME RInv, Assumed, NEW t \in Threads, Step(t)
  PROVE  ~Returned(t) /\ (Refuses(t) \/ Works(t))
<1>1. CASE FftRealStep(t) /\ UNCHANGED <<call, ret>>
  BY <1>1, TransformWorks DEF Returned
<1>2. CASE ~(FftRealStep(t) /\ UNCHANGED <<call, ret>>)
  BY <1>2, AnswerBegins DEF Step
<1> QED BY <1>1, <1>2

-----------------------------------------------------------------------------
(* The steps that are no step of a transform keep the invariant.            *)
LEMMA RefusesKeeps ==
  ASSUME RInv, NEW t \in Threads, Refuses(t)
  PROVE  RInv'
<1>1. IInv'
  BY Return0Step DEF RInv, Refuses
<1>2. UNCHANGED <<context, mem, stack, call>> /\ ret' = [ret EXCEPT ![t] = 0]
      /\ ret \in [Threads -> {NULL, 0, 1}]
  BY DEF Refuses, Return0, RInv, IInv, CallsOK
<1>3. Separate' /\ InputsKept'
  BY <1>2 DEF RInv, Separate, Apart, InputsKept
<1>4. ASSUME NEW u \in Threads, ret'[u] = 1
      PROVE  ret[u] = 1
  BY <1>2, <1>4
<1>5. Results'
  BY <1>2, <1>4 DEF RInv, Results
<1> QED BY <1>1, <1>3, <1>5 DEF RInv

LEMMA CallKeeps ==
  ASSUME RInv, NEW t \in Threads, Call(t)
  PROVE  RInv'
<1>1. IInv'
  BY NewCallStep DEF RInv
<1>2. PICK a \in Requests :
        /\ \A u \in Threads : call[u] # NoCall => Apart(a, call[u]) /\ Apart(call[u], a)
        /\ call' = [call EXCEPT ![t] = a]
  BY DEF Call
<1>3. /\ UNCHANGED <<context, mem, stack, ret>> /\ call[t] = NoCall
      /\ call \in [Threads -> Requests \cup {NoCall}] /\ ret[t] = NULL /\ NULL # 1
      /\ a # NoCall
  BY RequestAssumption DEF Call, RInv, IInv, CallsOK
<1>4. call'[t] = a /\ \A u \in Threads \ {t} : call'[u] = call[u]
  BY <1>2, <1>3
<1>5. Separate'
  <2>1. \A u, v \in Threads : u # v /\ call[u] # NoCall /\ call[v] # NoCall =>
          Apart(call[u], call[v])
    BY DEF RInv, Separate
  <2>2. \A u, v \in Threads : u # v /\ call'[u] # NoCall /\ call'[v] # NoCall =>
          Apart(call'[u], call'[v])
    BY <1>2, <1>4, <2>1
  <2>3. \A x, y : Apart(x, y)' = Apart(x, y)
    BY DEF Apart
  <2> QED BY <2>2 DEF Separate, Apart
<1>6. InputsKept'
  <2>1. PICK m \in InitMem : \A d \in Buffers :
          \/ mem[d] = m[d]
          \/ \E u \in Threads : call[u] # NoCall /\ d \in {call[u].output, call[u].tmpBuf}
    BY DEF RInv, InputsKept
  <2>2. ASSUME NEW d \in Buffers
        PROVE  \/ mem'[d] = m[d]
               \/ \E u \in Threads : call'[u] # NoCall /\ d \in {call'[u].output, call'[u].tmpBuf}
    <3>1. CASE mem[d] = m[d]
      BY <1>3, <3>1
    <3>2. ASSUME NEW u \in Threads, call[u] # NoCall, d \in {call[u].output, call[u].tmpBuf}
          PROVE  call'[u] = call[u]
      BY <1>3, <1>4, <3>2
    <3> QED BY <2>1, <3>1, <3>2
  <2> QED BY <2>2 DEF InputsKept
<1>7. ASSUME NEW u \in Threads, ret'[u] = 1
      PROVE  ret[u] = 1 /\ call'[u] = call[u]
  BY <1>3, <1>4, <1>7
<1>8. Results'
  BY <1>3, <1>7 DEF RInv, Results
<1> QED BY <1>1, <1>5, <1>6, <1>8 DEF RInv

LEMMA StutterKeeps == ASSUME RInv, UNCHANGED vars PROVE RInv'
<1> USE DEF vars
<1>1. ASSUME NEW a PROVE CallFrames(a)' = CallFrames(a)
  BY CallFramesUnchanged
<1>2. StacksOK'
  BY <1>1 DEF RInv, IInv, StacksOK
<1>3. CallsOK' /\ MemOK' /\ ContextsOK'
  BY DEF RInv, IInv, CallsOK, GoodContext, MemOK, ContextsOK
<1>4. Separate' /\ InputsKept' /\ Results'
  BY DEF RInv, Separate, Apart, InputsKept, Results
<1> QED BY <1>2, <1>3, <1>4 DEF RInv, IInv

LEMMA InitRInv == Init => RInv
<1> SUFFICES ASSUME Init PROVE RInv
  OBVIOUS
<1>1. IInv
  BY InitIInv
<1>2. /\ mem \in InitMem /\ \A t \in Threads : call[t] = NoCall /\ ret[t] = NULL
      /\ NULL # 1
  BY RequestAssumption DEF Init
<1>3. Separate /\ Results
  BY <1>2 DEF Separate, Results
<1>4. InputsKept
  BY <1>2 DEF InputsKept
<1> QED BY <1>1, <1>3, <1>4 DEF RInv

LEMMA InductiveResults ==
  ASSUME Assumed
  PROVE  Spec => []RInv
<1>1. RInv /\ [Next]_vars => RInv'
  <2> SUFFICES ASSUME RInv, [Next]_vars PROVE RInv'
    OBVIOUS
  <2>1. ASSUME NEW t \in Threads, Call(t) PROVE RInv'
    BY <2>1, CallKeeps
  <2>2. ASSUME NEW t \in Threads, Step(t) PROVE RInv'
    BY <2>2, EveryStep, RefusesKeeps, WorksKeeps
  <2>3. CASE UNCHANGED vars
    BY <2>3, StutterKeeps
  <2> QED BY <2>1, <2>2, <2>3 DEF Next
<1> QED BY InitRInv, <1>1, PTL DEF Spec

-----------------------------------------------------------------------------
(***************************************************************************)
(* The data and the answers of the service, in terms of OutputOf.           *)
(***************************************************************************)
DataNow(a, x) == IF a = NoCall \/ a.input = NULL \/ a.count <= 0 THEN << >> ELSE InputOf(a, x)

AnswerNow(a, r, s, y) ==
  IF r = NULL \/ s # << >> THEN [value |-> NULL, output |-> << >>]
  ELSE [value |-> r, output |-> IF r = 0 THEN << >> ELSE OutputOf(a, y)]

LEMMA DataIs ==
  /\ Data = [t \in Threads |-> DataNow(call[t], mem[call[t].input])]
  /\ Data' = [t \in Threads |-> DataNow(call'[t], mem'[call'[t].input])]
<1>1. Data = [t \in Threads |-> DataNow(call[t], mem[call[t].input])]
  BY DEF Data, DataNow, InputOf
<1>2. Data' = [t \in Threads |-> DataNow(call'[t], mem'[call'[t].input])]
  BY DEF Data, DataNow, InputOf
<1> QED BY <1>1, <1>2

LEMMA AnswerIs ==
  /\ Answer = [t \in Threads |-> AnswerNow(call[t], ret[t], stack[t], mem[call[t].output])]
  /\ Answer' = [t \in Threads |->
                  AnswerNow(call'[t], ret'[t], stack'[t], mem'[call'[t].output])]
<1>1. \A t \in Threads :
        Answer[t] = AnswerNow(call[t], ret[t], stack[t], mem[call[t].output])
  BY DEF Answer, AnswerNow, OutputOf, Returned, float, FloatAt
<1>2. \A t \in Threads :
        Answer'[t] = AnswerNow(call'[t], ret'[t], stack'[t], mem'[call'[t].output])
  BY DEF Answer, AnswerNow, OutputOf, Returned, float, FloatAt
<1>3. /\ Answer = [t \in Threads |-> Answer[t]]
      /\ Answer' = [t \in Threads |-> Answer'[t]]
  BY DEF Answer
<1> QED BY <1>1, <1>2, <1>3

-----------------------------------------------------------------------------
(* The buffers of the calls that a step of another one does not change.     *)
LEMMA WorksElsewhere ==
  ASSUME RInv, Assumed, NEW t \in Threads, Works(t), NEW u \in Threads, u # t
  PROVE  /\ call[u] # NoCall /\ call[u].input \in Buffers =>
              mem'[call[u].input] = mem[call[u].input]
         /\ ret[u] = 1 => mem'[call[u].output] = mem[call[u].output]
<1>1. PICK b \in Outputs(call[t]) : \E R : Stores(b, R)
  BY DEF Works
<1>2. PICK R : Stores(b, R)
  BY <1>1
<1>3. call[t] \in Requests /\ call[t] # NoCall /\ Service!Valid(call[t])
  BY DEF Works
<1>4. b \in Buffers
  BY <1>2, <1>3, OwnInput
<1>5. call[u] # NoCall =>
        \A z \in {call[u].input, call[u].output, call[u].tmpBuf} :
          z \in Buffers => mem'[z] = mem[z]
  BY <1>2, <1>3, <1>4, OtherBuffers
<1>6. ret[u] = 1 => call[u] # NoCall /\ call[u].output \in Buffers
  <2>1. NULL # 1
    BY RequestAssumption
  <2>2. ret[u] = 1 => call[u] # NoCall /\ call[u] \in Requests /\ Service!Valid(call[u])
    BY <2>1 DEF RInv, IInv, CallsOK, Results
  <2> QED BY <2>2, ValidCall
<1> QED BY <1>5, <1>6

(* The data of a call do not change while it runs, nor its output after it. *)
LEMMA WorksData ==
  ASSUME RInv, Assumed, NEW t \in Threads, Works(t)
  PROVE  Data' = Data
<1>1. UNCHANGED call
  BY DEF Works
<1>2. ASSUME NEW u \in Threads
      PROVE  DataNow(call'[u], mem'[call'[u].input]) = DataNow(call[u], mem[call[u].input])
  <2> DEFINE a == call[u]
  <2>1. CASE a = NoCall \/ a.input = NULL \/ a.count <= 0
    BY <1>1, <2>1 DEF DataNow
  <2>2. CASE ~(a = NoCall \/ a.input = NULL \/ a.count <= 0)
    <3>1. a.input \in Buffers
      <4>1. a \in Requests
        BY <2>2 DEF RInv, IInv, CallsOK
      <4> QED BY <2>2, <4>1, RequestAssumption
    <3>2. mem'[a.input] = mem[a.input]
      <4>1. CASE u # t
        BY <2>2, <3>1, <4>1, WorksElsewhere
      <4>2. CASE u = t
        <5>1. call[t] \in Requests /\ Service!Valid(call[t])
              /\ \E b \in Outputs(call[t]) : \E R : Stores(b, R)
          BY DEF Works
        <5> QED BY <4>2, <5>1, OwnInput
      <4> QED BY <4>1, <4>2
    <3> QED BY <1>1, <3>2
  <2> QED BY <2>1, <2>2
<1> QED BY <1>2, DataIs

LEMMA WorksAnswers ==
  ASSUME RInv, Assumed, NEW t \in Threads, Works(t), NEW u \in Threads, u # t
  PROVE  AnswerNow(call'[u], ret'[u], stack'[u], mem'[call'[u].output])
           = AnswerNow(call[u], ret[u], stack[u], mem[call[u].output])
<1>1. call' = call /\ ret'[u] = ret[u] /\ stack'[u] = stack[u]
  BY DEF Works
<1>2. ret[u] \in {NULL, 0, 1}
  BY DEF RInv, IInv, CallsOK
<1>3. CASE ret[u] = 1
  BY <1>1, <1>3, WorksElsewhere
<1>4. CASE ret[u] # 1
  BY <1>1, <1>2, <1>4 DEF AnswerNow
<1> QED BY <1>3, <1>4

(* A call that was allowed is answered by its last step; the steps before   *)
(* that cannot be seen.                                                     *)
LEMMA WorksRefines ==
  ASSUME RInv, Assumed, NEW t \in Threads, Works(t), ~Returned(t)
  PROVE  Service!Perform(t) \/ UNCHANGED Service!vars
<1> DEFINE a == call[t]
           x == mem[a.input]
           y == mem'[a.output]
<1>1. /\ a \in Requests /\ a # NoCall /\ Service!Valid(a) /\ UNCHANGED call
      /\ ret'[t] = 1 /\ CallWay(a, stack'[t], x, mem'[a.tmpBuf], y)
  BY DEF Works
<1>2. 1 # 0 /\ 1 # NULL
  BY RequestAssumption
<1>3. Data' = Data
  BY WorksData
<1>4. Answer[t] = [value |-> NULL, output |-> << >>]
  BY AnswerIs DEF AnswerNow, Returned
<1>5. \A u \in Threads \ {t} : Answer'[u] = Answer[u]
  BY AnswerIs, WorksAnswers
<1>6. CASE stack'[t] # << >>
  <2>1. Answer'[t] = [value |-> NULL, output |-> << >>]
    BY <1>6, AnswerIs DEF AnswerNow
  <2>2. Answer' = Answer
    BY <1>4, <1>5, <2>1, AnswerIs
  <2> QED BY <1>1, <1>3, <2>2 DEF Service!vars
<1>7. CASE stack'[t] = << >>
  <2>1. Answer'[t] = [value |-> 1, output |-> OutputOf(a, y)]
    BY <1>1, <1>2, <1>7, AnswerIs DEF AnswerNow
  <2>2. OutputOf(a, y) = Service!Result(a.op, a.count, InputOf(a, x))
    <3>1. InputGood(a, x)
      BY <1>1, InputIsGood
    <3>2. AnglesExact
      BY DEF Assumed
    <3> DEFINE w == mem'[a.tmpBuf]
    <3>3. CallWay(a, << >>, x, w, y)
      BY <1>1, <1>7
    <3> HIDE DEF x, y, w
    <3> QED BY <1>1, <3>1, <3>2, <3>3, EndOfWay
  <2>3. Data[t] = InputOf(a, x)
    <3>1. a.input # NULL /\ a.count > 0 /\ a.count \in Nat
      <4>1. a.input \in Buffers /\ a.count \in Nat \ {0}
        BY <1>1, ValidCall
      <4> QED BY <4>1, RequestAssumption
    <3> QED BY <1>1, <3>1, DataIs DEF DataNow
  <2>4. Answer' = [Answer EXCEPT ![t] =
                     [value |-> 1, output |-> Service!Result(a.op, a.count, Data[t])]]
    BY <1>5, <2>1, <2>2, <2>3, AnswerIs
  <2> QED BY <1>1, <1>3, <1>4, <2>4 DEF Service!Perform, Service!Pending
<1> QED BY <1>6, <1>7

(* A call that was not allowed is refused at once.                          *)
LEMMA RefusesRefines ==
  ASSUME RInv, NEW t \in Threads, Refuses(t)
  PROVE  Service!Refuse(t)
<1>1. /\ call[t] # NoCall /\ ret[t] = NULL /\ ~Service!Valid(call[t])
      /\ UNCHANGED <<context, mem, stack, call>> /\ ret' = [ret EXCEPT ![t] = 0]
      /\ stack[t] = << >> /\ ret \in [Threads -> {NULL, 0, 1}] /\ 0 # NULL
  BY RequestAssumption DEF Refuses, Return0, RInv, IInv, CallsOK
<1>2. Data' = Data
  BY <1>1, DataIs
<1>3. Answer[t] = [value |-> NULL, output |-> << >>]
  BY <1>1, AnswerIs DEF AnswerNow
<1>4. Answer'[t] = [value |-> 0, output |-> << >>]
  <2>1. ret'[t] = 0 /\ stack'[t] = << >>
    BY <1>1
  <2> QED BY <1>1, <2>1, AnswerIs DEF AnswerNow
<1>5. \A u \in Threads \ {t} : Answer'[u] = Answer[u]
  <2>1. \A u \in Threads \ {t} : ret'[u] = ret[u]
    BY <1>1
  <2> QED BY <1>1, <2>1, AnswerIs
<1>6. Answer' = [Answer EXCEPT ![t] = [value |-> 0, output |-> << >>]]
  BY <1>4, <1>5, AnswerIs
<1> QED BY <1>1, <1>2, <1>3, <1>6 DEF Service!Refuse, Service!Pending, Service!Refused

LEMMA CallRefines ==
  ASSUME RInv, NEW t \in Threads, Call(t)
  PROVE  Service!Request(t)
<1>1. PICK a \in Requests : call' = [call EXCEPT ![t] = a]
  BY DEF Call
<1>2. /\ UNCHANGED <<context, mem, stack, ret>> /\ call[t] = NoCall
      /\ call \in [Threads -> Requests \cup {NoCall}] /\ ret[t] = NULL
  BY DEF Call, RInv, IInv, CallsOK
<1>3. call'[t] = a /\ \A u \in Threads \ {t} : call'[u] = call[u]
  BY <1>1, <1>2
<1>4. \A u \in Threads \ {t} : Data'[u] = Data[u]
  BY <1>2, <1>3, DataIs
<1>5. \A u \in Threads : Answer'[u] = Answer[u]
  <2>1. Answer'[t] = Answer[t]
    BY <1>2, AnswerIs DEF AnswerNow
  <2>2. \A u \in Threads \ {t} : Answer'[u] = Answer[u]
    BY <1>2, <1>3, AnswerIs
  <2> QED BY <2>1, <2>2
<1>6. Answer' = Answer
  BY <1>5, AnswerIs
<1> QED BY <1>2, <1>3, <1>4, <1>6 DEF Service!Request

(***************************************************************************)
(* The library is the service that ckfft.h describes: every call is         *)
(* answered once, with 0 and nothing else if its parameters are invalid,    *)
(* and otherwise with 1 and, all at once, the transform of the data that    *)
(* its input held.                                                          *)
(***************************************************************************)
THEOREM ServiceImplemented ==
  ASSUME NoIntMin, AnglesExact, NeonBuilt, OwnTmpBuf, SpectraGiven
  PROVE  Spec => ImplementsService
<1>1. Assumed
  BY DEF Assumed
<1>2. Init => Service!Init
  <2> SUFFICES ASSUME Init PROVE Service!Init
    OBVIOUS
  <2>1. /\ call = [t \in Threads |-> NoCall]
        /\ \A t \in Threads : call[t] = NoCall /\ ret[t] = NULL
    BY DEF Init
  <2>2. \A t \in Threads : DataNow(call[t], mem[call[t].input]) = << >>
    BY <2>1 DEF DataNow
  <2>3. Data = [t \in Threads |-> << >>]
    BY <2>2, DataIs
  <2>4. \A t \in Threads : AnswerNow(call[t], ret[t], stack[t], mem[call[t].output])
                             = [value |-> NULL, output |-> << >>]
    BY <2>1 DEF AnswerNow
  <2>5. Answer = [t \in Threads |-> [value |-> NULL, output |-> << >>]]
    BY <2>4, AnswerIs
  <2> QED BY <2>1, <2>3, <2>5 DEF Service!Init, Service!Pending
<1>3. RInv /\ [Next]_vars => [Service!Next]_(Service!vars)
  <2> SUFFICES ASSUME RInv, [Next]_vars PROVE [Service!Next]_(Service!vars)
    OBVIOUS
  <2>1. ASSUME NEW t \in Threads, Call(t) PROVE Service!Next
    BY <2>1, CallRefines DEF Service!Next
  <2>2. ASSUME NEW t \in Threads, Step(t)
        PROVE  Service!Next \/ UNCHANGED Service!vars
    <3>1. ~Returned(t) /\ (Refuses(t) \/ Works(t))
      BY <1>1, <2>2, EveryStep
    <3> QED BY <1>1, <3>1, RefusesRefines, WorksRefines DEF Service!Next
  <2>3. CASE UNCHANGED vars
    <3>1. UNCHANGED <<mem, stack, call, ret>>
      BY <2>3 DEF vars
    <3>2. UNCHANGED <<call, Data, Answer>>
      BY <3>1, DataIs, AnswerIs
    <3> QED BY <3>2 DEF Service!vars
  <2> QED BY <2>1, <2>2, <2>3 DEF Next
<1> QED BY <1>1, <1>2, <1>3, InductiveResults, PTL DEF Spec, ImplementsService, Service!Spec
=============================================================================
